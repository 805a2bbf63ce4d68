------------------------------ MODULE TftpArgs ------------------------------
(***************************************************************************)
(* The command line of teen/tftp/tftp.c, the request it makes of it, and   *)
(* the options a server acknowledges: para(), automode(),                  *)
(* make_req_packet(), tftp_analyze_oack() and the end of main().  The      *)
(* transfer itself is in TftpRecv and TftpSend.                            *)
(*                                                                         *)
(* An argument is [opt, num, word]: opt is the letter after the dash or    *)
(* "word", num the number that follows the letter, word the argument's     *)
(* text as a sequence of its parts.  A packet is a sequence of cells, a    *)
(* string one cell and its terminator another: a string is <<"s", text>>   *)
(* and a number written out <<"n", value>>.                                *)
(***************************************************************************)
EXTENDS Integers, Sequences, FiniteSets

CONSTANTS
  TftpLines,      \* command lines
  ServerBlkMax,   \* the largest block the server agrees to
  TftpFileSize    \* the size of the remote file, in bytes

\* A command line has no empty words.
IsLine(args) ==
  /\ args \in Seq([opt : STRING, num : Nat, word : Seq(STRING)])
  /\ \A i \in 1..Len(args) : args[i].opt = "word" => args[i].word # <<>>

ASSUME TftpArgsAssumption ==
  /\ ServerBlkMax \in Nat /\ TftpFileSize \in Nat
  /\ \A args \in TftpLines : IsLine(args)

VARIABLES
  apc,            \* "para", "request", "answer", "oack", "going" or "exit"
  argv,           \* the command line
  argi,           \* arguments read
  remote, local,  \* arg_remote and local_file: a word or <<>>
  opcode, mode,   \* opt_opcode and opt_mode
  optB, optT, optS, \* opt_blocksize, opt_timeout and opt_tsize
  blocksize,      \* blocksize: the block of the transfer
  spkt,           \* the request: <<number>> and cells
  rpkt, oi,       \* the OACK's cells and the place of its reading
  server          \* what the server made of the request

argsVars == <<apc, argv, argi, remote, local, opcode, mode, optB, optT, optS,
              blocksize, spkt, rpkt, oi, server>>

Idle == [asked |-> <<>>, host |-> <<>>, agreed |-> <<>>]

ArgsInit(lines) ==
  /\ argv \in lines /\ apc = "para" /\ argi = 0
  /\ remote = <<>> /\ local = <<>> /\ opcode = "r" /\ mode = "b"
  /\ optB = 512 /\ optT = 0 /\ optS = -1 /\ blocksize = 512
  /\ spkt = <<>> /\ rpkt = <<>> /\ oi = 1 /\ server = Idle

----------------------------------------------------------------------------
(* para(): one argument.                                                  *)

Arg == argv[argi + 1]

\* The first word is the remote file, the second the local one; a third is
\* reported and left aside.
Word ==
  /\ Arg.opt = "word"
  /\ remote' = IF remote = <<>> THEN Arg.word ELSE remote
  /\ local' = IF remote # <<>> /\ local = <<>> THEN Arg.word ELSE local
  /\ UNCHANGED <<opcode, mode, optB, optT, optS>>

Switch ==
  /\ Arg.opt \in {"8", "a", "b", "m", "s", "r", "B", "T", "S"}
  /\ mode' = CASE Arg.opt \in {"8", "b"} -> "b"
               [] Arg.opt \in {"a", "m"} -> Arg.opt
               [] OTHER -> mode
  /\ opcode' = IF Arg.opt \in {"s", "r"} THEN Arg.opt ELSE opcode
  /\ optS' = IF Arg.opt = "S" THEN 0 ELSE optS
  \* The range checks ask for a number below the least and above the greatest.
  /\ LET blk == IF Arg.opt = "B" THEN Arg.num ELSE optB
         secs == IF Arg.opt = "T" THEN Arg.num ELSE optT
     IN /\ optB' = IF blk < 8 /\ blk > 4500 THEN 512 ELSE blk
        /\ optT' = IF secs < 1 /\ secs > 255 THEN 0 ELSE secs
  /\ UNCHANGED <<remote, local>>

Para ==
  /\ apc = "para" /\ argi < Len(argv)
  /\ Word \/ Switch
  /\ argi' = argi + 1
  /\ UNCHANGED <<apc, argv, blocksize, spkt, rpkt, oi, server>>

\* -? and letters it does not know end in usage(), and so does every way out of
\* main(): commandmode() is no more than that.
Usage ==
  /\ \/ apc = "para" /\ argi < Len(argv) /\ Arg.opt \in {"?", "x"}
     \/ apc = "para" /\ argi = Len(argv) /\ remote = <<>>
     \/ apc = "going"
  /\ apc' = "exit"
  /\ UNCHANGED <<argv, argi, remote, local, opcode, mode, optB, optT, optS,
                 blocksize, spkt, rpkt, oi, server>>

----------------------------------------------------------------------------
(* automode().                                                            *)

Places(word, part) == {i \in 1..Len(word) : word[i] = part}
Lowest(S) == CHOOSE i \in S : \A k \in S : i <= k
The(S) == CHOOSE x \in S : TRUE
Highest(S) == CHOOSE i \in S : \A k \in S : i >= k

\* The name of the remote file is what follows the first colon.
Colon == Lowest(Places(remote, ":"))
RemoteFile == SubSeq(remote, Colon + 1, Len(remote))

\* The part of a name after its last slash: strrchr.
LastPart(name) ==
  IF Places(name, "/") = {} THEN name
  ELSE SubSeq(name, Highest(Places(name, "/")) + 1, Len(name))

LocalName == IF local # <<>> THEN local ELSE LastPart(RemoteFile)

\* A name it cannot do without is missing: usage(), or an error and then usage().
NoName ==
  \/ Places(remote, ":") = {}
  \/ Colon = 1
  \/ RemoteFile = <<>>
  \/ LocalName = <<>>

AutoMode ==
  /\ apc = "para" /\ argi = Len(argv) /\ remote # <<>>
  /\ apc' = IF NoName THEN "exit" ELSE "request"
  /\ local' = IF NoName THEN local ELSE LocalName
  /\ UNCHANGED <<argv, argi, remote, opcode, mode, optB, optT, optS, blocksize,
                 spkt, rpkt, oi, server>>

TransMode == CASE mode = "a" -> "netascii" [] mode = "b" -> "octet" [] mode = "m" -> "mail"

----------------------------------------------------------------------------
(* make_req_packet().                                                     *)

Nul == <<"nul">>
Text(s) == <<"s", s>>
Number(n) == <<"n", n>>

\* strpcpy: the string and its terminator.
Strpcpy(cell) == <<cell, Nul>>
Option(name, n) == Strpcpy(Text(name)) \o Strpcpy(Number(n))

\* A slip: the time-out is sent whether it was asked for or not.
TimeoutAlways == Option("timeout", optT)

\* The options that are not the protocol's own values.
BlksizeOption == IF optB # 512 THEN Option("blksize", optB) ELSE <<>>
TimeoutOption == IF optT # 0 THEN Option("timeout", optT) ELSE <<>>
TsizeOption == IF optS >= 0 THEN Option("tsize", optS) ELSE <<>>

Request ==
  <<IF opcode = "s" THEN 2 ELSE 1>>
  \o Strpcpy(Text(RemoteFile)) \o Strpcpy(Text(TransMode))
  \o BlksizeOption \o TimeoutOption \o TsizeOption

\* The request goes out; a sender without a time-out takes three seconds.
SendRequest ==
  /\ apc = "request"
  /\ apc' = "answer"
  /\ spkt' = Request
  /\ optT' = IF opcode = "s" /\ optT = 0 THEN 3 ELSE optT
  /\ UNCHANGED <<argv, argi, remote, local, opcode, mode, optB, optS, blocksize,
                 rpkt, oi, server>>

----------------------------------------------------------------------------
(* The server.                                                            *)

\* The strings of the request behind its number, and the options among them.
Strings == [i \in 1..((Len(spkt) - 1) \div 2) |-> spkt[2 * i][2]]
AskedFor ==
  {<<Strings[i], Strings[i + 1]>> : i \in {k \in 3..Len(Strings) : k % 2 = 1}}

\* What it answers an option with: blocks no larger than it likes, the size of
\* the file it sends.
Granted(option) ==
  CASE option[1] = "blksize" ->
         <<"blksize", IF option[2] > ServerBlkMax THEN ServerBlkMax ELSE option[2]>>
    [] option[1] = "timeout" -> option
    [] option[1] = "tsize" -> <<"tsize", TftpFileSize>>

\* It takes any of the options and acknowledges them in any order; with none it
\* begins the transfer.  A sender does not read an OACK (TftpSend).
Orders(S) == {s \in [1..Cardinality(S) -> S] : \A o \in S : \E i \in DOMAIN s : s[i] = o}
Cells(s) ==
  [i \in 1..(4 * Len(s)) |->
     CASE i % 4 = 1 -> Text(s[(i + 3) \div 4][1])
       [] i % 4 = 3 -> Number(s[(i + 3) \div 4][2])
       [] OTHER -> Nul]

ServerAnswer ==
  /\ apc = "answer"
  /\ \E taken \in SUBSET {o \in AskedFor : opcode = "r"} :
     \E order \in Orders({Granted(o) : o \in taken}) :
       /\ rpkt' = Cells(order)
       /\ apc' = IF taken = {} THEN "going" ELSE "oack"
       /\ server' = [asked |-> <<spkt[1], Strings[1], Strings[2], AskedFor>>,
                     agreed |-> {Granted(o) : o \in taken}, host |-> SubSeq(remote, 1, Colon - 1)]
  /\ oi' = 1
  /\ UNCHANGED <<argv, argi, remote, local, opcode, mode, optB, optT, optS, blocksize,
                 spkt>>

----------------------------------------------------------------------------
(* tftp_analyze_oack(): one pass of its loop, i being counted from the     *)
(* first option.                                                           *)

\* The terminator of the string that begins at p.
EndOf(p) == Lowest({k \in p..Len(rpkt) : rpkt[k] = Nul})
OackName == rpkt[oi]
OackValue == rpkt[EndOf(oi) + 1][2]

AnalyzeOack ==
  /\ apc = "oack" /\ oi <= Len(rpkt)
  /\ blocksize' = IF OackName = Text("blksize") THEN OackValue ELSE blocksize
  /\ optT' = IF OackName = Text("timeout") THEN OackValue ELSE optT
  /\ optS' = IF OackName = Text("tsize") /\ opcode = "r" THEN OackValue ELSE optS
  /\ oi' = EndOf(EndOf(oi) + 1) + 1
  /\ UNCHANGED <<apc, argv, argi, remote, local, opcode, mode, optB, spkt, rpkt, server>>

OackRead ==
  /\ apc = "oack" /\ oi > Len(rpkt)
  /\ apc' = "going"
  /\ UNCHANGED <<argv, argi, remote, local, opcode, mode, optB, optT, optS, blocksize,
                 spkt, rpkt, oi, server>>

ArgsNext == Para \/ Usage \/ AutoMode \/ SendRequest \/ ServerAnswer \/ AnalyzeOack \/ OackRead

----------------------------------------------------------------------------
(* Properties.                                                            *)

ArgsTypeOK ==
  /\ apc \in {"para", "request", "answer", "oack", "going", "exit"}
  /\ argi \in 0..Len(argv)
  /\ opcode \in {"r", "s"} /\ mode \in {"a", "b", "m"}
  /\ {optB, optT, blocksize} \subseteq Nat /\ optS \in Nat \cup {-1}
  /\ oi \in 1..(Len(rpkt) + 1)

\* The last argument with one of these letters, as the command line gives it.
LastOf(letters) == {i \in 1..Len(argv) :
  argv[i].opt \in letters /\ \A k \in 1..Len(argv) : argv[k].opt \in letters => k <= i}
Words == {i \in 1..Len(argv) : argv[i].opt = "word"}
Asked(letter, name, plain) ==
  {<<name, argv[i].num>> : i \in {k \in LastOf({letter}) : argv[k].num # plain}}

\* The numbers the documents allow (tftp.xx:50, tftp.c:605 and 611).
NumbersAllowed ==
  \A i \in 1..Len(argv) :
    /\ argv[i].opt = "B" => argv[i].num \in 8..4500
    /\ argv[i].opt = "T" => argv[i].num \in 1..255

\* A size is asked for, of the file that is received: not told, of one that is sent.
SizeIsAsked == LastOf({"S"}) # {} => \A i \in LastOf({"r", "s"}) : argv[i].opt = "r"

\* Once the transfer goes, the request the server took says what the command line
\* says - the last of each kind of option counts, and an option nobody asked for is
\* not there - it went to the host that is named before the colon, and the client
\* transfers with the numbers the server agreed to, whatever their order, or with
\* its own.  Numbers that are not allowed should be ignored, and a sender should tell
\* the size of its file (tftp.xx:54): the code does neither, and this says nothing of
\* them.
RequestAsAsked ==
  apc = "going" /\ NumbersAllowed /\ SizeIsAsked =>
    LET word == argv[Lowest(Words)].word
        colon == Lowest(Places(word, ":"))
        says(letters, plain) ==
          IF LastOf(letters) = {} THEN plain ELSE argv[The(LastOf(letters))].opt
        agreed(name, plain) ==
          LET n == {o[2] : o \in {o \in server.agreed : o[1] = name}}
          IN IF n = {} THEN plain ELSE The(n)
        options == Asked("B", "blksize", 512) \cup Asked("T", "timeout", 0)
                   \cup {<<"tsize", 0>> : i \in LastOf({"S"})}
    IN /\ server.host = SubSeq(word, 1, colon - 1)
       /\ server.asked =
            <<IF says({"r", "s"}, "r") = "s" THEN 2 ELSE 1,
              SubSeq(word, colon + 1, Len(word)),
              CASE says({"8", "a", "b", "m"}, "b") = "a" -> "netascii"
                [] says({"8", "a", "b", "m"}, "b") = "m" -> "mail"
                [] OTHER -> "octet",
              options>>
       /\ blocksize = agreed("blksize", 512)
       /\ opcode = "r" => /\ optT = agreed("timeout", IF Asked("T", "timeout", 0) = {} THEN 0
                                                     ELSE The(Asked("T", "timeout", 0))[2])
                          /\ optS = agreed("tsize", IF LastOf({"S"}) = {} THEN -1 ELSE 0)
=============================================================================
