---------------------------- MODULE MCSmallTools ----------------------------
(***************************************************************************)
(* Small command lines and files for SmallTools.                           *)
(***************************************************************************)
EXTENDS SmallTools

\* md5sum: every length up to two blocks, so that the padding meets each place.
Bytes(n, first) == [i \in 1..n |-> Data(first + i)]
Contents(n) == [opens |-> TRUE, data |-> Bytes(n, 0), bad |-> FALSE]
Missing == [opens |-> FALSE, data |-> <<>>, bad |-> FALSE]
Broken == [opens |-> TRUE, data |-> Bytes(3, 0), bad |-> TRUE]

Letters(s) == [kind |-> "options", letters |-> s, name |-> "none"]
Name(n) == [kind |-> "name", letters |-> <<>>, name |-> n]
NoMore == [kind |-> "--", letters |-> <<>>, name |-> "none"]
ListLine(n, was) == [kind |-> "digest", name |-> n, was |-> was]
Remark == [kind |-> "other", name |-> "none", was |-> <<>>]

Files(f, g) == [n \in {"stdin", "f", "g", "list"} |->
  CASE n = "f" -> f [] n = "g" -> g [] OTHER -> Contents(IF n = "list" THEN 1 ELSE 4)]
Job(args, f, g, list) == [argv |-> args, files |-> Files(f, g), lines |-> list]

MCMd5Jobs ==
  \* One file of any length, a second one, and the standard input.
  {Job(args, Contents(n), g, <<>>) :
     args \in {<<Name("f")>>, <<NoMore, Name("f"), Name("g")>>, <<>>},
     n \in 0..9, g \in {Contents(3), Missing, Broken}}
  \* Options that are known, and others.
  \cup {Job(<<Letters(s), Name("list")>>, Contents(2), Contents(2), <<ListLine("f", Bytes(2, 0))>>) :
          s \in {<<"v">>, <<"v", "c">>, <<"b">>, <<"c", "t">>, <<"h">>}}
  \* Lists of files that are as they were or not, that cannot be read, and none.
  \cup {Job(<<Letters(<<"c">>)>> \o args, f, g, <<ListLine("f", Bytes(4, 0)), Remark, ListLine("g", was)>>) :
          args \in {<<>>, <<Name("list")>>, <<Name("list"), Name("f")>>},
          f, g \in {Contents(4), Contents(5), Missing, Broken}, was \in {Bytes(4, 0), Bytes(4, 1)}}
  \cup {Job(<<Letters(<<"c">>)>>, Missing, Missing, <<Remark>>)}

\* tftp: two arguments of any kind, and three or four with a file's name at the end.
Flag(letter) == [opt |-> letter, num |-> 0, word |-> <<>>]
NumFlag(letter, n) == [opt |-> letter, num |-> n, word |-> <<>>]
Word0(w) == [opt |-> "word", num |-> 0, word |-> w]
RemoteName == Word0(<<"h", ":", "d", "/", "f">>)
TftpFlags == {Flag(letter) : letter \in {"8", "a", "b", "m", "s", "r", "S", "?", "x"}}
TftpNumbers ==
  {NumFlag("B", n) : n \in {0, 8, 512, 1024, 9000}} \cup {NumFlag("T", n) : n \in {0, 5, 255}}
TftpNames ==
  {RemoteName} \cup {Word0(w) : w \in {<<"h">>, <<":", "f">>, <<"h", ":">>,
                                      <<"h", ":", "d", "/">>, <<"h", ":", "f">>}}
MCTftpLines ==
  UNION {[1..n -> TftpFlags \cup TftpNumbers \cup TftpNames] : n \in 0..2}
  \cup {<<a, b, RemoteName>> : a, b \in TftpFlags \cup TftpNumbers}
  \cup {<<Flag("S"), a, b, RemoteName>> : a, b \in TftpNumbers}
  \cup {<<Flag("r"), RemoteName, Word0(<<"l">>), Word0(<<"m">>)>>}

\* esenet: up to three arguments.
MCOpenLines == UNION {[1..n -> {"/VA", "/J", "/X", "host", "80"}] : n \in 0..3}
=============================================================================
