------------------------------- MODULE Md5Sum -------------------------------
(***************************************************************************)
(* md5sum/md5sum.c with getopt.c: digests of files, or the check of a list *)
(* of digests.  A digest of the list is that of the file as it was.        *)
(***************************************************************************)
EXTENDS Md5

CONSTANTS
  FileBuf         \* bytes fread is asked for (1024)

ASSUME Md5SumAssumption == FileBuf \in Nat \ {0}

VARIABLES
  mpc,            \* "getopt", "next", "read" or "end"
  job,            \* argv, the files there are, and the lines of a list
  optind, sp,     \* getopt: the argument and the letter in it that come next
  check,          \* check
  ctx,            \* the context
  at,             \* the file being read, and how many of its bytes are
  turn,           \* the name, or the line of the list, that comes next
  ex, failed, checked,   \* rc or ex, failed, checked
  digests,        \* digests printed: of which file, and the blocks
  status          \* the exit status, -1 while it runs

md5Vars == <<mpc, job, optind, sp, check, ctx, at, turn, ex, failed, checked, digests,
             status>>

NoFile == [name |-> "none", pos |-> 0]

Md5Init(jobs) ==
  /\ mpc = "getopt" /\ job \in jobs /\ optind = 1 /\ sp = 1 /\ check = 0
  /\ ctx = MD5Init /\ at = NoFile /\ turn = 1
  /\ ex = 0 /\ failed = 0 /\ checked = 0 /\ digests = <<>> /\ status = -1

\* What can be asked: options come before names, and what is named is there, to be
\* opened or not.
FileByte == STRING \X Nat
Arguments == [kind : {"options", "--", "name"}, letters : Seq(STRING), name : STRING]
FileStates == [opens : BOOLEAN, data : Seq(FileByte), bad : BOOLEAN]
ListLines == [kind : STRING, name : STRING, was : Seq(FileByte)]

IsJob(j) ==
  /\ j.argv \in Seq(Arguments) /\ j.lines \in Seq(ListLines)
  /\ j.files \in [DOMAIN j.files -> FileStates] /\ "stdin" \in DOMAIN j.files
  /\ \A k \in 1 .. Len(j.argv) :
       /\ j.argv[k].kind = "options" => Len(j.argv[k].letters) > 0
       /\ j.argv[k].kind = "name" => j.argv[k].name \in DOMAIN j.files
       /\ j.argv[k].kind # "options" =>
            \A m \in k + 1 .. Len(j.argv) : j.argv[m].kind = "name"
  /\ \A k \in 1 .. Len(j.lines) :
       j.lines[k].kind = "digest" => j.lines[k].name \in DOMAIN j.files

Exit(code) == mpc' = "end" /\ status' = code

---------------------------------------------------------------------------
(* The options: 'c' and 'v' are taken, the others getopt knows, and those  *)
(* it does not, show the usage.                                            *)

\* The end of the options: a name, nothing more, or "--".
GetoptEof ==
  /\ sp = 1
  /\ \/ optind > Len(job.argv) /\ UNCHANGED optind
     \/ optind <= Len(job.argv) /\ job.argv[optind].kind = "name" /\ UNCHANGED optind
     \/ optind <= Len(job.argv) /\ job.argv[optind].kind = "--" /\ optind' = optind + 1
  /\ mpc' = "next"
  /\ UNCHANGED <<sp, check, status>>

\* A letter of an argument with options.
GetoptLetter ==
  /\ optind <= Len(job.argv) /\ job.argv[optind].kind = "options"
  /\ LET letters == job.argv[optind].letters
         c == letters[sp]
         more == sp < Len(letters)
     IN  IF c \in {"c", "v"}
         THEN /\ sp' = IF more THEN sp + 1 ELSE 1
              /\ optind' = IF more THEN optind ELSE optind + 1
              /\ check' = IF c = "c" THEN 1 ELSE check
              /\ UNCHANGED <<mpc, status>>
         ELSE Exit(2) /\ UNCHANGED <<optind, sp, check>>

Getopt ==
  /\ mpc = "getopt"
  /\ GetoptEof \/ GetoptLetter
  /\ UNCHANGED <<job, ctx, at, turn, ex, failed, checked, digests>>

---------------------------------------------------------------------------
Names == SubSeq(job.argv, optind, Len(job.argv))

\* One argument is the list; none leaves it to the standard input.
ListOpens == Len(Names) = 0 \/ (Len(Names) = 1 /\ job.files[Names[1].name].opens)

\* A file is opened: its bytes come next, or it is passed by.
OpenFile(name) ==
  IF job.files[name].opens
  THEN /\ at' = [name |-> name, pos |-> 0]
       /\ ctx' = MD5Init
       /\ mpc' = "read"
       /\ UNCHANGED <<ex, turn>>
  ELSE /\ ex' = 2
       /\ turn' = turn + 1
       /\ UNCHANGED <<at, ctx, mpc>>

\* main: the next of the names, or the standard input when there is none.
MainNext ==
  /\ mpc = "next" /\ check = 0
  /\ \/ /\ Len(Names) = 0 /\ turn = 1
        /\ OpenFile("stdin") /\ UNCHANGED status
     \/ /\ turn <= Len(Names)
        /\ OpenFile(Names[turn].name) /\ UNCHANGED status
     \/ /\ turn > Len(Names) /\ (Len(Names) > 0 \/ turn > 1)
        /\ Exit(ex) /\ UNCHANGED <<at, ctx, ex, turn>>
  /\ UNCHANGED <<job, optind, sp, check, failed, checked, digests>>

\* do_check: the next line; one that is not of a digest is passed by.
DoCheck ==
  /\ mpc = "next" /\ check = 1
  /\ \/ /\ ~ListOpens
        /\ Exit(2) /\ UNCHANGED <<at, ctx, ex, turn>>
     \/ /\ ListOpens /\ turn <= Len(job.lines)
        /\ IF job.lines[turn].kind = "digest"
           THEN OpenFile(job.lines[turn].name)
           ELSE turn' = turn + 1 /\ UNCHANGED <<at, ctx, ex, mpc>>
        /\ UNCHANGED status
     \/ /\ ListOpens /\ turn > Len(job.lines)
        /\ Exit(IF checked = 0 THEN 3 ELSE IF ex = 0 /\ failed > 0 THEN 1 ELSE ex)
        /\ UNCHANGED <<at, ctx, ex, turn>>
  /\ UNCHANGED <<job, optind, sp, check, failed, checked, digests>>

---------------------------------------------------------------------------
\* mdfile: bytes of the file as fread brings them, up to its end or an error.
MdRead ==
  /\ mpc = "read"
  /\ LET f == job.files[at.name]
     IN  /\ at.pos < Len(f.data) /\ ~(f.bad /\ at.pos >= Len(f.data) \div 2)
         /\ \E n \in 1 .. FileBuf :
              /\ at.pos + n <= Len(f.data)
              /\ ctx' = MD5Update(ctx, SubSeq(f.data, at.pos + 1, at.pos + n))
              /\ at' = [at EXCEPT !.pos = @ + n]
  /\ UNCHANGED <<mpc, job, optind, sp, check, turn, ex, failed, checked, digests, status>>

\* What is done with a file that has been read: a read error, a digest printed,
\* or one compared with the list's.
Answer(f, digest) ==
  IF f.bad
  THEN ex' = 2 /\ UNCHANGED <<failed, checked, digests>>
  ELSE IF check = 1
  THEN /\ failed' = IF digest # Blocks(job.lines[turn].was) THEN failed + 1 ELSE failed
       /\ checked' = checked + 1
       /\ UNCHANGED <<ex, digests>>
  ELSE /\ digests' = Append(digests, <<at.name, digest>>)
       /\ UNCHANGED <<ex, failed, checked>>

MdFinal ==
  /\ mpc = "read"
  /\ LET f == job.files[at.name]
     IN  /\ at.pos = Len(f.data) \/ (f.bad /\ at.pos >= Len(f.data) \div 2)
         /\ Answer(f, MD5Final(ctx))
  /\ at' = NoFile
  /\ turn' = turn + 1
  /\ mpc' = "next"
  /\ UNCHANGED <<job, optind, sp, check, ctx, status>>

Md5Next == Getopt \/ MainNext \/ DoCheck \/ MdRead \/ MdFinal

---------------------------------------------------------------------------
\* The bit count and the bytes waiting are those of the part read so far.
ContextOfPart ==
  mpc = "read" =>
    LET n == at.pos
        f == job.files[at.name]
    IN  /\ ctx.high * WordMod + ctx.low = 8 * n
        /\ Len(ctx.blocks) = n \div BlockBytes
        /\ \A k \in 1 .. n % BlockBytes :
             ctx.in[k] = f.data[(n \div BlockBytes) * BlockBytes + k]

Listed == {k \in 1 .. Len(job.lines) : job.lines[k].kind = "digest"}
Readable(k) == LET f == job.files[job.lines[k].name] IN f.opens /\ ~f.bad
Unchanged(k) == job.files[job.lines[k].name].data = job.lines[k].was

(* A digest is that of the file's bytes padded to whole blocks with their  *)
(* length at the end, whatever pieces fread brought them in; and the exit  *)
(* status of a check is 0 just when the list has a file, and all its files *)
(* can be read and are as they were, and 1 only when one has changed.      *)
DigestTrue ==
  /\ ContextOfPart
  /\ \A k \in 1 .. Len(digests) : digests[k][2] = Blocks(job.files[digests[k][1]].data)
  /\ mpc = "end" /\ check = 1 /\ status # 2 =>
       /\ status = 0 <=> (Listed # {} /\ \A k \in Listed : Readable(k) /\ Unchanged(k))
       /\ status = 1 => \E k \in Listed : Readable(k) /\ ~Unchanged(k)
       /\ status = 3 => \A k \in Listed : ~Readable(k)
  /\ mpc = "end" /\ check = 0 /\ status = 0 =>
       {digests[k][1] : k \in 1 .. Len(digests)}
         = IF Len(Names) = 0 THEN {"stdin"} ELSE {Names[k].name : k \in 1 .. Len(Names)}

Md5TypeOK ==
  /\ mpc \in {"getopt", "next", "read", "end"}
  /\ optind \in 1 .. Len(job.argv) + 1 /\ sp \in Nat \ {0}
  /\ check \in {0, 1} /\ ex \in {0, 2} /\ status \in {-1, 0, 1, 2, 3}
  /\ failed <= checked
  /\ ctx.low \in 0 .. WordMod - 1 /\ Len(ctx.in) = BlockBytes
=============================================================================
