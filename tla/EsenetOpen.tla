----------------------------- MODULE EsenetOpen -----------------------------
(***************************************************************************)
(* The start and the end of the telnet client, main() and telnet() of      *)
(* teen/esenet/esenet.c, against the TCP handles of the resident TEEN      *)
(* stack.  What passes between them over the open connection is in         *)
(* EsenetRecv and EsenetSend; here mainloop() is the time until it returns. *)
(*                                                                         *)
(* The stack's part is modelled from its interface (teen/tlib/include/     *)
(* tcp.h and the stubs of tcp.asm): a connection is looked for, opened,    *)
(* closed by one side or the other and gone, and changes its state by      *)
(* itself between two calls of the program.                                *)
(***************************************************************************)
EXTENDS Integers, Sequences

CONSTANTS
  OpenLines,      \* command lines: sequences of switches and words
  Handles,        \* the handles the stack has
  CharMod         \* the values of a char, which Open Watcom takes for unsigned

ASSUME OpenLinesAssumption == OpenLines \subseteq Seq(STRING)
ASSUME HandlesAssumption == CharMod \in Nat \ {0} /\ Handles \subseteq 0..(CharMod - 2)

VARIABLES
  opc,            \* "args", "start", "open", "connect", "main", "wait" or "end"
  line, read,     \* the command line, and the arguments read
  host, port,     \* host and port: "none" or a word
  ahandle,        \* the handle, as a char
  given,          \* handles the stack has given out
  tcp,            \* the state of the connection; "error" for a handle it has not
  downstate,      \* why it is closed
  byKey,          \* history: a key ended the wait for the connection or its end
  told,           \* history: what the program said last
  left            \* history: the state of the connection when its handle went

openVars == <<opc, line, read, host, port, ahandle, given, tcp, downstate, byKey, told,
              left>>

OpenInit(lines) ==
  /\ line \in lines /\ opc = "args" /\ read = 0
  /\ host = "none" /\ port = "none"
  /\ ahandle = (-1) % CharMod /\ given = {} /\ tcp = "error" /\ downstate = "notdown"
  /\ byKey = FALSE /\ told = "nothing" /\ left = "none"

Ends(words) ==
  /\ opc' = "end" /\ told' = words
  /\ UNCHANGED <<line, read, host, port>>

----------------------------------------------------------------------------
(* main().                                                                *)

Switches == {"/VA", "/VH", "/VB", "/J"}
Bad == {"/V", "/X"}
Item == line[read + 1]

Argument ==
  /\ opc = "args" /\ read < Len(line)
  /\ Item \notin Bad
  /\ Item \in Switches \/ host = "none" \/ port = "none"
  /\ read' = read + 1
  /\ host' = IF Item \notin Switches /\ host = "none" THEN Item ELSE host
  /\ port' = IF Item \notin Switches /\ host # "none" THEN Item ELSE port
  /\ UNCHANGED <<opc, line, ahandle, given, tcp, downstate, byKey, told,
                 left>>

\* A switch it does not know, a third word, or no host at all.
WrongLine ==
  /\ opc = "args"
  /\ IF read < Len(line)
     THEN Item \in Bad \/ (Item \notin Switches /\ host # "none" /\ port # "none")
     ELSE host = "none" /\ port = "none"
  /\ Ends("usage")
  /\ UNCHANGED <<ahandle, given, tcp, downstate, byKey, left>>

SetTarget ==
  /\ opc = "args" /\ read = Len(line) /\ host # "none"
  /\ port' = IF port = "none" THEN "23" ELSE port
  /\ opc' = "start"
  /\ UNCHANGED <<line, read, host, ahandle, given, tcp, downstate, byKey, told,
                 left>>

----------------------------------------------------------------------------
(* telnet().                                                              *)

\* TEEN is not resident, or there is no memory for the buffers.
NoStart ==
  /\ opc = "start"
  /\ Ends("no start")
  /\ UNCHANGED <<ahandle, given, tcp, downstate, byKey, left>>

\* tcp_activeopen: a handle, or -1 when the stack has none left; the char holds
\* either without its sign.
ActiveOpen ==
  /\ opc = "start"
  /\ \/ /\ \E h \in Handles : ahandle' = h /\ given' = given \cup {h}
        /\ tcp' = "search"
     \/ ahandle' = (-1) % CharMod /\ UNCHANGED <<given, tcp>>
  /\ opc' = "open"
  /\ UNCHANGED <<line, read, host, port, downstate, byKey, told,
                 left>>

\* The test for the error, which an unsigned char does not pass.
Opened ==
  /\ opc = "open"
  /\ opc' = IF ahandle < 0 THEN "end" ELSE "connect"
  /\ told' = IF ahandle < 0 THEN "no handle" ELSE told
  /\ UNCHANGED <<line, read, host, port, ahandle, given, tcp, downstate, byKey, left>>

\* tcp_close: the handle is free again, and what was left of the connection with it.
TcpClose ==
  /\ given' = given \ {ahandle}
  /\ tcp' = "error" /\ left' = tcp

Cancel ==
  /\ opc = "connect" /\ tcp \notin {"open", "closed"}
  /\ TcpClose /\ byKey' = TRUE
  /\ Ends("cancelled")
  /\ UNCHANGED <<ahandle, downstate>>

Refused ==
  /\ opc = "connect" /\ tcp = "closed"
  /\ TcpClose
  /\ Ends(downstate)
  /\ UNCHANGED <<ahandle, downstate, byKey>>

Connected ==
  /\ opc = "connect" /\ tcp = "open"
  /\ opc' = "main" /\ told' = "connected"
  /\ UNCHANGED <<line, read, host, port, ahandle, given, tcp, downstate, byKey, left>>

\* mainloop() returns once the user says so, or the connection is not open any more
\* and all that came over it is shown; then tcp_shutdown.
MainLoopEnds ==
  /\ opc = "main"
  /\ opc' = "wait"
  /\ tcp' = CASE tcp = "open" -> "myclosing" [] tcp = "hisclosing" -> "closing" [] OTHER -> tcp
  /\ downstate' = IF tcp = "open" THEN "mydown" ELSE downstate
  /\ UNCHANGED <<line, read, host, port, ahandle, given, byKey, told,
                 left>>

\* A slip: the wait ends when both sides have closed, their last segments under way.
ClosedOrClosing == tcp \in {"closed", "closing"}

Closed == tcp = "closed"

\* The wait for the end of the connection, which a key cuts short.
Disconnected ==
  /\ opc = "wait"
  /\ (Closed /\ UNCHANGED byKey) \/ byKey' = TRUE
  /\ TcpClose
  /\ Ends("disconnected")
  /\ UNCHANGED <<ahandle, downstate>>

OpenClient == Argument \/ WrongLine \/ SetTarget \/ NoStart \/ ActiveOpen \/ Opened
              \/ Cancel \/ Refused \/ Connected \/ MainLoopEnds \/ Disconnected

----------------------------------------------------------------------------
(* The stack.                                                             *)

TcpGoes(from, to, why) ==
  /\ tcp \in from
  /\ tcp' = to
  /\ downstate' = why
  /\ UNCHANGED <<opc, line, read, host, port, ahandle, given, byKey, told,
                 left>>

Found == TcpGoes({"search"}, "opening", downstate)
Unknown == TcpGoes({"search"}, "closed", "nohost")
Accepted == TcpGoes({"opening"}, "open", downstate)
Failed == \E why \in {"reject", "timeout"} : TcpGoes({"opening"}, "closed", why)
HisClose == TcpGoes({"open"}, "hisclosing", "hisdown")
\* The last segments are exchanged.
Gone == TcpGoes({"myclosing", "closing"}, "closed", downstate)
\* Or the host answers nothing, or with a reset.
Cut == \E why \in {"hisdown", "timeout"} :
         TcpGoes({"open", "hisclosing", "myclosing", "closing"}, "closed", why)

OpenStack == Found \/ Unknown \/ Accepted \/ Failed \/ HisClose \/ Gone \/ Cut

OpenNext == OpenClient \/ OpenStack

OpenSpec == OpenInit(OpenLines) /\ [][OpenNext]_openVars

----------------------------------------------------------------------------
(* Properties.                                                            *)

OpenTypeOK ==
  /\ opc \in {"args", "start", "open", "connect", "main", "wait", "end"}
  /\ read \in 0..Len(line)
  /\ ahandle \in 0..(CharMod - 1) /\ given \subseteq Handles
  /\ tcp \in {"error", "search", "opening", "open", "hisclosing", "myclosing",
              "closing", "closed"}

\* Whatever way the program ends, the stack has its handle back: one that is kept is
\* lost to every program until the machine is started again.  The handle goes back
\* only when the connection is gone, so that nothing of it is cut off, unless the
\* user pressed a key; and a connection the user was told of was ended by a side or
\* the other, never left as it was.
ConnectionReleased ==
  opc = "end" =>
    /\ given = {}
    /\ left \notin {"none", "closed"} => byKey
    /\ told = "disconnected" => downstate # "notdown"
=============================================================================
