----------------------------- MODULE EsenetRecv -----------------------------
(***************************************************************************)
(* The receiving half of the telnet client teen/esenet/esenet.c:           *)
(* mainloop(), which takes the stream of the host apart into text, zero    *)
(* bytes and telnet commands, recv_command(), which answers the commands,  *)
(* and the end of the connection.                                          *)
(*                                                                         *)
(* TCP cuts the stream anywhere, and so does the client, which reads at    *)
(* most RecvBufLen bytes at a time: a command may come in three pieces.    *)
(* One pass of the loop is three actions, Recv, one of the handlers, and   *)
(* CheckState, since data and the end of the stream may arrive between     *)
(* them.  The host sends items: a byte of text, a zero byte, or a command, *)
(* and what each should put on the screen and have answered is noted as it *)
(* is sent.                                                                *)
(***************************************************************************)
EXTENDS TeenTcp, SequencesExt

CONSTANTS
  RecvBufLen,     \* RECVBUFLEN
  TextBytes,      \* bytes that are text
  Odd,            \* second bytes of a command that no command has
  Options,        \* options the host negotiates
  MaxItems        \* bound: items the host sends

ASSUME RecvBufLenAssumption == RecvBufLen \in Nat \ {0} /\ MaxItems \in Nat
ASSUME StreamAssumption ==
  /\ TextBytes \subseteq 1..254 /\ Odd \subseteq 0..250 /\ Options \subseteq 0..254

VARIABLES
  pc,             \* "recv", "handle", "reply", "state", "left" or "quit"
  buf,            \* top, len: bytes read and not yet handled
  mode,           \* "text" or "command"
  obuf,           \* obuf, olen: the command so far
  optDo,          \* options whose OPT_ACK is set in opt_do
  swEcho,         \* sw_echo
  closing,        \* the host has been seen to close
  shown,          \* what output() was given
  todo,           \* bytes of the host's item not yet arrived
  items,          \* items sent so far
  got,            \* what the host has received
  want,           \* what the items should put on the screen
  due,            \* what the items should have answered
  offered,        \* ECHO and SUPPRESS-GO-AHEAD, once the host has said WILL
  cut             \* the user gave up an answer with ESC

clientVars == <<pc, buf, mode, obuf, optDo, swEcho, closing, shown>>
hostVars == <<todo, items, want, due, offered>>
vars == <<tcpVars, sendVars, clientVars, hostVars, got, cut>>

IAC == 255
WILL == 251
WONT == 252
DO == 253
DONT == 254
ECHO == 1
SGA == 3
Granted == {ECHO, SGA}

Init ==
  /\ TcpInit
  /\ pc = "recv" /\ buf = <<>> /\ mode = "text" /\ obuf = <<>>
  /\ optDo = {} /\ swEcho = TRUE /\ closing = FALSE /\ shown = <<>>
  /\ todo = <<>> /\ items = 0 /\ got = <<>> /\ want = <<>> /\ due = <<>>
  /\ offered = {} /\ cut = FALSE

----------------------------------------------------------------------------
(* mainloop().                                                            *)

\* What is left of buf is handled first; only then more is read.
Recv ==
  /\ pc = "recv"
  /\ pc' = "handle"
  /\ IF buf = <<>>
     THEN buf' = Received(RecvBufLen) /\ TcpRecv(RecvBufLen)
     ELSE UNCHANGED <<buf, tcpVars>>
  /\ UNCHANGED <<sendVars, mode, obuf, optDo, swEcho, closing, shown, hostVars,
                 got, cut>>

\* The user ends the session from the menu.
Quit ==
  /\ pc = "recv"
  /\ pc' = "quit"
  /\ UNCHANGED <<tcpVars, sendVars, buf, mode, obuf, optDo, swEcho, closing,
                 shown, hostVars, got, cut>>

\* Bytes that end a run of text.
NotText == {0, IAC}

\* terminateFFor00: the length of the run of text buf begins with.
TextLen ==
  CHOOSE n \in 0..Len(buf) :
    /\ \A i \in 1..n : buf[i] \notin NotText
    /\ n < Len(buf) => buf[n + 1] \in NotText

\* TEXTMODE: a zero byte is dropped, IAC begins a command and stays in buf, a
\* run of text is shown.
Text ==
  /\ pc = "handle" /\ mode = "text" /\ buf # <<>>
  /\ \/ /\ Head(buf) = 0
        /\ buf' = Tail(buf) /\ UNCHANGED <<mode, shown>>
     \/ /\ Head(buf) = IAC
        /\ mode' = "command" /\ UNCHANGED <<buf, shown>>
     \/ /\ Head(buf) \notin {0, IAC}
        /\ shown' = shown \o SubSeq(buf, 1, TextLen)
        /\ buf' = Rest(buf, TextLen) /\ UNCHANGED mode
  /\ pc' = "state"
  /\ UNCHANGED <<tcpVars, sendVars, obuf, optDo, swEcho, closing, hostVars,
                 got, cut>>

\* A slip: `closing` is a variable of the pass.
LeavesPerPass == FALSE

\* Without data and with the end of the connection seen, the loop is left.
Leaves == closing

\* A pass without data.
Idle ==
  /\ pc = "handle" /\ buf = <<>>
  /\ pc' = IF Leaves THEN "left" ELSE "state"
  /\ UNCHANGED <<tcpVars, sendVars, buf, mode, obuf, optDo, swEcho, closing,
                 shown, hostVars, got, cut>>

\* A slip: the last bytes are not waited for.
LeaveAtOnce == "left"

\* The loop goes on: what has arrived before the host closed is still shown.
AfterClosing == "recv"

\* The end of a pass: the state of the connection.
CheckState ==
  /\ pc = "state"
  /\ closing' = (closing \/ state # "open")
  /\ pc' = IF closing' /\ ~closing THEN AfterClosing ELSE "recv"
  /\ UNCHANGED <<tcpVars, sendVars, buf, mode, obuf, optDo, swEcho, shown,
                 hostVars, got, cut>>

----------------------------------------------------------------------------
(* recv_command().                                                        *)

\* Bytes a call adds to obuf: one if there are fewer than two, and the third
\* in the same call if the command has one and it is there.
First == IF Len(obuf) < 2 THEN 1 ELSE 0
Second == (obuf \o buf)[2]
Third == IF Len(obuf) + First = 2 /\ Second \in WILL..DONT /\ Len(buf) > First
         THEN 1 ELSE 0
Used == First + Third

Cmd == obuf \o SubSeq(buf, 1, Used)

\* A slip: a command is complete with the byte after its third.
WholeLate(c) == Len(c) = 4 \/ (Len(c) = 2 /\ c[2] \notin WILL..DONT)

\* A command of two bytes or of three.
Whole(c) == Len(c) = 3 \/ (Len(c) = 2 /\ c[2] \notin WILL..DONT)

\* A slip: every WILL is answered.
AnswersAgain(c) ==
  IF c[2] = WILL /\ c[3] \in Granted THEN <<IAC, DO, c[3]>>
  ELSE IF c[2] = WILL THEN <<IAC, DONT, c[3]>>
  ELSE IF c[2] = DO THEN <<IAC, WONT, c[3]>> ELSE <<>>

\* WILL ECHO and WILL SUPPRESS-GO-AHEAD are granted, once; any other WILL and
\* every DO is refused; WONT and DONT need no answer.
Answer(c) ==
  IF c[2] = WILL /\ c[3] \in Granted
  THEN IF c[3] \in optDo THEN <<>> ELSE <<IAC, DO, c[3]>>
  ELSE IF c[2] = WILL THEN <<IAC, DONT, c[3]>>
  ELSE IF c[2] = DO THEN <<IAC, WONT, c[3]>> ELSE <<>>

\* What a command of two bytes puts on the screen: a doubled IAC is one, and a
\* code below 240 is shown with its IAC.
Screen(c) ==
  IF c[2] = IAC THEN <<IAC>> ELSE IF c[2] < 240 THEN c ELSE <<>>

\* A slip: a command cut between its second and third byte starts over.
Dropped(c) == IF Len(c) = 2 THEN <<>> ELSE c

\* obuf and olen are static.
Kept(c) == c

\* COMMANDMODE, the command still incomplete.
CommandPart ==
  /\ pc = "handle" /\ mode = "command" /\ buf # <<>>
  /\ ~Whole(Cmd)
  /\ obuf' = Kept(Cmd)
  /\ buf' = Rest(buf, Used)
  /\ pc' = "state"
  /\ UNCHANGED <<tcpVars, sendVars, mode, optDo, swEcho, closing, shown,
                 hostVars, got, cut>>

\* COMMANDMODE, a command complete: shown, ignored or answered.
Command ==
  /\ pc = "handle" /\ mode = "command" /\ buf # <<>>
  /\ Whole(Cmd)
  /\ obuf' = <<>> /\ mode' = "text"
  /\ buf' = Rest(buf, Used)
  /\ IF Len(Cmd) = 2
     THEN /\ shown' = shown \o Screen(Cmd)
          /\ pc' = "state"
          /\ UNCHANGED <<optDo, swEcho, sendVars>>
     ELSE /\ optDo' = IF Cmd[2] = WILL THEN optDo \cup ({Cmd[3]} \cap Granted)
                      ELSE optDo
          /\ swEcho' = (swEcho /\ ~(Cmd[2] = WILL /\ Cmd[3] = ECHO))
          /\ IF Answer(Cmd) = <<>>
             THEN pc' = "state" /\ UNCHANGED sendVars
             ELSE pc' = "reply" /\ Send(Answer(Cmd))
          /\ UNCHANGED shown
  /\ UNCHANGED <<tcpVars, closing, hostVars, got, cut>>

\* send() at work on the answer.
Reply ==
  /\ pc = "reply" /\ SendTry
  /\ UNCHANGED <<clientVars, hostVars, got, cut>>

ReplyEscape ==
  /\ pc = "reply" /\ SendEscape
  /\ cut' = TRUE
  /\ UNCHANGED <<clientVars, hostVars, got>>

ReplyDone ==
  /\ pc = "reply" /\ ~Sending
  /\ pc' = "state"
  /\ UNCHANGED <<tcpVars, sendVars, buf, mode, obuf, optDo, swEcho, closing,
                 shown, hostVars, got, cut>>

Client ==
  \/ Recv \/ Text \/ Idle \/ CommandPart \/ Command
  \/ Reply \/ ReplyDone \/ CheckState

----------------------------------------------------------------------------
(* The host.                                                              *)

\* The next item, what it should show and what it should have answered.
Item(bytes, show, answer) ==
  /\ state = "open" /\ todo = <<>> /\ items < MaxItems
  /\ todo' = bytes
  /\ items' = items + 1
  /\ want' = want \o show
  /\ due' = due \o answer

HostSends ==
  /\ \/ \E c \in TextBytes : Item(<<c>>, <<c>>, <<>>) /\ UNCHANGED offered
     \/ Item(<<0>>, <<>>, <<>>) /\ UNCHANGED offered
     \/ Item(<<IAC, IAC>>, <<IAC>>, <<>>) /\ UNCHANGED offered
     \/ \E c \in Odd :
          /\ Item(<<IAC, c>>, IF c < 240 THEN <<IAC, c>> ELSE <<>>, <<>>)
          /\ UNCHANGED offered
     \/ \E x \in Options :
          /\ Item(<<IAC, WILL, x>>, <<>>,
                  IF x \in offered THEN <<>>
                  ELSE <<IAC, IF x \in Granted THEN DO ELSE DONT, x>>)
          /\ offered' = offered \cup ({x} \cap Granted)
     \/ \E x \in Options :
          Item(<<IAC, DO, x>>, <<>>, <<IAC, WONT, x>>) /\ UNCHANGED offered
     \/ \E x \in Options, c \in {WONT, DONT} :
          Item(<<IAC, c, x>>, <<>>, <<>>) /\ UNCHANGED offered
  /\ UNCHANGED <<tcpVars, sendVars, clientVars, got, cut>>

\* TCP delivers some of it.
Arrive ==
  /\ \E n \in 1..Len(todo) :
       /\ TcpArrive(SubSeq(todo, 1, n))
       /\ todo' = Rest(todo, n)
  /\ UNCHANGED <<sendVars, clientVars, items, want, due, offered, got, cut>>

\* The host reads what the client sent.
HostReads ==
  /\ \E n \in 1..Len(sbuf) :
       /\ TcpTake(n)
       /\ got' = got \o SubSeq(sbuf, 1, n)
  /\ UNCHANGED <<sendVars, clientVars, hostVars, cut>>

\* The host closes its side, after everything it had to send.
HostCloses ==
  /\ state = "open" /\ todo = <<>>
  /\ state' = "hisclosing"
  /\ UNCHANGED <<sbuf, rbuf, sendVars, clientVars, hostVars, got, cut>>

Terminated == pc \in {"left", "quit"} /\ UNCHANGED vars

Next ==
  \/ Client \/ Quit \/ ReplyEscape
  \/ HostSends \/ Arrive \/ HostReads \/ HostCloses \/ Terminated

\* The client polls, TCP delivers, and the host reads what it is sent.  The
\* user and the decisions of the host owe nothing.
Spec == Init /\ [][Next]_vars
FairSpec == Spec /\ WF_vars(Client) /\ WF_vars(Arrive) /\ WF_vars(HostReads)

----------------------------------------------------------------------------
(* Properties.                                                            *)

TypeOK ==
  /\ pc \in {"recv", "handle", "reply", "state", "left", "quit"}
  /\ buf \in Seq(0..255) /\ Len(buf) <= RecvBufLen
  /\ mode \in {"text", "command"}
  /\ obuf \in Seq(0..255) /\ Len(obuf) <= 2
  /\ optDo \subseteq Granted /\ swEcho \in BOOLEAN /\ closing \in BOOLEAN
  /\ shown \in Seq(0..255)
  /\ sbuf \in Seq(0..255) /\ Len(sbuf) <= SbufSize
  /\ rbuf \in Seq(0..255) /\ Len(rbuf) <= RbufSize
  /\ state \in {"open", "hisclosing"}
  /\ pend \in Seq(0..255) /\ Len(pend) <= 3 /\ tries \in 0..RetrySend
  /\ todo \in Seq(0..255) /\ items \in 0..MaxItems
  /\ got \in Seq(0..255) /\ want \in Seq(0..255) /\ due \in Seq(0..255)
  /\ offered \subseteq Granted /\ cut \in BOOLEAN

\* Everything the host has sent has been handled.
Handled == todo = <<>> /\ rbuf = <<>> /\ buf = <<>> /\ mode = "text"

\* The screen shows what the host meant, byte for byte, however TCP and the
\* buffer of mainloop cut the stream: no command leaks into the text and no
\* text is taken for a command.
ScreenIsMeaning ==
  /\ IsPrefix(shown, want)
  /\ Handled => shown = want

\* The host gets the answer to each command it sent, in order and once, however
\* the commands were cut and however little of an answer the send buffer took at
\* a time; so negotiation ends even with a host that confirms every DO.
AnswersAreDue ==
  ~cut => /\ IsPrefix(got \o sbuf \o pend, due)
          /\ Handled => got \o sbuf \o pend = due

\* When the host closes the connection, what it sent before is shown before the
\* client leaves ("received text was not shown" was a bug up to v0.5b).
AllShownAtClose == pc = "left" => shown = want

\* Once the host has closed, the client leaves.
CloseIsNoticed == (state = "hisclosing") ~> (pc \in {"left", "quit"})
=============================================================================
