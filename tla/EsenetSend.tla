----------------------------- MODULE EsenetSend -----------------------------
(***************************************************************************)
(* The sending half of the telnet client teen/esenet/esenet.c: input(),    *)
(* which sends what is typed, at once or line by line, filesend(), which   *)
(* sends a file, and send() (module TeenTcp) below both, against a host    *)
(* that may echo what it gets.                                             *)
(*                                                                         *)
(* The client is one thread.  While send() retries it does nothing else:   *)
(* nothing is received.  Keys wait in the keyboard buffer of DOS.  input() *)
(* takes one at a time and sends it or keeps it; eschit(), with which      *)
(* send() and filesend() look for ESC, takes one too, and throws it away.  *)
(* A byte of the file is its position in it, a character a negative number *)
(* of its own, so that each is told from every other.                      *)
(***************************************************************************)
EXTENDS TeenTcp, SequencesExt

CONSTANTS
  BufLen,         \* BUFLEN of filesend (4096)
  FileLen,        \* bytes of the file
  RecvBufLen,     \* RECVBUFLEN
  Echoes,         \* the host echoes what it gets
  UserAborts,     \* the user presses ESC, at any time
  MaxTyped,       \* bound: keys pressed
  MaxToggles      \* bound: changes of the line mode, and requests to send now

ASSUME FileAssumption == BufLen \in Nat \ {0} /\ FileLen \in Nat
ASSUME RecvBufLenAssumption == RecvBufLen \in Nat \ {0}
ASSUME HostAssumption == Echoes \in BOOLEAN /\ UserAborts \in BOOLEAN
ASSUME BoundAssumption == MaxTyped \in Nat /\ MaxToggles \in Nat

VARIABLES
  pc,             \* "input", "key" and "file" (in send), "read", "recv" or "quit"
  obuf,           \* obuf, olen of input(): typed and not yet sent
  swLine,         \* sw_line
  pos,            \* bytes of the file fread has given, -1 before filesend
  kbd,            \* keys that wait in the keyboard buffer
  typed,          \* keys pressed, without those eschit has taken
  pressed,        \* keys pressed so far
  fileDone,       \* whether filesend has been left
  toggles,        \* menu commands so far
  got,            \* what the host has received
  echo,           \* what the host has still to echo
  shown,          \* what the client has received
  asked,          \* everything send() was called with
  aborted         \* ESC has ended a send() with bytes left, or filesend

clientVars ==
  <<pc, obuf, swLine, pos, fileDone, toggles, shown, asked, aborted>>
keyVars == <<kbd, typed, pressed>>
hostVars == <<got, echo>>
vars == <<tcpVars, sendVars, clientVars, keyVars, hostVars>>

\* Characters are below them.
CR == -1
LF == -2
ESC == -3

Init ==
  /\ TcpInit
  /\ pc = "input" /\ obuf = <<>> /\ swLine = FALSE /\ pos = -1
  /\ kbd = <<>> /\ typed = <<>> /\ pressed = 0
  /\ fileDone = FALSE /\ toggles = 0
  /\ got = <<>> /\ echo = <<>> /\ shown = <<>> /\ asked = <<>>
  /\ aborted = FALSE

Calls(data) ==
  /\ Send(data)
  /\ asked' = asked \o data

----------------------------------------------------------------------------
(* The keyboard.                                                          *)

\* A key is pressed, whatever the client is doing: a character, Return or ESC.
Press ==
  /\ pc # "quit" /\ pressed < MaxTyped
  /\ \E k \in {-4 - pressed, CR} \cup {x \in {ESC} : UserAborts} :
       /\ kbd' = Append(kbd, k)
       /\ typed' = Append(typed, k)
  /\ pressed' = pressed + 1
  /\ UNCHANGED <<tcpVars, sendVars, clientVars, hostVars>>

\* getchnw: the key that has waited longest.
KeyTaken ==
  /\ kbd # <<>>
  /\ kbd' = Tail(kbd)
  /\ UNCHANGED <<typed, pressed>>

\* eschit: a key that waits is taken, whatever it is.
eschit ==
  /\ kbd' = Rest(kbd, 1)
  /\ typed' = SubSeq(typed, 1, Len(typed) - Len(kbd)) \o Rest(kbd, 1)
  /\ UNCHANGED pressed

EscapeHit == kbd # <<>> /\ Head(kbd) = ESC /\ eschit
NoEscape == (kbd # <<>> => Head(kbd) # ESC) /\ eschit

----------------------------------------------------------------------------
(* input().                                                               *)

\* No key is waiting.
NoKey ==
  /\ pc = "input" /\ kbd = <<>>
  /\ pc' = "recv"
  /\ UNCHANGED <<tcpVars, sendVars, obuf, swLine, pos, fileDone, toggles,
                 shown, asked, aborted, keyVars, hostVars>>

\* A slip: the line is sent without being emptied.
LineKept == obuf

\* olen = 0
LineSent == <<>>

\* A character, ESC too, goes out at once, or waits for the line to end.  What was
\* left when line mode was switched off goes with it.
Type ==
  /\ pc = "input" /\ KeyTaken /\ Head(kbd) # CR
  /\ IF swLine
     THEN /\ obuf' = Append(obuf, Head(kbd))
          /\ pc' = "recv"
          /\ UNCHANGED <<sendVars, asked>>
     ELSE /\ Calls(Append(obuf, Head(kbd)))
          /\ obuf' = LineSent
          /\ pc' = "key"
  /\ UNCHANGED <<tcpVars, swLine, pos, fileDone, toggles, shown, aborted,
                 hostVars>>

\* Return sends the line with CR and LF, in either mode.
Return ==
  /\ pc = "input" /\ KeyTaken /\ Head(kbd) = CR
  /\ Calls(obuf \o <<CR, LF>>)
  /\ obuf' = LineSent
  /\ pc' = "key"
  /\ UNCHANGED <<tcpVars, swLine, pos, fileDone, toggles, shown, aborted,
                 hostVars>>

\* The menu comes with a key of its own.
Menu == pc = "input" /\ kbd = <<>>

\* Menu 9: the line mode.
SwitchLine ==
  /\ Menu /\ toggles < MaxToggles
  /\ swLine' = ~swLine
  /\ toggles' = toggles + 1
  /\ pc' = "recv"
  /\ UNCHANGED <<tcpVars, sendVars, obuf, pos, fileDone, shown, asked,
                 aborted, keyVars, hostVars>>

\* Menu 7: what has been typed is sent now, in line mode.
SendNow ==
  /\ Menu /\ toggles < MaxToggles
  /\ toggles' = toggles + 1
  /\ IF swLine /\ obuf # <<>>
     THEN Calls(obuf) /\ obuf' = LineSent /\ pc' = "key"
     ELSE pc' = "recv" /\ UNCHANGED <<sendVars, asked, obuf>>
  /\ UNCHANGED <<tcpVars, swLine, pos, fileDone, shown, aborted,
                 keyVars, hostVars>>

\* Menu 1: mainloop is left.
Quit ==
  /\ Menu
  /\ pc' = "quit"
  /\ UNCHANGED <<tcpVars, sendVars, obuf, swLine, pos, fileDone, toggles,
                 shown, asked, aborted, keyVars, hostVars>>

----------------------------------------------------------------------------
(* filesend().                                                            *)

\* Menu 2 or 3, and a file that can be opened.
FileOpen ==
  /\ Menu /\ pos = -1
  /\ pos' = 0
  /\ pc' = "read"
  /\ UNCHANGED <<tcpVars, sendVars, obuf, swLine, fileDone, toggles,
                 shown, asked, aborted, keyVars, hostVars>>

\* A slip: a short block is the last and is not sent.
ChunkWhole == IF FileLen - pos < BufLen THEN 0 ELSE BufLen

\* A slip: the result of fread is not looked at.
ChunkTooLong == BufLen

\* Bytes fread gives.
Chunk == Least(BufLen, FileLen - pos)

\* A slip: the end of the file is taken for an error code.
ReadFails == Chunk < 0

\* fread gives nothing.
AtEnd == Chunk = 0

\* A block is read and sent, or the file is at its end.
FileRead ==
  /\ pc = "read"
  /\ IF AtEnd
     THEN /\ fileDone' = TRUE
          /\ pc' = "recv"
          /\ UNCHANGED <<pos, sendVars, asked>>
     ELSE /\ Calls([i \in 1..Chunk |-> pos + i])
          /\ pos' = pos + Chunk
          /\ pc' = "file"
          /\ UNCHANGED fileDone
  /\ UNCHANGED <<tcpVars, obuf, swLine, toggles, shown, aborted,
                 keyVars, hostVars>>

\* send() is back and no ESC is waiting: the next block.  A key that was waiting
\* is gone.
FileGoesOn ==
  /\ pc = "file" /\ ~Sending /\ NoEscape
  /\ pc' = "read"
  /\ UNCHANGED <<tcpVars, sendVars, obuf, swLine, pos, fileDone, toggles,
                 shown, asked, aborted, hostVars>>

\* ESC between two blocks ends the transfer.
FileEscape ==
  /\ pc = "file" /\ ~Sending /\ EscapeHit
  /\ aborted' = TRUE
  /\ fileDone' = TRUE
  /\ pc' = "recv"
  /\ UNCHANGED <<tcpVars, sendVars, obuf, swLine, pos, toggles, shown, asked,
                 hostVars>>

----------------------------------------------------------------------------
(* send() and the rest of the loop.                                       *)

\* The first loop leaves the keyboard alone.  The second takes a key after each try.
SendPass ==
  /\ pc \in {"key", "file"} /\ SendTry
  /\ \/ tries > 0 /\ UNCHANGED keyVars
     \/ tries = 0 /\ NoEscape
  /\ UNCHANGED <<clientVars, hostVars>>

\* ESC inside send() drops the rest of this call, and nothing but this call.
SendGivesUp ==
  /\ pc \in {"key", "file"} /\ SendEscape /\ EscapeHit
  /\ aborted' = (aborted \/ Unsent(Room) # <<>>)
  /\ UNCHANGED <<pc, obuf, swLine, pos, fileDone, toggles, shown, asked,
                 hostVars>>

KeySent ==
  /\ pc = "key" /\ ~Sending
  /\ pc' = "recv"
  /\ UNCHANGED <<tcpVars, sendVars, obuf, swLine, pos, fileDone, toggles,
                 shown, asked, aborted, keyVars, hostVars>>

\* mainloop receives and shows, and looks at the keyboard again.
Recv ==
  /\ pc = "recv"
  /\ shown' = shown \o Received(RecvBufLen)
  /\ TcpRecv(RecvBufLen)
  /\ pc' = "input"
  /\ UNCHANGED <<sendVars, obuf, swLine, pos, fileDone, toggles, asked,
                 aborted, keyVars, hostVars>>

Client ==
  \/ NoKey \/ Type \/ Return \/ FileRead \/ FileGoesOn \/ FileEscape
  \/ SendPass \/ SendGivesUp \/ KeySent \/ Recv

User == Press \/ SwitchLine \/ SendNow \/ Quit \/ FileOpen

----------------------------------------------------------------------------
(* The host.                                                              *)

\* It takes bytes it has room to echo: its own buffer is as large as SbufSize.
HostTakes ==
  /\ \E n \in 1..Len(sbuf) :
       /\ Echoes => Len(echo) + n <= SbufSize
       /\ TcpTake(n)
       /\ got' = got \o SubSeq(sbuf, 1, n)
       /\ echo' = IF Echoes THEN echo \o SubSeq(sbuf, 1, n) ELSE echo
  /\ UNCHANGED <<sendVars, clientVars, keyVars>>

\* It echoes, as far as the client's receive buffer has room.
HostEchoes ==
  /\ \E n \in 1..Len(echo) :
       /\ TcpArrive(SubSeq(echo, 1, n))
       /\ echo' = Rest(echo, n)
  /\ UNCHANGED <<sendVars, clientVars, keyVars, got>>

Host == HostTakes \/ HostEchoes

Terminated == pc = "quit" /\ UNCHANGED vars

Next == Client \/ User \/ Host \/ Terminated

\* The client polls and the host works.  The user owes nothing.
Spec == Init /\ [][Next]_vars
FairSpec == Spec /\ WF_vars(Client) /\ WF_vars(HostTakes) /\ WF_vars(HostEchoes)

----------------------------------------------------------------------------
(* Properties.                                                            *)

Bytes == (-3 - MaxTyped)..FileLen

TypeOK ==
  /\ pc \in {"input", "key", "read", "file", "recv", "quit"}
  /\ \A s \in {obuf, kbd, typed, got, echo, shown, asked, sbuf, rbuf, pend} :
       s \in Seq(Bytes)
  /\ Len(sbuf) <= SbufSize /\ Len(rbuf) <= RbufSize /\ tries \in 0..RetrySend
  /\ swLine \in BOOLEAN /\ fileDone \in BOOLEAN /\ aborted \in BOOLEAN
  /\ pos \in -1..FileLen /\ toggles \in 0..MaxToggles
  /\ pressed \in 0..MaxTyped

\* What send() was given reaches the host in order, once and whole, however
\* little the send buffer takes at a time, unless the user gives up.
SentInOrder == ~aborted => got \o sbuf \o pend = asked

\* Keys, and the bytes of the file.
Keys == ((-3 - MaxTyped)..ESC) \cup {CR}
FileBytes == 1..FileLen

\* What is behind the keys that have been sent: the line, and the keys that wait.
Waiting == obuf \o kbd
Gone == SubSeq(typed, 1, Len(typed) - Len(Waiting))

\* Every key that is pressed, at any time, has been sent, is in the line or waits in
\* the keyboard buffer, in the order of pressing and once, whatever is switched in
\* between: all but the keys that eschit takes while send() retries (line 209) and
\* after each block of a file (line 244).
NoKeyLost == Gone \o Waiting = typed /\ IsSelection(Gone, asked, Keys)

\* A file that was sent without ESC was sent whole.
FileSentWhole ==
  fileDone /\ ~aborted => IsSelection([i \in FileBytes |-> i], asked, FileBytes)

\* A file that is being sent gets to its end, if the host takes what it gets: one
\* that echoes needs room for its echo, since the client receives nothing
\* meanwhile.
FileSendEnds == (pos >= 0) ~> (fileDone \/ pc = "quit")

\* "ESC で中止" (202, 236): after ESC what the host has of the file is its
\* beginning.  ESC inside send() leaves a gap and filesend goes on behind it.
AbortedFileIsPrefix ==
  LET IsOfFile(c) == c \in FileBytes
  IN  IsPrefix(SelectSeq(got, IsOfFile), [i \in FileBytes |-> i])

\* "Received data is shown while a file is being sent" (v0.3d, line 966).
ShownWhileSending ==
  (pc = "file" /\ Sending /\ rbuf # <<>>) ~> (Len(shown) > 0)
=============================================================================
