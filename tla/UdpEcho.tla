------------------------------ MODULE UdpEcho ------------------------------
(***************************************************************************)
(* The ECHO client teen/tlib/udpecho/udpecho.c: udpecho(), whose handle    *)
(* names the host, and udpecho_noconnection(), which asks for an address   *)
(* with every string and takes datagrams from anyone.                      *)
(*                                                                         *)
(* While it waits any key aborts the wait.  The key is seen with kbhit()   *)
(* and not taken: it is still there for the next gets(), and what was      *)
(* typed ahead aborts the next wait too.                                   *)
(***************************************************************************)
EXTENDS TeenUdp, SequencesExt

CONSTANTS
  MaxKeys,        \* bound: keys pressed
  MaxForeign      \* bound: datagrams of other hosts, and disturbances

ASSUME EchoBoundAssumption == MaxKeys \in Nat /\ MaxForeign \in Nat

VARIABLES
  epc,            \* "search", "host", "ask", "wait", "close" or "end"
  connected,      \* which of the two functions runs
  kbd,            \* keys pressed and not yet read
  keys,           \* keys pressed
  question,       \* strings sent
  wire,           \* answers on their way, by the number of their string
  shown,          \* answers shown: of which string, and during which wait
  aborts,         \* waits ended by a key
  foreign,        \* datagrams of other hosts, and disturbances
  disturbed       \* a foreign datagram was taken, or the network did not keep order

echoVars == <<udpVars, epc, connected, kbd, keys, question, wire, shown, aborts,
              foreign, disturbed>>

Echo(n) == [tid |-> Service, num |-> n]
Foreign == [tid |-> "other", num |-> 0]

EchoInit ==
  /\ handle = "closed" /\ rbuf = <<>>
  /\ epc = "search" /\ connected \in BOOLEAN
  /\ kbd = <<>> /\ keys = 0 /\ question = 0
  /\ wire = <<>> /\ shown = <<>> /\ aborts = 0
  /\ foreign = 0 /\ disturbed = FALSE

----------------------------------------------------------------------------

EchoStart == IF connected THEN "ask" ELSE "host"

\* A slip: the host is not given to udp_open.
HandleKindAny == "any"

\* Whose datagrams the handle takes.
HandleKind == IF connected THEN "service" ELSE "any"

\* The handle is open: at once without a host, else when the host is found.
EchoFound ==
  /\ epc = "search"
  /\ epc' = EchoStart
  /\ NetUdpOpen(HandleKind)
  /\ UNCHANGED <<connected, kbd, keys, question, wire, shown, aborts, foreign,
                 disturbed>>

\* The host is unknown, or a key ends the search; without a host there is none.
EchoNotFound ==
  /\ epc = "search" /\ connected
  /\ epc' = "close"
  /\ UNCHANGED <<udpVars, connected, kbd, keys, question, wire, shown, aborts,
                 foreign, disturbed>>

\* gets: the keys up to the first Enter, an abort key of the last wait among them.
Line(n) ==
  /\ n \in 1..Len(kbd) /\ kbd[n] = "enter"
  /\ \A k \in 1..n - 1 : kbd[k] # "enter"
  /\ kbd' = SubSeq(kbd, n + 1, Len(kbd))

\* The address to send to; an empty line ends the program.
EchoHost ==
  /\ epc = "host"
  /\ \E n \in 1..Len(kbd) :
       /\ Line(n)
       /\ epc' = IF n = 1 THEN "close" ELSE "ask"
  /\ UNCHANGED <<udpVars, connected, keys, question, wire, shown, aborts, foreign,
                 disturbed>>

\* The string to send.  A failure of udp_send or udp_sendto is told, and the wait
\* follows all the same; the network may lose the string or its answer.
EchoAsk ==
  /\ epc = "ask"
  /\ \E n \in 1..Len(kbd), answered \in BOOLEAN :
       /\ Line(n)
       /\ IF n = 1
          THEN epc' = "close" /\ UNCHANGED <<question, wire>>
          ELSE /\ epc' = "wait"
               /\ question' = question + 1
               /\ wire' = IF answered THEN Append(wire, question + 1) ELSE wire
  /\ UNCHANGED <<udpVars, connected, keys, shown, aborts, foreign, disturbed>>

\* udp_recv or udp_recvfrom finds a datagram: the wait is over, whatever it is.
EchoRecv ==
  /\ epc = "wait"
  /\ NetUdpRecvfrom
  /\ shown' = Append(shown, [num |-> Head(rbuf).num, wait |-> question])
  /\ epc' = EchoStart
  /\ UNCHANGED <<connected, kbd, keys, question, wire, aborts, foreign, disturbed>>

\* A key is there and no datagram.
Interrupted == epc = "wait" /\ rbuf = <<>> /\ kbd # <<>>

EchoAbort ==
  /\ Interrupted
  /\ aborts' = aborts + 1
  /\ epc' = EchoStart
  /\ UNCHANGED <<udpVars, connected, kbd, keys, question, wire, shown, foreign,
                 disturbed>>

EchoClose ==
  /\ epc = "close"
  /\ epc' = "end"
  /\ NetUdpClose
  /\ UNCHANGED <<connected, kbd, keys, question, wire, shown, aborts, foreign,
                 disturbed>>

----------------------------------------------------------------------------
(* The user and the network.                                               *)

EchoKey ==
  /\ epc # "end" /\ keys < MaxKeys
  /\ \E k \in {"char", "enter"} : kbd' = Append(kbd, k)
  /\ keys' = keys + 1
  /\ UNCHANGED <<udpVars, epc, connected, question, wire, shown, aborts, foreign,
                 disturbed>>

\* The oldest answer arrives.
EchoArrive ==
  /\ epc # "end" /\ wire # <<>>
  /\ UdpArrive(Echo(Head(wire)))
  /\ wire' = Tail(wire)
  /\ UNCHANGED <<epc, connected, kbd, keys, question, shown, aborts, foreign,
                 disturbed>>

\* An answer arrives twice or before its turn.
EchoDisturb ==
  /\ epc # "end" /\ foreign < MaxForeign
  /\ \E k \in 1..Len(wire) : UdpArrive(Echo(wire[k]))
  /\ foreign' = foreign + 1
  /\ disturbed' = TRUE
  /\ UNCHANGED <<epc, connected, kbd, keys, question, wire, shown, aborts>>

\* Another host sends something to the port.
EchoForeign ==
  /\ epc # "end" /\ foreign < MaxForeign
  /\ UdpArrive(Foreign)
  /\ foreign' = foreign + 1
  /\ disturbed' = (disturbed \/ ~connected)
  /\ UNCHANGED <<epc, connected, kbd, keys, question, wire, shown, aborts>>

EchoNext ==
  \/ EchoFound \/ EchoNotFound \/ EchoHost \/ EchoAsk \/ EchoRecv \/ EchoAbort
  \/ EchoClose
  \/ EchoKey \/ EchoArrive \/ EchoDisturb \/ EchoForeign

EchoSpec == EchoInit /\ [][EchoNext]_echoVars

----------------------------------------------------------------------------

EchoTypeOK ==
  /\ handle \in HandleKinds
  /\ \A k \in 1..Len(rbuf) : rbuf[k] \in [tid : {Service, "other"}, num : 0..MaxKeys]
  /\ Len(rbuf) <= RbufMax
  /\ epc \in {"search", "host", "ask", "wait", "close", "end"}
  /\ connected \in BOOLEAN /\ disturbed \in BOOLEAN
  /\ kbd \in Seq({"char", "enter"}) /\ keys \in 0..MaxKeys /\ Len(kbd) <= keys
  /\ question \in 0..MaxKeys /\ wire \in Seq(1..MaxKeys)
  /\ \A k \in 1..Len(shown) : shown[k] \in [num : 0..MaxKeys, wait : 1..MaxKeys]
  /\ aborts \in Nat /\ foreign \in 0..MaxForeign

\* Nothing pairs an answer with its string.  As long as the network keeps order and
\* nobody else is heard, what a wait shows is the answer to its own string or to
\* one at most as many strings earlier as waits were aborted; a lost answer can
\* only be left by aborting, and a late one stays behind for a later wait.
AnswerLag ==
  ~disturbed =>
    \A k \in 1..Len(shown) : shown[k].num \in shown[k].wait - aborts..shown[k].wait
=============================================================================
