------------------------------ MODULE TeenTcp ------------------------------
(***************************************************************************)
(* One TCP connection of the resident TEEN protocol stack, as the telnet   *)
(* client teen/esenet/esenet.c uses it through tcp_send, tcp_recv and      *)
(* tcp_state, and send() of that client, which everything it sends goes    *)
(* through.  The stack is a separate program; what it does is modelled     *)
(* from its programming interface: two byte streams with a buffer of fixed *)
(* size at this end of each.                                               *)
(***************************************************************************)
EXTENDS Streams

CONSTANTS
  SbufSize,       \* bytes the send buffer holds (TCPBUFSIZE)
  RbufSize,       \* bytes the receive buffer holds (TCPBUFSIZE)
  RetrySend       \* RETRYSEND: tries before the user may give up

ASSUME BufferAssumption == SbufSize \in Nat \ {0} /\ RbufSize \in Nat \ {0}
ASSUME RetrySendAssumption == RetrySend \in Nat \ {0}

VARIABLES
  sbuf,           \* bytes accepted by tcp_send, not yet taken by the host
  rbuf,           \* bytes of the host not yet read by tcp_recv
  state,          \* tcp_state: "open" or "hisclosing"
  pend,           \* what the send() in progress has still to hand over
  tries           \* tries left before it asks the user

tcpVars == <<sbuf, rbuf, state>>
sendVars == <<pend, tries>>

TcpInit ==
  /\ sbuf = <<>> /\ rbuf = <<>> /\ state = "open"
  /\ pend = <<>> /\ tries = 0

Least(m, n) == IF m < n THEN m ELSE n

----------------------------------------------------------------------------
(* The stack.                                                             *)

\* Bytes tcp_send can copy of pend.
Room == Least(Len(pend), SbufSize - Len(sbuf))

\* tcp_recv gives what has arrived, up to n bytes.
Received(n) == SubSeq(rbuf, 1, Least(n, Len(rbuf)))
TcpRecv(n) ==
  /\ rbuf' = Rest(rbuf, Least(n, Len(rbuf)))
  /\ UNCHANGED <<sbuf, state>>

\* n bytes of the stream the host sends arrive, as far as there is room.
TcpArrive(bytes) ==
  /\ Len(rbuf) + Len(bytes) <= RbufSize
  /\ rbuf' = rbuf \o bytes
  /\ UNCHANGED <<sbuf, state>>

\* The host takes n bytes.
TcpTake(n) ==
  /\ n \in 1..Len(sbuf)
  /\ sbuf' = Rest(sbuf, n)
  /\ UNCHANGED <<rbuf, state>>

----------------------------------------------------------------------------
(* send().                                                                *)

\* It is called with data.
Send(data) ==
  /\ pend' = data
  /\ tries' = RetrySend

Sending == pend # <<>>

\* A slip: what did not fit is forgotten.
RestForgotten(k) == <<>>

\* olen -= a, obuf += a.
Unsent(k) == Rest(pend, k)

\* tcp_send copies what fits, which may be nothing.
HandOver ==
  /\ sbuf' = sbuf \o SubSeq(pend, 1, Room)
  /\ UNCHANGED <<rbuf, state>>

\* One pass of either loop.
SendTry ==
  /\ Sending
  /\ HandOver
  /\ pend' = Unsent(Room)
  /\ tries' = IF tries > 0 THEN tries - 1 ELSE 0

\* A pass of the second loop, which asks the keyboard after each try, when the key
\* is ESC: what is left is dropped.
SendEscape ==
  /\ Sending /\ tries = 0
  /\ HandOver
  /\ pend' = <<>>
  /\ UNCHANGED tries
=============================================================================
