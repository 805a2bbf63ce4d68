------------------------------ MODULE TeenUdp ------------------------------
(***************************************************************************)
(* One UDP handle of the resident TEEN protocol stack, as the TEEN tools   *)
(* use it: the wrappers of teen/tftp/netteen.c over the stubs of           *)
(* teen/tlib/source/udp.asm.  The stack itself is a separate program; what *)
(* it does with a datagram is modelled from its programming interface.     *)
(*                                                                         *)
(* A handle opened with a peer port takes datagrams of that peer only, one *)
(* opened with peer port 0 takes every datagram for the local port.  The   *)
(* datagrams wait in the caller's receive buffer; one that does not fit is *)
(* dropped, and so is one that arrives while no handle owns the port.      *)
(***************************************************************************)
EXTENDS Integers, Sequences

CONSTANT RbufMax            \* datagrams the receive buffer holds

ASSUME RbufMaxAssumption == RbufMax \in Nat \ {0}

VARIABLES
  handle,                   \* what the open handle accepts, or "closed"
  rbuf                      \* datagrams delivered and not yet read

udpVars == <<handle, rbuf>>

\* The peer port a connected handle names: 69 for TFTP, whose server answers from
\* a port of its own, never from it; 123 for SNTP and 7 for ECHO, which answer from it.
Service == "69"

HandleKinds == {"closed", "service", "any"}

\* Whether the stack queues a datagram of port tid on handle h.
Accepts(h, tid) ==
  \/ h = "any"
  \/ h = "service" /\ tid = Service

\* net_udp_open has seen the handle reach the state UDP_OPEN.
NetUdpOpen(kind) ==
  /\ handle' = kind
  /\ rbuf' = <<>>

\* net_udp_close gives the port back: what is still queued is lost with it.
NetUdpClose ==
  /\ handle' = "closed"
  /\ rbuf' = <<>>

\* A datagram reaches the machine.
UdpArrive(p) ==
  /\ rbuf' = IF Accepts(handle, p.tid) /\ Len(rbuf) < RbufMax
             THEN Append(rbuf, p)
             ELSE rbuf
  /\ UNCHANGED handle

\* net_udp_recvfrom finds a datagram; Head(rbuf) is what it returns.
NetUdpRecvfrom ==
  /\ rbuf # <<>>
  /\ rbuf' = Tail(rbuf)
  /\ UNCHANGED handle
=============================================================================
