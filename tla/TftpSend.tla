------------------------------ MODULE TftpSend ------------------------------
(***************************************************************************)
(* tftp_send() of teen/tftp/tftp.c: sending a file over TFTP, with the     *)
(* network and the TFTP server.                                            *)
(*                                                                         *)
(* The function reads and sends one block for each acknowledgement that    *)
(* tftp_wait_ack() accepts and sends nothing twice.  msgs is every         *)
(* datagram ever sent: each may arrive at any time, any number of times or *)
(* never, which is all a network can do to it, a retransmission of the     *)
(* server's included.  Block n stands for its bytes; `last` says whether   *)
(* block NBlocks is a short one or, the size of the file being a multiple  *)
(* of the block size, an empty one.                                        *)
(***************************************************************************)
EXTENDS TeenUdp

CONSTANTS
  NBlocks,        \* blocks of the local file, the last one included
  Sessions,       \* ports a server may answer from: one per request it sees
  UseOptions,     \* the request carries -B, -T or -S options
  OptText         \* the number the option text of an OACK reads as

\* Block numbers are 16 bits wide and compared as numbers: a file of more than
\* 65535 blocks is beyond this model.
ASSUME NBlocksAssumption == NBlocks \in Nat \ {0} /\ NBlocks < 65536
ASSUME SessionsAssumption == Service \notin Sessions /\ "stray" \notin Sessions
ASSUME OptionsAssumption == UseOptions \in BOOLEAN
\* Two letters read as a number are 0x6162 at the least: more than the blocks
\* of any file below 12 MB.
ASSUME OptTextAssumption == OptText \in Nat /\ OptText > NBlocks

VARIABLES
  pc,             \* "start", "sent", "rebind", "wait", "lastwait" or "end"
  peer,           \* udp.r_port: where the next block goes
  blknum,         \* number of the last block sent
  readbytes,      \* what fread returned: "unset", "full", "short" or "empty"
  last,           \* what it returns for block NBlocks
  result,         \* the function's result, 0 or -1
  msgs,           \* every datagram sent so far, in both directions
  srv,            \* per session the blocks it has stored, -1 if unused
  alive           \* sessions still serving

clientVars == <<pc, peer, blknum, readbytes, result>>
serverVars == <<srv, alive>>
vars == <<udpVars, clientVars, last, msgs, serverVars>>

Blocks == 1..NBlocks

Pkt(type, tid, num) == [type |-> type, tid |-> tid, num |-> num]

\* The datagrams of the protocol: from the server (or anybody else) and to it.
FromServer ==
  [type : {"ACK"}, tid : Sessions, num : 0..NBlocks]
  \cup [type : {"OACK"}, tid : Sessions, num : {OptText}]
  \cup [type : {"ERROR"}, tid : Sessions, num : {0}]
  \cup [type : {"UNKNOWN", "RUNT"}, tid : {"stray"}, num : {0}]
ToServer ==
  [type : {"WRQ"}, tid : {Service}, num : {0}]
  \cup [type : {"DATA"}, tid : Sessions, num : Blocks]

Init ==
  /\ pc = "start" /\ handle = "closed" /\ rbuf = <<>>
  /\ peer = "stray" /\ blknum = 0 /\ readbytes = "unset" /\ result = 0
  /\ last \in {"short", "empty"}
  /\ msgs = {} /\ srv = [s \in Sessions |-> -1] /\ alive = {}

----------------------------------------------------------------------------
(* The client: the request, as in tftp_recv.                              *)

\* The local file or the first handle cannot be opened: an early return.
OpenFails ==
  /\ pc = "start"
  /\ pc' = "end" /\ result' = -1
  /\ UNCHANGED <<udpVars, peer, blknum, readbytes, last, msgs, serverVars>>

\* The request goes out on a handle bound to the server's service port.
SendRequest ==
  /\ pc = "start"
  /\ NetUdpOpen("service")
  /\ msgs' = msgs \cup {Pkt("WRQ", Service, 0)}
  /\ pc' = "sent"
  /\ UNCHANGED <<peer, blknum, readbytes, last, result, serverVars>>

\* The local port is noted and the handle closed.
CloseRequestHandle ==
  /\ pc = "sent"
  /\ NetUdpClose
  /\ pc' = "rebind"
  /\ UNCHANGED <<peer, blknum, readbytes, last, result, msgs, serverVars>>

\* The same local port is opened again, for any peer, and the loop begins.
Rebind ==
  /\ pc = "rebind"
  /\ \/ /\ NetUdpOpen("any")
        /\ pc' = "wait" /\ UNCHANGED result
     \/ /\ pc' = "end" /\ result' = -1
        /\ UNCHANGED udpVars
  /\ UNCHANGED <<peer, blknum, readbytes, last, msgs, serverVars>>

----------------------------------------------------------------------------
(* The client: tftp_wait_ack(), called with blknum.                       *)

\* A slip: an older acknowledgement is as good as the one waited for.
OutcomeAnyAck(p) ==
  IF p.type \notin {"ACK", "OACK"} THEN "fails"
  ELSE IF p.num <= blknum THEN "acked"
  ELSE "fails"

\* A slip: the error branch prints and does not return.
OutcomeErrorPrinted(p) ==
  IF p.type \notin {"ACK", "OACK", "ERROR"} THEN "fails"
  ELSE IF p.type # "ERROR" /\ p.num = blknum THEN "acked"
  ELSE IF p.num < blknum THEN "waits"
  ELSE "fails"

\* What tftp_wait_ack does about datagram p: it succeeds, fails, or waits for
\* the next one, which it does only for the acknowledgement of an older block.
\* An OACK is judged by the number its option text reads as.
Outcome(p) ==
  IF p.type \notin {"ACK", "OACK"} THEN "fails"
  ELSE IF p.num = blknum THEN "acked"
  ELSE IF p.num < blknum THEN "waits"
  ELSE "fails"

\* tftp_wait_ack reads the next datagram, and its sender becomes the peer.
Answer(outcome) ==
  /\ rbuf # <<>>
  /\ Outcome(Head(rbuf)) = outcome
  /\ peer' = Head(rbuf).tid

\* It finds no datagram and sees ESC: it fails too.
Escape == rbuf = <<>> /\ UNCHANGED peer

\* The function goes on with what is left in the receive buffer.
GoOn(next) ==
  /\ rbuf' = IF rbuf = <<>> THEN <<>> ELSE Tail(rbuf)
  /\ pc' = next
  /\ UNCHANGED <<handle, result>>

\* net_udp_close and return.
Return(r) ==
  /\ NetUdpClose
  /\ pc' = "end"
  /\ result' = r

\* The acknowledgement of an older block is skipped.
SkipAck ==
  /\ pc \in {"wait", "lastwait"}
  /\ Answer("waits") /\ GoOn(pc)
  /\ UNCHANGED <<blknum, readbytes, last, msgs, serverVars>>

----------------------------------------------------------------------------
(* The client: the loop over the file.                                    *)

\* A slip: the end of the file goes unnoticed.
FreadOn(n) == "full"

\* fread of block n.
Fread(n) == IF n < NBlocks THEN "full" ELSE last

\* A slip, or a tempting repair: the short last block counts as success at
\* once, though nobody has acknowledged it.
ResultUnacked == 0

\* After a short last block the function returns -1 and awaits no ACK.
ResultOfShort == -1

\* The block waited for is acknowledged: the next one is read and sent to
\* whoever acknowledged, and the loop goes on while blocks are full.
SendBlock ==
  /\ pc = "wait"
  /\ Answer("acked")
  /\ blknum' = blknum + 1
  /\ readbytes' = Fread(blknum + 1)
  /\ msgs' = msgs \cup {Pkt("DATA", peer', blknum')}
  /\ \/ readbytes' = "full" /\ GoOn("wait")
     \/ readbytes' = "empty" /\ GoOn("lastwait")
     \/ readbytes' = "short" /\ Return(ResultOfShort)
  /\ UNCHANGED <<last, serverVars>>

\* tftp_wait_ack fails in the loop: the function returns -1 unless readbytes is
\* 0.  Before the first fread readbytes is unassigned, and may be 0 or not.
WaitFails ==
  /\ pc = "wait"
  /\ Answer("fails") \/ Escape
  /\ \/ Return(-1)
     \/ readbytes = "unset" /\ GoOn("lastwait")
  /\ UNCHANGED <<blknum, readbytes, last, msgs, serverVars>>

\* With readbytes = 0 the last acknowledgement decides the result.
LastWait ==
  /\ pc = "lastwait"
  /\ \/ Answer("acked") /\ Return(0)
     \/ (Answer("fails") \/ Escape) /\ Return(-1)
  /\ UNCHANGED <<blknum, readbytes, last, msgs, serverVars>>

Client ==
  \/ OpenFails \/ SendRequest \/ CloseRequestHandle \/ Rebind
  \/ SkipAck \/ SendBlock \/ WaitFails \/ LastWait

----------------------------------------------------------------------------
(* The network and the server.                                            *)

\* A datagram for the client, or a copy of one, reaches its machine.
Arrive ==
  /\ pc # "end"
  /\ \E p \in msgs \cap FromServer : UdpArrive(p)
  /\ UNCHANGED <<clientVars, last, msgs, serverVars>>

\* A datagram no TFTP server sends: too short, or with an unknown opcode.
Stray ==
  /\ pc # "end"
  /\ \E t \in {"UNKNOWN", "RUNT"} : msgs' = msgs \cup {Pkt(t, "stray", 0)}
  /\ UNCHANGED <<udpVars, clientVars, last, serverVars>>

\* A request, or a copy of it, opens a session, which grants the options it
\* knows with an OACK and acknowledges a request without any.
ServerAccept(s) ==
  /\ srv[s] = -1
  /\ Pkt("WRQ", Service, 0) \in msgs
  /\ srv' = [srv EXCEPT ![s] = 0]
  /\ alive' = alive \cup {s}
  /\ \/ UseOptions /\ msgs' = msgs \cup {Pkt("OACK", s, OptText)}
     \/ msgs' = msgs \cup {Pkt("ACK", s, 0)}
  /\ UNCHANGED <<udpVars, clientVars, last>>

\* The block after those it has: a session stores and acknowledges it.
ServerStore(s) ==
  /\ s \in alive
  /\ Pkt("DATA", s, srv[s] + 1) \in msgs
  /\ srv' = [srv EXCEPT ![s] = @ + 1]
  /\ msgs' = msgs \cup {Pkt("ACK", s, srv[s] + 1)}
  /\ UNCHANGED <<udpVars, clientVars, last, alive>>

\* The session gives up, with or without an ERROR packet.
ServerGiveUp(s) ==
  /\ s \in alive
  /\ alive' = alive \ {s}
  /\ \/ msgs' = msgs \cup {Pkt("ERROR", s, 0)}
     \/ UNCHANGED msgs
  /\ UNCHANGED <<udpVars, clientVars, last, srv>>

Server == \E s \in Sessions : ServerAccept(s) \/ ServerStore(s) \/ ServerGiveUp(s)

\* Nothing is left to do once the function has returned.
Terminated == pc = "end" /\ UNCHANGED vars

Next == Client \/ Arrive \/ Stray \/ Server \/ Terminated

Spec == Init /\ [][Next]_vars

\* The program never stops polling: what is in the receive buffer is read.
Poll == rbuf # <<>> /\ (SkipAck \/ SendBlock \/ WaitFails \/ LastWait)

FairSpec == Spec /\ WF_vars(Poll)

----------------------------------------------------------------------------
(* Properties.                                                            *)

TypeOK ==
  /\ pc \in {"start", "sent", "rebind", "wait", "lastwait", "end"}
  /\ handle \in HandleKinds
  /\ rbuf \in Seq(FromServer) /\ Len(rbuf) <= RbufMax
  /\ peer \in Sessions \cup {"stray"}
  /\ blknum \in 0..NBlocks
  /\ readbytes \in {"unset", "full", "short", "empty"}
  /\ last \in {"short", "empty"}
  /\ result \in {-1, 0}
  /\ msgs \subseteq FromServer \cup ToServer
  /\ srv \in [Sessions -> -1..NBlocks]
  /\ alive \subseteq Sessions /\ \A s \in alive : srv[s] # -1

\* The client never runs ahead of the server: a block on its way to a session
\* is at most the next one that session lacks, though the client keeps nothing
\* about the session and sends to whoever answered last.
LockStep ==
  \A p \in msgs : p.type = "DATA" => p.num <= srv[p.tid] + 1

\* A file never ends up in pieces: when a duplicated request has opened two
\* sessions, all blocks go to one of them.
OneSession ==
  \A p, q \in msgs : p.type = "DATA" /\ q.type = "DATA" => p.tid = q.tid

\* Result 0 after at least one block says that a session has stored the file.
\* Without "at least one block" it would not: readbytes is unassigned when the
\* first tftp_wait_ack fails.
SuccessMeansStored ==
  pc = "end" /\ result = 0 /\ blknum # 0 => \E s \in Sessions : srv[s] = NBlocks

\* An ERROR that has reached the machine ends the transfer, whatever
\* acknowledgements are queued before it, once a block has been sent.
ErrorEndsTransfer ==
  (/\ pc \in {"wait", "lastwait"} /\ blknum # 0
   /\ \E i \in 1..Len(rbuf) : rbuf[i].type = "ERROR") ~> (pc = "end")

\* The first acknowledgement may be an OACK (the case TFTP_OACK of
\* tftp_wait_ack): it is not what ends the transfer.
OackStartsTransfer ==
  [][pc = "wait" /\ blknum = 0 /\ rbuf # <<>> /\ pc' # "wait"
       => Head(rbuf).type # "OACK" \/ blknum' = 1]_vars
=============================================================================
