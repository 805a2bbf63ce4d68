--------------------------- MODULE TftpRecvProofs ---------------------------
(***************************************************************************)
(* For every file length, every set of sessions, every number of retries   *)
(* and every bound on faults: the type invariant of TftpRecv, NoGap,       *)
(* AckedIsStored, and that TftpRecv implements FileFetch.                  *)
(***************************************************************************)
EXTENDS TftpRecv, StreamLemmas

(* The strengthening.  The lock step is a chain through four places: a     *)
(* block is under way only if its session has reached it (DataSent), a     *)
(* session reaches a block only when the one before is in the file         *)
(* (AckedIsStored), which it learns from an ACK that vouches for it        *)
(* (AckStored), and such an ACK is sent for a block just written or for    *)
(* blknum, which is one (BlknumStored).                                    *)

InFlight(p) == p \in net \/ \E i \in 1..Len(rbuf) : rbuf[i] = p

DataSent == \A p \in FromServer :
  InFlight(p) /\ p.type = "DATA" => p.num <= srv[p.tid]

AckStored == \A p \in net : p.type = "ACK" /\ p.num \in Blocks => p.num \in Written

BlknumStored == blknum \in Blocks => blknum \in Written

DownClosed == \A b \in Blocks : b \in Written => \A a \in 1..b : a \in Written

Running == pc # "end" => cut = "no" /\ result = 0

Inv ==
  /\ TypeOK
  /\ NoGap
  /\ AckedIsStored
  /\ DataSent
  /\ AckStored
  /\ BlknumStored
  /\ DownClosed
  /\ Running

\* The initial state satisfies the type invariant.
LEMMA InitTypeOK == Init => TypeOK
<1> SUFFICES ASSUME Init PROVE TypeOK
  OBVIOUS
<1>1. rbuf = <<>> /\ rbuf \in Seq(FromServer) /\ Len(rbuf) <= RbufMax
  BY RbufMaxAssumption DEF Init
<1>2. file \in Seq(Blocks \cup {OptText})
  BY DEF Init
<1>3. srv \in [Sessions -> -1..(NBlocks + 1)]
  BY NBlocksAssumption DEF Init
<1>4. /\ pc \in {"start", "sent", "rebind", "loop", "end"}
      /\ handle \in HandleKinds
      /\ peer \in Sessions \cup {"stray"}
      /\ rpkt \in {"none", "DATA", "OACK", "ERROR", "UNKNOWN"}
      /\ small \in BOOLEAN
      /\ elapsed \in BOOLEAN /\ cut \in {"no", "runt", "stale"}
      /\ result \in {-1, 0}
      /\ net \subseteq FromServer \cup ToServer
      /\ alive \subseteq Sessions /\ \A s \in alive : srv[s] \in 0..NBlocks
  BY DEF Init, HandleKinds
<1>5. blknum \in 0..NBlocks \cup {OptText}
  BY NBlocksAssumption DEF Init
<1>6. retry \in 0..(RetryMax + 1) /\ faults \in 0..MaxFaults
  BY RetryMaxAssumption DEF Init
<1>7. QED
  BY <1>1, <1>2, <1>3, <1>4, <1>5, <1>6 DEF TypeOK

\* Head and Tail of the receive buffer stay in its type.
LEMMA RbufHead ==
  ASSUME TypeOK, rbuf # <<>>
  PROVE  /\ Head(rbuf) \in FromServer
         /\ Tail(rbuf) \in Seq(FromServer)
         /\ Len(Tail(rbuf)) <= RbufMax
  BY RbufMaxAssumption DEF TypeOK

\* The packets the client, the network and the server send are packets.
LEMMA AckIsPacket ==
  ASSUME NEW t \in Sessions \cup {"stray"}, NEW n \in 0..NBlocks \cup {OptText}
  PROVE  Pkt("ACK", t, n) \in ToServer
  BY DEF Pkt, ToServer

LEMMA ReplyIsPacket ==
  ASSUME NEW s \in Sessions, NEW n \in 0..NBlocks
  PROVE  Reply(s, n) \in FromServer
  BY NBlocksAssumption DEF Pkt, FromServer, Reply, Blocks

\* What a packet from the server side can be.
LEMMA PacketShape ==
  ASSUME NEW p \in FromServer
  PROVE  /\ p.tid \in Sessions \cup {"stray"}
         /\ p.num \in 0..NBlocks \cup {OptText}
         /\ p.type \in {"DATA", "OACK", "ERROR", "UNKNOWN", "RUNT"}
         /\ p.type = "DATA" => p.num \in Blocks /\ p.tid \in Sessions
  BY NBlocksAssumption DEF FromServer, Blocks

\* The network bookkeeping keeps net and faults in their types.
LEMMA ConsumeType ==
  ASSUME TypeOK, NEW p, NEW sent \in SUBSET (FromServer \cup ToServer), Consume(p, sent)
  PROVE  /\ net' \subseteq FromServer \cup ToServer
         /\ net' \subseteq net \cup sent
         /\ faults' \in 0..MaxFaults
  BY RetryMaxAssumption DEF TypeOK, Consume

\* Closing or opening a handle empties the receive buffer.
LEMMA EmptyRbuf ==
  ASSUME rbuf' = <<>>
  PROVE  rbuf' \in Seq(FromServer) /\ Len(rbuf') <= RbufMax
  BY RbufMaxAssumption

\* The loop is left with a closed handle and one of the two results.
LEMMA EndLoopType ==
  ASSUME TypeOK, NEW r \in {-1, 0}, EndLoop(r)
  PROVE  /\ handle' \in HandleKinds
         /\ rbuf' \in Seq(FromServer) /\ Len(rbuf') <= RbufMax
         /\ pc' \in {"start", "sent", "rebind", "loop", "end"}
         /\ result' \in {-1, 0} /\ small' \in BOOLEAN
  BY EmptyRbuf DEF EndLoop, NetUdpClose, HandleKinds, TypeOK

\* Every step preserves the type invariant.
LEMMA NextTypeOK == TypeOK /\ [Next]_vars => TypeOK'
<1> SUFFICES ASSUME TypeOK, [Next]_vars PROVE TypeOK'
  OBVIOUS
<1> USE RbufMaxAssumption, NBlocksAssumption, RetryMaxAssumption
<1>1. CASE OpenFails
  BY <1>1 DEF OpenFails, TypeOK, udpVars, serverVars
<1>2. CASE SendRequest
  <2>1. Pkt("RRQ", Service, 0) \in ToServer
    BY DEF Pkt, ToServer
  <2>2. QED
    BY <1>2, <2>1 DEF SendRequest, NetUdpOpen, HandleKinds, TypeOK, serverVars
<1>3. CASE CloseRequestHandle
  BY <1>3 DEF CloseRequestHandle, NetUdpClose, HandleKinds, TypeOK, serverVars
<1>4. CASE Rebind
  <2>1. CASE NetUdpOpen("any") /\ pc' = "loop" /\ UNCHANGED result
    BY <1>4, <2>1, EmptyRbuf DEF Rebind, NetUdpOpen, HandleKinds, TypeOK, serverVars
  <2>2. CASE pc' = "end" /\ result' = -1 /\ UNCHANGED udpVars
    BY <1>4, <2>2 DEF Rebind, TypeOK, udpVars, serverVars
  <2>3. QED
    BY <1>4, <2>1, <2>2 DEF Rebind
<1>5. CASE RecvData
  <2>1. /\ Head(rbuf) \in FromServer
        /\ Tail(rbuf) \in Seq(FromServer)
        /\ Len(Tail(rbuf)) <= RbufMax
    BY <1>5, RbufHead DEF RecvData, Take
  <2>2. Head(rbuf).num \in Blocks /\ peer' \in Sessions /\ blknum' \in 0..NBlocks
    BY <1>5, <2>1, PacketShape DEF RecvData, Take, Blocks
  <2>3. net' \subseteq FromServer \cup ToServer
    BY <1>5, <2>2, AckIsPacket DEF RecvData, TypeOK
  <2>4. file' \in Seq(Blocks \cup {OptText})
    BY <1>5, <2>2 DEF RecvData, Stored, TypeOK
  <2>5. /\ handle' \in HandleKinds
        /\ rbuf' \in Seq(FromServer) /\ Len(rbuf') <= RbufMax
        /\ pc' \in {"start", "sent", "rebind", "loop", "end"}
        /\ result' \in {-1, 0} /\ small' \in BOOLEAN
    <3>1. CASE EndLoop(0)
      BY <3>1, EndLoopType
    <3>2. CASE NextPacket
      BY <2>1, <3>2 DEF NextPacket, NetUdpRecvfrom, TypeOK
    <3>3. QED
      BY <1>5, <3>1, <3>2 DEF RecvData
  <2>6. QED
    BY <1>5, <2>2, <2>3, <2>4, <2>5 DEF RecvData, Take, TypeOK, serverVars
<1>6. CASE RecvOack
  <2>1. /\ Head(rbuf) \in FromServer
        /\ Tail(rbuf) \in Seq(FromServer)
        /\ Len(Tail(rbuf)) <= RbufMax
    BY <1>6, RbufHead DEF RecvOack, Take
  <2>2. peer' \in Sessions \cup {"stray"} /\ blknum' \in 0..NBlocks \cup {OptText}
    BY <1>6, <2>1, PacketShape DEF RecvOack, Take
  <2>3. net' \subseteq FromServer \cup ToServer
    <3>1. Pkt("ACK", peer', 0) \in ToServer
      BY <2>2, AckIsPacket
    <3>2. QED
      BY <1>6, <3>1 DEF RecvOack, TypeOK
  <2>4. file' \in Seq(Blocks \cup {OptText})
    BY <1>6 DEF RecvOack, TypeOK
  <2>5. QED
    BY <1>6, <2>1, <2>2, <2>3, <2>4
       DEF RecvOack, Take, NextPacket, NetUdpRecvfrom, TypeOK, serverVars
<1>7. CASE RecvError
  <2>1. Head(rbuf) \in FromServer
    BY <1>7, RbufHead DEF RecvError, Take
  <2>2. peer' \in Sessions \cup {"stray"} /\ blknum' \in 0..NBlocks \cup {OptText}
    BY <1>7, <2>1, PacketShape DEF RecvError, Take
  <2>3. QED
    BY <1>7, <2>2, EndLoopType DEF RecvError, Take, TypeOK, serverVars
<1>8. CASE RecvRunt
  <2>1. Head(rbuf) \in FromServer
    BY <1>8, RbufHead DEF RecvRunt
  <2>2. peer' \in Sessions \cup {"stray"}
    BY <1>8, <2>1, PacketShape DEF RecvRunt
  <2>3. QED
    BY <1>8, <2>2, EndLoopType DEF RecvRunt, TypeOK, serverVars
<1>9. CASE Escape \/ TooManyRetries
  BY <1>9, EndLoopType DEF Escape, TooManyRetries, TypeOK, serverVars
<1>10. CASE ResendAck
  <2>1. net' \subseteq FromServer \cup ToServer
    BY <1>10, AckIsPacket DEF ResendAck, ResendNumber, TypeOK
  <2>2. retry' \in 0..(RetryMax + 1)
    BY <1>10 DEF ResendAck, GivesUp, RetryCount, TypeOK
  <2>3. rbuf' \in Seq(FromServer) /\ Len(rbuf') <= RbufMax
    BY <1>10, RbufHead DEF ResendAck, TypeOK
  <2>4. QED
    BY <1>10, <2>1, <2>2, <2>3 DEF ResendAck, TypeOK, serverVars
<1>11. CASE Tick
  BY <1>11 DEF Tick, TypeOK, udpVars, serverVars
<1>12. CASE Arrive
  <2>1. PICK p \in net : p \in FromServer /\ UdpArrive(p) /\ Consume(p, {})
    BY <1>12 DEF Arrive
  <2>2. net' \subseteq FromServer \cup ToServer /\ faults' \in 0..MaxFaults
    BY <2>1, ConsumeType
  <2>3. rbuf' \in Seq(FromServer) /\ Len(rbuf') <= RbufMax
    BY <2>1 DEF UdpArrive, TypeOK
  <2>4. QED
    BY <1>12, <2>1, <2>2, <2>3 DEF Arrive, UdpArrive, TypeOK, clientVars, serverVars
<1>13. CASE Stray
  <2>1. \A t \in {"UNKNOWN", "RUNT"} : Pkt(t, "stray", 0) \in FromServer
    BY DEF Pkt, FromServer
  <2>2. net' \subseteq FromServer \cup ToServer
    BY <1>13, <2>1 DEF Stray, TypeOK
  <2>3. faults' \in 0..MaxFaults
    BY <1>13 DEF Stray, TypeOK
  <2>4. QED
    BY <1>13, <2>2, <2>3 DEF Stray, TypeOK, udpVars, clientVars, serverVars
<1>14. ASSUME NEW s \in Sessions, ServerAccept(s) PROVE TypeOK'
  <2>1. PICK n \in {0, 1}, p \in net :
          Consume(p, {Reply(s, n)}) /\ srv' = [srv EXCEPT ![s] = n]
    BY <1>14 DEF ServerAccept
  <2>2. Reply(s, n) \in FromServer
    BY ReplyIsPacket
  <2>3. net' \subseteq FromServer \cup ToServer /\ faults' \in 0..MaxFaults
    BY <2>1, <2>2, ConsumeType
  <2>4. srv' \in [Sessions -> -1..(NBlocks + 1)]
    BY <2>1 DEF TypeOK
  <2>5. alive' \subseteq Sessions /\ \A t \in alive' : srv'[t] \in 0..NBlocks
    BY <1>14, <2>1 DEF ServerAccept, TypeOK
  <2>6. QED
    BY <1>14, <2>3, <2>4, <2>5 DEF ServerAccept, TypeOK, udpVars, clientVars
<1>15. ASSUME NEW s \in Sessions, ServerAck(s) PROVE TypeOK'
  <2>1. srv[s] \in 0..NBlocks /\ srv' = [srv EXCEPT ![s] = srv[s] + 1]
    BY <1>15 DEF ServerAck, TypeOK
  <2>2. srv' \in [Sessions -> -1..(NBlocks + 1)]
    BY <2>1 DEF TypeOK
  <2>3. srv[s] < NBlocks => Reply(s, srv[s] + 1) \in FromServer
    BY <2>1, ReplyIsPacket
  <2>4. net' \subseteq FromServer \cup ToServer /\ faults' \in 0..MaxFaults
    BY <1>15, <2>3, ConsumeType DEF ServerAck
  <2>5. alive' \subseteq Sessions /\ \A t \in alive' : srv'[t] \in 0..NBlocks
    BY <1>15, <2>1 DEF ServerAck, TypeOK
  <2>6. QED
    BY <1>15, <2>2, <2>4, <2>5 DEF ServerAck, TypeOK, udpVars, clientVars
<1>16. ASSUME NEW s \in Sessions, ServerRetransmit(s) PROVE TypeOK'
  <2>1. Reply(s, srv[s]) \in FromServer
    BY <1>16, ReplyIsPacket DEF ServerRetransmit, TypeOK
  <2>2. net' \subseteq FromServer \cup ToServer /\ faults' \in 0..MaxFaults
    BY <1>16, <2>1 DEF ServerRetransmit, TypeOK
  <2>3. QED
    BY <1>16, <2>2 DEF ServerRetransmit, TypeOK, udpVars, clientVars, serverVars
<1>17. ASSUME NEW s \in Sessions, ServerGiveUp(s) PROVE TypeOK'
  <2>1. Pkt("ERROR", s, 0) \in FromServer
    BY DEF Pkt, FromServer
  <2>2. QED
    BY <1>17, <2>1 DEF ServerGiveUp, TypeOK, udpVars, clientVars
<1>18. CASE UNCHANGED vars
  BY <1>18 DEF vars, TypeOK, udpVars, clientVars, serverVars
<1>19. CASE RereadData \/ RereadOack
  <2>1. /\ rbuf # <<>> /\ blknum' = blknum /\ peer' = Head(rbuf).tid
        /\ cut' \in {"no", "runt", "stale"} /\ file' = file /\ elapsed' \in BOOLEAN
        /\ UNCHANGED <<rpkt, retry, serverVars, faults>>
    BY <1>19 DEF RereadData, RereadOack, Reread, TypeOK
  <2>2. /\ Head(rbuf) \in FromServer
        /\ Tail(rbuf) \in Seq(FromServer) /\ Len(Tail(rbuf)) <= RbufMax
    BY <2>1, RbufHead
  <2>3. peer' \in Sessions \cup {"stray"}
    BY <2>1, <2>2, PacketShape
  <2>4. net' \subseteq FromServer \cup ToServer
    <3>1. 0 \in 0..NBlocks \cup {OptText} /\ blknum \in 0..NBlocks \cup {OptText}
      BY DEF TypeOK
    <3>2. Pkt("ACK", peer', 0) \in ToServer /\ Pkt("ACK", peer', blknum) \in ToServer
      BY <2>3, <3>1, AckIsPacket
    <3>3. QED
      BY <1>19, <3>2 DEF RereadData, RereadOack, TypeOK
  <2>5. /\ handle' \in HandleKinds
        /\ rbuf' \in Seq(FromServer) /\ Len(rbuf') <= RbufMax
        /\ pc' \in {"start", "sent", "rebind", "loop", "end"}
        /\ result' \in {-1, 0} /\ small' \in BOOLEAN
    <3>1. CASE RereadData
      <4>1. result \in {-1, 0} /\ EndLoop(result)
        BY <3>1 DEF RereadData, TypeOK
      <4>2. QED
        BY <4>1, EndLoopType
    <3>2. CASE RereadOack
      BY <2>2, <3>2 DEF RereadOack, NextPacket, NetUdpRecvfrom, TypeOK
    <3>3. QED
      BY <1>19, <3>1, <3>2
  <2>6. QED
    BY <2>1, <2>3, <2>4, <2>5 DEF TypeOK, serverVars
<1>20. QED
  BY <1>1, <1>2, <1>3, <1>4, <1>5, <1>6, <1>7, <1>8, <1>9, <1>10, <1>11, <1>12,
     <1>13, <1>14, <1>15, <1>16, <1>17, <1>18, <1>19
     DEF Next, Client, Server, ServerAnswer, Terminated

\* TypeOK holds in every reachable state.
THEOREM TypeCorrect == Spec => []TypeOK
  BY InitTypeOK, NextTypeOK, PTL DEF Spec

----------------------------------------------------------------------------
(* The lock step.                                                         *)

\* Writing a number adds it to what is written, and nothing else.
LEMMA WrittenAppend ==
  ASSUME NEW x, TypeOK, file' = Append(file, x)
  PROVE  Written' = Written \cup {x}
<1>1. /\ Len(file) \in Nat
      /\ Len(file') = Len(file) + 1
      /\ \A i \in 1..Len(file) : file'[i] = file[i]
      /\ file'[Len(file) + 1] = x
  BY DEF TypeOK
<1>2. QED
  BY <1>1 DEF Written

\* The order of the file survives a number that is no block, or a block whose
\* predecessor is in the file.
LEMMA NoGapAppend ==
  ASSUME NEW x \in Blocks \cup {OptText}, TypeOK, NoGap, file' = Append(file, x),
         x \in Blocks /\ x > 1 => x - 1 \in Written
  PROVE  NoGap'
<1>1. /\ Len(file) \in Nat
      /\ Len(file') = Len(file) + 1
      /\ \A i \in 1..Len(file) : file'[i] = file[i]
      /\ file'[Len(file) + 1] = x
  BY DEF TypeOK
<1>2. SUFFICES ASSUME NEW i \in 1..Len(file'), file'[i] \in Blocks, file'[i] > 1
               PROVE  \E j \in 1..(i - 1) : file'[j] = file'[i] - 1
  BY DEF NoGap
<1>3. CASE i \in 1..Len(file)
  <2>1. PICK j \in 1..(i - 1) : file[j] = file[i] - 1
    BY <1>1, <1>2, <1>3 DEF NoGap
  <2>2. file'[j] = file[j]
    BY <1>1, <1>3, <2>1
  <2>3. QED
    BY <1>1, <1>3, <2>1, <2>2
<1>4. CASE i = Len(file) + 1
  <2>1. PICK j \in 1..Len(file) : file[j] = x - 1
    BY <1>1, <1>2, <1>4 DEF Written
  <2>2. QED
    BY <1>1, <1>4, <2>1
<1>5. QED
  BY <1>1, <1>3, <1>4

\* A step that writes nothing and moves no session keeps the lock step, if it
\* puts no new DATA and no new ACK on the way.
LEMMA QuietStep ==
  ASSUME Inv, TypeOK', file' = file, srv' = srv,
         \A p \in FromServer : InFlight(p)' /\ p.type = "DATA" => InFlight(p),
         \A p \in net' : p.type = "ACK" => p \in net,
         blknum' \in Blocks => blknum' \in Written,
         Running'
  PROVE  Inv'
<1>1. Written' = Written
  BY DEF Written
<1>2. NoGap' /\ AckedIsStored' /\ DownClosed' /\ BlknumStored'
  BY <1>1 DEF Inv, NoGap, AckedIsStored, DownClosed, BlknumStored
<1>3. DataSent'
  BY DEF Inv, DataSent
<1>4. AckStored'
  BY <1>1 DEF Inv, AckStored
<1>5. QED
  BY <1>2, <1>3, <1>4 DEF Inv

\* A smaller receive buffer holds nothing new.
LEMMA RbufShrinks ==
  ASSUME TypeOK, net' = net, rbuf' = rbuf \/ rbuf' = <<>> \/ (rbuf # <<>> /\ rbuf' = Tail(rbuf))
  PROVE  \A p : InFlight(p)' => InFlight(p)
<1>1. CASE rbuf' = rbuf
  BY <1>1 DEF InFlight
<1>2. CASE rbuf' = <<>>
  BY <1>2 DEF InFlight
<1>3. CASE rbuf # <<>> /\ rbuf' = Tail(rbuf)
  <2>1. /\ Len(rbuf) \in Nat /\ Len(rbuf') = Len(rbuf) - 1
        /\ \A i \in 1..Len(rbuf') : rbuf'[i] = rbuf[i + 1]
    BY <1>3 DEF TypeOK
  <2>2. QED
    BY <2>1 DEF InFlight
<1>4. QED
  BY <1>1, <1>2, <1>3

\* The head of the receive buffer is in flight.
LEMMA HeadInFlight ==
  ASSUME TypeOK, rbuf # <<>>
  PROVE  InFlight(Head(rbuf)) /\ Head(rbuf) \in FromServer
<1>1. Len(rbuf) \in Nat /\ Len(rbuf) >= 1 /\ Head(rbuf) = rbuf[1]
  BY DEF TypeOK
<1>2. QED
  BY <1>1, RbufHead DEF InFlight

\* A block arrives only after every block before it has been written.
LEMMA DataFollows ==
  ASSUME Inv, rbuf # <<>>, Head(rbuf).type = "DATA"
  PROVE  Head(rbuf).num \in Blocks /\ \A b \in 1..(Head(rbuf).num - 1) : b \in Written
<1>1. /\ Head(rbuf) \in FromServer /\ InFlight(Head(rbuf))
  BY HeadInFlight DEF Inv
<1>2. Head(rbuf).num \in Blocks /\ Head(rbuf).tid \in Sessions
  BY <1>1, PacketShape
<1>3. Head(rbuf).num <= srv[Head(rbuf).tid]
  BY <1>1 DEF Inv, DataSent
<1>4. srv[Head(rbuf).tid] \in -1..(NBlocks + 1)
  BY <1>2 DEF Inv, TypeOK
<1>5. QED
  BY <1>2, <1>3, <1>4, NBlocksAssumption DEF Inv, AckedIsStored, Blocks

\* The invariant holds initially.
LEMMA InitInv == Init => Inv
<1> SUFFICES ASSUME Init PROVE Inv
  OBVIOUS
<1>1. TypeOK
  BY InitTypeOK
<1>2. Len(file) = 0 /\ Len(rbuf) = 0 /\ net = {} /\ Written = {}
  BY DEF Init, Written
<1>3. NoGap /\ DownClosed /\ DataSent /\ AckStored
  BY <1>2 DEF NoGap, DownClosed, DataSent, AckStored, InFlight
<1>4. AckedIsStored /\ BlknumStored /\ Running
  BY NBlocksAssumption DEF Init, AckedIsStored, BlknumStored, Running, Blocks
<1>5. QED
  BY <1>1, <1>3, <1>4 DEF Inv

\* RecvData: the block written follows those in the file, and the ACK sent
\* vouches for it.
LEMMA RecvDataInv == Inv /\ TypeOK' /\ RecvData => Inv'
<1> SUFFICES ASSUME Inv, TypeOK', RecvData PROVE Inv'
  OBVIOUS
<1> DEFINE n == Head(rbuf).num
<1>1. /\ n \in Blocks /\ blknum' = n
      /\ \A b \in 1..(n - 1) : b \in Written
  BY DataFollows DEF RecvData, Take
<1>2. TypeOK /\ file' = Append(file, n) /\ srv' = srv
  BY DEF RecvData, Stored, Inv, serverVars
<1>3. Written' = Written \cup {n}
  BY <1>2, WrittenAppend
<1>4. NoGap'
  <2>1. n > 1 => n - 1 \in Written
    BY <1>1 DEF Blocks
  <2>2. QED
    BY <1>1, <1>2, <2>1, NoGapAppend DEF Inv
<1>5. AckedIsStored' /\ BlknumStored'
  BY <1>1, <1>2, <1>3 DEF Inv, AckedIsStored, BlknumStored
<1>6. DownClosed'
  BY <1>1, <1>3 DEF Inv, DownClosed, Blocks
<1>7. DataSent'
  <2>1. rbuf' = <<>> \/ (rbuf # <<>> /\ rbuf' = Tail(rbuf))
    BY DEF RecvData, EndLoop, NextPacket, NetUdpClose, NetUdpRecvfrom
  <2>2. \A p \in FromServer : InFlight(p)' => InFlight(p)
    <3>1. \A p : (\E i \in 1..Len(rbuf') : rbuf'[i] = p) => \E i \in 1..Len(rbuf) : rbuf[i] = p
      <4>1. CASE rbuf' = <<>>
        BY <4>1
      <4>2. CASE rbuf # <<>> /\ rbuf' = Tail(rbuf)
        <5>1. /\ Len(rbuf) \in Nat /\ Len(rbuf') = Len(rbuf) - 1
              /\ \A i \in 1..Len(rbuf') : rbuf'[i] = rbuf[i + 1]
          BY <4>2 DEF Inv, TypeOK
        <5>2. QED
          BY <5>1
      <4>3. QED
        BY <2>1, <4>1, <4>2
    <3>2. net' = net \cup {Pkt("ACK", peer', n)}
      BY <1>1 DEF RecvData
    <3>3. Pkt("ACK", peer', n) \notin FromServer
      BY DEF Pkt, FromServer
    <3>4. QED
      BY <3>1, <3>2, <3>3 DEF InFlight
  <2>3. QED
    BY <1>2, <2>2 DEF Inv, DataSent
<1>8. AckStored'
  <2>1. \A p \in net' : p \in net \/ p.num = n
    BY <1>1 DEF RecvData, Pkt
  <2>2. QED
    BY <1>3, <2>1 DEF Inv, AckStored
<1>9. Running'
  BY DEF Inv, Running, RecvData, Take, EndLoop, NextPacket
<1>10. QED
  BY <1>4, <1>5, <1>6, <1>7, <1>8, <1>9 DEF Inv

\* RecvOack: what is written is no block, and ACK 0 vouches for none.
LEMMA RecvOackInv == Inv /\ TypeOK' /\ RecvOack => Inv'
<1> SUFFICES ASSUME Inv, TypeOK', RecvOack PROVE Inv'
  OBVIOUS
<1>1. OptText \notin Blocks /\ 0 \notin Blocks
  BY OptTextAssumption, NBlocksAssumption DEF Blocks
<1>2. TypeOK /\ file' = Append(file, OptText) /\ srv' = srv
  BY DEF RecvOack, Inv, serverVars
<1>3. Written' = Written \cup {OptText}
  BY <1>2, WrittenAppend
<1>4. NoGap'
  BY <1>1, <1>2, NoGapAppend DEF Inv
<1>5. AckedIsStored' /\ DownClosed'
  BY <1>1, <1>2, <1>3 DEF Inv, AckedIsStored, DownClosed
<1>6. BlknumStored'
  <2>1. Head(rbuf) \in FromServer /\ Head(rbuf).type = "OACK"
    BY HeadInFlight DEF RecvOack, Take, Inv
  <2>2. blknum' = OptText
    BY <2>1 DEF RecvOack, Take, FromServer
  <2>3. QED
    BY <1>1, <2>2 DEF BlknumStored
<1>7. /\ net' = net \cup {Pkt("ACK", peer', 0)}
      /\ rbuf # <<>> /\ rbuf' = Tail(rbuf)
  BY DEF RecvOack, NextPacket, NetUdpRecvfrom
<1>8. DataSent'
  <2>1. /\ Len(rbuf) \in Nat /\ Len(rbuf') = Len(rbuf) - 1
        /\ \A i \in 1..Len(rbuf') : rbuf'[i] = rbuf[i + 1]
    BY <1>7 DEF Inv, TypeOK
  <2>2. Pkt("ACK", peer', 0) \notin FromServer
    BY DEF Pkt, FromServer
  <2>3. \A p \in FromServer : InFlight(p)' => InFlight(p)
    BY <1>7, <2>1, <2>2 DEF InFlight
  <2>4. QED
    BY <1>2, <2>3 DEF Inv, DataSent
<1>9. AckStored'
  <2>1. \A p \in net' : p \in net \/ p.num = 0
    BY <1>7 DEF Pkt
  <2>2. QED
    BY <1>1, <1>3, <2>1 DEF Inv, AckStored
<1>10. Running'
  BY DEF Inv, Running, RecvOack, Take, NextPacket
<1>11. QED
  BY <1>4, <1>5, <1>6, <1>8, <1>9, <1>10 DEF Inv

\* A session moves only on an ACK that vouches for the block it is at.
LEMMA ServerAckInv ==
  ASSUME NEW s \in Sessions, Inv, TypeOK', ServerAck(s)
  PROVE  Inv'
<1> DEFINE k == srv[s]
<1>1. k \in 0..NBlocks /\ srv' = [srv EXCEPT ![s] = k + 1] /\ srv \in [Sessions -> -1..(NBlocks + 1)]
  BY DEF Inv, TypeOK, ServerAck
<1>2. file' = file /\ rbuf' = rbuf /\ blknum' = blknum /\ Written' = Written
  BY DEF ServerAck, clientVars, udpVars, Written
<1>3. k \in Blocks => k \in Written
  <2>1. Pkt("ACK", s, k) \in net
    BY DEF ServerAck
  <2>2. QED
    BY <2>1 DEF Inv, AckStored, Pkt
<1>4. AckedIsStored'
  <2> SUFFICES ASSUME NEW t \in Sessions, NEW b \in Blocks, b < srv'[t]
               PROVE  b \in Written
    BY <1>2 DEF AckedIsStored
  <2>1. CASE t = s
    <3>1. b < k \/ b = k
      BY <1>1, <2>1 DEF Blocks
    <3>2. QED
      BY <1>3, <3>1 DEF Inv, AckedIsStored
  <2>2. CASE t # s
    BY <1>1, <2>2 DEF Inv, AckedIsStored
  <2>3. QED
    BY <2>1, <2>2
<1>5. \A p \in net' : p \in net \/ (k < NBlocks /\ p = Pkt("DATA", s, k + 1))
  BY <1>1 DEF ServerAck, Consume, Reply
<1>6. DataSent'
  <2> SUFFICES ASSUME NEW p \in FromServer, InFlight(p)', p.type = "DATA"
               PROVE  p.num <= srv'[p.tid]
    BY DEF DataSent
  <2>1. p.num \in Blocks /\ p.tid \in Sessions
    BY PacketShape
  <2>2. CASE InFlight(p)
    <3>1. p.num <= srv[p.tid]
      BY <2>2 DEF Inv, DataSent
    <3>2. srv[p.tid] \in Int /\ srv'[p.tid] \in Int /\ srv[p.tid] <= srv'[p.tid]
      BY <1>1, <2>1
    <3>3. QED
      BY <2>1, <3>1, <3>2 DEF Blocks
  <2>3. CASE p = Pkt("DATA", s, k + 1)
    BY <1>1, <2>3 DEF Pkt
  <2>4. QED
    BY <1>2, <1>5, <2>2, <2>3 DEF InFlight
<1>7. AckStored'
  BY <1>2, <1>5 DEF Inv, AckStored, Pkt
<1>8. NoGap' /\ DownClosed' /\ BlknumStored' /\ Running'
  BY <1>2 DEF Inv, NoGap, DownClosed, BlknumStored, Running, ServerAck, clientVars
<1>9. QED
  BY <1>4, <1>6, <1>7, <1>8 DEF Inv

\* A session opens before any block of the file, or at the first one.
LEMMA ServerAcceptInv ==
  ASSUME NEW s \in Sessions, Inv, TypeOK', ServerAccept(s)
  PROVE  Inv'
<1>1. PICK n \in {0, 1}, q \in net :
        Consume(q, {Reply(s, n)}) /\ srv' = [srv EXCEPT ![s] = n]
  BY DEF ServerAccept
<1>2. srv \in [Sessions -> -1..(NBlocks + 1)] /\ srv[s] = -1
  BY DEF ServerAccept, Inv, TypeOK
<1>3. file' = file /\ rbuf' = rbuf /\ blknum' = blknum /\ Written' = Written
  BY DEF ServerAccept, clientVars, udpVars, Written
<1>4. AckedIsStored'
  BY <1>1, <1>2, <1>3 DEF Inv, AckedIsStored, Blocks
<1>5. \A p \in net' : p \in net \/ p = Reply(s, n)
  BY <1>1 DEF Consume
<1>6. DataSent'
  <2> SUFFICES ASSUME NEW p \in FromServer, InFlight(p)', p.type = "DATA"
               PROVE  p.num <= srv'[p.tid]
    BY DEF DataSent
  <2>1. p.num \in Blocks /\ p.tid \in Sessions
    BY PacketShape
  <2>2. CASE InFlight(p)
    BY <1>1, <1>2, <2>1, <2>2 DEF Inv, DataSent, Blocks
  <2>3. CASE p = Reply(s, n)
    BY <1>1, <1>2, <2>3 DEF Reply, Pkt
  <2>4. QED
    BY <1>3, <1>5, <2>2, <2>3 DEF InFlight
<1>7. AckStored'
  BY <1>3, <1>5 DEF Inv, AckStored, Reply, Pkt
<1>8. NoGap' /\ DownClosed' /\ BlknumStored' /\ Running'
  BY <1>3 DEF Inv, NoGap, DownClosed, BlknumStored, Running, ServerAccept, clientVars
<1>9. QED
  BY <1>4, <1>6, <1>7, <1>8 DEF Inv

\* A datagram of the network moves to the receive buffer or is dropped.
LEMMA ArriveInv == Inv /\ TypeOK' /\ Arrive => Inv'
<1> SUFFICES ASSUME Inv, TypeOK', Arrive PROVE Inv'
  OBVIOUS
<1>1. PICK q \in net : UdpArrive(q) /\ Consume(q, {})
  BY DEF Arrive
<1>2. net' \subseteq net
  BY <1>1 DEF Consume
<1>3. \A p : InFlight(p)' => InFlight(p)
  <2>1. Len(rbuf) \in Nat /\ rbuf \in Seq(FromServer)
    BY DEF Inv, TypeOK
  <2>2. CASE rbuf' = rbuf
    BY <1>2, <2>2 DEF InFlight
  <2>3. CASE rbuf' = Append(rbuf, q)
    <3>1. /\ Len(rbuf') = Len(rbuf) + 1 /\ rbuf'[Len(rbuf) + 1] = q
          /\ \A i \in 1..Len(rbuf) : rbuf'[i] = rbuf[i]
      BY <2>1, <2>3
    <3>2. \A i \in 1..Len(rbuf') : i \in 1..Len(rbuf) \/ i = Len(rbuf) + 1
      BY <2>1, <3>1
    <3>3. QED
      BY <1>2, <3>1, <3>2 DEF InFlight
  <2>4. QED
    BY <1>1, <2>2, <2>3 DEF UdpArrive
<1>4. file' = file /\ srv' = srv /\ blknum' = blknum /\ Running'
  BY DEF Arrive, clientVars, serverVars, Inv, Running
<1>5. blknum' \in Blocks => blknum' \in Written
  BY <1>4 DEF Inv, BlknumStored
<1>6. QED
  BY <1>2, <1>3, <1>4, <1>5, QuietStep

\* Whatever block is acknowledged from the polling loop, or for a packet looked at
\* again, has been written: such a step adds only acknowledgements of the last
\* number, or of none, and takes at most the head of the receive buffer.
LEMMA AckOfLast ==
  ASSUME Inv, TypeOK', file' = file, srv' = srv, blknum' = blknum, Running',
         rbuf' = rbuf \/ rbuf' = <<>> \/ (rbuf # <<>> /\ rbuf' = Tail(rbuf)),
         NEW t, NEW n \in {0, blknum}, net' = net \cup {Pkt("ACK", t, n)}
  PROVE  Inv'
<1>1. Written' = Written
  BY DEF Written
<1>2. DataSent'
  <2>1. Pkt("ACK", t, n) \notin FromServer
    BY DEF Pkt, FromServer
  <2>2. \A p : (\E i \in 1..Len(rbuf') : rbuf'[i] = p) => \E i \in 1..Len(rbuf) : rbuf[i] = p
    <3>1. CASE rbuf' = rbuf
      BY <3>1
    <3>2. CASE rbuf' = <<>>
      BY <3>2
    <3>3. CASE rbuf # <<>> /\ rbuf' = Tail(rbuf)
      <4>1. /\ Len(rbuf) \in Nat /\ Len(rbuf') = Len(rbuf) - 1
            /\ \A i \in 1..Len(rbuf') : rbuf'[i] = rbuf[i + 1]
        BY <3>3 DEF Inv, TypeOK
      <4>2. QED
        BY <4>1
    <3>4. QED
      BY <3>1, <3>2, <3>3
  <2>3. QED
    BY <2>1, <2>2 DEF Inv, DataSent, InFlight
<1>3. AckStored'
  <2>1. \A p \in net' : p \in net \/ p.num = n
    BY DEF Pkt
  <2>2. 0 \notin Blocks
    BY NBlocksAssumption DEF Blocks
  <2>3. QED
    BY <1>1, <2>1, <2>2 DEF Inv, AckStored, BlknumStored
<1>4. NoGap' /\ AckedIsStored' /\ DownClosed' /\ BlknumStored'
  BY <1>1 DEF Inv, NoGap, AckedIsStored, DownClosed, BlknumStored
<1>5. QED
  BY <1>2, <1>3, <1>4 DEF Inv

\* A retry acknowledges the last number, and may throw a datagram away.
LEMMA ResendAckInv == Inv /\ TypeOK' /\ ResendAck => Inv'
<1> SUFFICES ASSUME Inv, TypeOK', ResendAck PROVE Inv'
  OBVIOUS
<1>1. /\ file' = file /\ srv' = srv /\ blknum' = blknum /\ Running'
      /\ rbuf' = rbuf \/ (rbuf # <<>> /\ rbuf' = Tail(rbuf))
      /\ net' = net \cup {Pkt("ACK", peer, blknum)}
  BY DEF ResendAck, ResendNumber, serverVars, Inv, Running
<1>2. QED
  BY <1>1, AckOfLast

\* A packet looked at again is answered with its own number, or with 0.
LEMMA RereadInv == Inv /\ TypeOK' /\ (RereadData \/ RereadOack) => Inv'
<1> SUFFICES ASSUME Inv, TypeOK', RereadData \/ RereadOack PROVE Inv'
  OBVIOUS
<1>1. /\ file' = file /\ srv' = srv /\ blknum' = blknum
      /\ rbuf' = <<>> \/ (rbuf # <<>> /\ rbuf' = Tail(rbuf))
  BY DEF RereadData, RereadOack, Reread, EndLoop, NextPacket, NetUdpClose,
         NetUdpRecvfrom, serverVars
<1>2. Running'
  BY DEF Inv, Running, RereadData, RereadOack, Reread, EndLoop, NextPacket
<1>3. PICK n \in {0, blknum} : net' = net \cup {Pkt("ACK", peer', n)}
  BY DEF RereadData, RereadOack
<1>4. QED
  BY <1>1, <1>2, <1>3, AckOfLast

\* A session repeats only the block it is at.
LEMMA ServerRetransmitInv ==
  ASSUME NEW s \in Sessions, Inv, TypeOK', ServerRetransmit(s)
  PROVE  Inv'
<1>1. /\ net' = net \cup {Reply(s, srv[s])} /\ rbuf' = rbuf
      /\ file' = file /\ srv' = srv /\ blknum' = blknum /\ Written' = Written
  BY DEF ServerRetransmit, udpVars, clientVars, serverVars, Written
<1>2. srv[s] \in 0..NBlocks
  BY DEF ServerRetransmit, Inv, TypeOK
<1>3. DataSent'
  <2> SUFFICES ASSUME NEW p \in FromServer, InFlight(p)', p.type = "DATA"
               PROVE  p.num <= srv[p.tid]
    BY <1>1 DEF DataSent
  <2>1. CASE InFlight(p)
    BY <2>1 DEF Inv, DataSent
  <2>2. CASE p = Reply(s, srv[s])
    BY <1>2, <2>2 DEF Reply, Pkt
  <2>3. QED
    BY <1>1, <2>1, <2>2 DEF InFlight
<1>4. AckStored'
  BY <1>1 DEF Inv, AckStored, Reply, Pkt
<1>5. NoGap' /\ AckedIsStored' /\ DownClosed' /\ BlknumStored' /\ Running'
  BY <1>1 DEF Inv, NoGap, AckedIsStored, DownClosed, BlknumStored, Running,
              ServerRetransmit, clientVars
<1>6. QED
  BY <1>3, <1>4, <1>5 DEF Inv

\* Strays and errors are neither blocks nor acknowledgements.
LEMMA StrayOrGiveUpInv ==
  ASSUME Inv, TypeOK', Stray \/ \E s \in Sessions : ServerGiveUp(s)
  PROVE  Inv'
<1>1. \A p \in net' : p \in net \/ p.type \in {"UNKNOWN", "RUNT", "ERROR"}
  BY DEF Stray, ServerGiveUp, Pkt
<1>2. rbuf' = rbuf /\ file' = file /\ srv' = srv /\ blknum' = blknum /\ Running'
  BY DEF Stray, ServerGiveUp, udpVars, clientVars, serverVars, Inv, Running
<1>3. \A p \in FromServer : InFlight(p)' /\ p.type = "DATA" => InFlight(p)
  BY <1>1, <1>2 DEF InFlight
<1>4. \A p \in net' : p.type = "ACK" => p \in net
  BY <1>1
<1>5. blknum' \in Blocks => blknum' \in Written
  BY <1>2 DEF Inv, BlknumStored
<1>6. QED
  BY <1>2, <1>3, <1>4, <1>5, QuietStep

\* The steps of the client that neither write nor acknowledge anything.
LEMMA ClientQuietInv ==
  ASSUME Inv, TypeOK',
         \/ OpenFails \/ SendRequest \/ CloseRequestHandle \/ Rebind
         \/ RecvError \/ RecvRunt \/ TooManyRetries \/ Escape \/ Tick
  PROVE  Inv'
<1>1. TypeOK /\ Running
  BY DEF Inv
<1>2. file' = file /\ srv' = srv
  BY DEF OpenFails, SendRequest, CloseRequestHandle, Rebind, RecvError, RecvRunt,
         TooManyRetries, Escape, Tick, serverVars
<1>3. \A p \in net' : p \in net \/ p = Pkt("RRQ", Service, 0)
  BY DEF OpenFails, SendRequest, CloseRequestHandle, Rebind, RecvError, RecvRunt,
         TooManyRetries, Escape, Tick
<1>4. rbuf' = rbuf \/ rbuf' = <<>>
  BY DEF OpenFails, SendRequest, CloseRequestHandle, Rebind, RecvError, RecvRunt,
         TooManyRetries, Escape, Tick, udpVars, NetUdpOpen, NetUdpClose, EndLoop
<1>5. \A p \in FromServer : InFlight(p)' /\ p.type = "DATA" => InFlight(p)
  BY <1>3, <1>4 DEF InFlight, Pkt
<1>6. \A p \in net' : p.type = "ACK" => p \in net
  BY <1>3 DEF Pkt
<1>7. blknum' \in Blocks => blknum' \in Written
  <2>1. CASE RecvError
    <3>1. Head(rbuf) \in FromServer /\ Head(rbuf).type \in {"ERROR", "UNKNOWN"}
      BY <1>1, <2>1, HeadInFlight DEF RecvError, Take
    <3>2. blknum' = 0
      BY <2>1, <3>1 DEF RecvError, Take, FromServer
    <3>3. QED
      BY <3>2 DEF Blocks
  <2>2. CASE blknum' = blknum
    BY <2>2 DEF Inv, BlknumStored
  <2>3. QED
    BY <2>1, <2>2 DEF OpenFails, SendRequest, CloseRequestHandle, Rebind, RecvRunt,
                      TooManyRetries, Escape, Tick
<1>8. Running'
  BY <1>1 DEF Running, OpenFails, SendRequest, CloseRequestHandle, Rebind, RecvError,
              RecvRunt, TooManyRetries, Escape, Tick, Take, EndLoop, NoData
<1>9. QED
  BY <1>2, <1>5, <1>6, <1>7, <1>8, QuietStep

\* Every step preserves the invariant.
LEMMA NextInv == Inv /\ [Next]_vars => Inv'
<1> SUFFICES ASSUME Inv, [Next]_vars PROVE Inv'
  OBVIOUS
<1>1. TypeOK'
  BY NextTypeOK DEF Inv
<1>2. CASE UNCHANGED vars
  BY <1>2 DEF vars, udpVars, clientVars, serverVars, Inv, TypeOK, NoGap, AckedIsStored,
              DataSent, AckStored, BlknumStored, DownClosed, Running, InFlight, Written
<1>3. CASE Client
  BY <1>1, <1>3, RecvDataInv, RecvOackInv, RereadInv, ResendAckInv, ClientQuietInv DEF Client
<1>4. CASE OpenFails \/ Escape \/ Tick
  BY <1>1, <1>4, ClientQuietInv
<1>5. CASE Arrive \/ Stray
  BY <1>1, <1>5, ArriveInv, StrayOrGiveUpInv
<1>6. CASE Server
  BY <1>1, <1>6, ServerAcceptInv, ServerAckInv, ServerRetransmitInv, StrayOrGiveUpInv
     DEF Server, ServerAnswer
<1>7. QED
  BY <1>2, <1>3, <1>4, <1>5, <1>6 DEF Next, Terminated

\* The lock step holds in every reachable state.
THEOREM InvHolds == Spec => []Inv
  BY InitInv, NextInv, PTL DEF Spec

\* The local file never has a hole.
THEOREM NoGapHolds == Spec => []NoGap
<1>1. Inv => NoGap
  BY DEF Inv
<1>2. QED
  BY <1>1, InvHolds, PTL

\* No server is told that a block arrived which the local file lacks.
THEOREM AckedIsStoredHolds == Spec => []AckedIsStored
<1>1. Inv => AckedIsStored
  BY DEF Inv
<1>2. QED
  BY <1>1, InvHolds, PTL

----------------------------------------------------------------------------
(* A network that neither duplicates nor retransmits: one session answers, *)
(* and a block is in one place at a time, under way, queued or in the      *)
(* file.                                                                   *)

Request == Pkt("RRQ", Service, 0)

\* The one request opens one session.
OneServer ==
  /\ \A s, t \in Sessions : srv[s] # -1 /\ srv[t] # -1 => s = t
  /\ pc = "start" => net = {}
  /\ pc = "start" \/ Request \in net => \A s \in Sessions : srv[s] = -1

\* What is under way is the block its session is at, which is not yet in the file, and
\* it is either in the network or queued, once.
OneCopy ==
  /\ \A p \in FromServer : InFlight(p) /\ p.type = "DATA" =>
       p.num = srv[p.tid] /\ p.num \notin Written
  /\ \A p \in net : p.type = "DATA" => \A i \in 1..Len(rbuf) : rbuf[i].type # "DATA"
  /\ \A i, j \in 1..Len(rbuf) : rbuf[i].type = "DATA" /\ rbuf[j].type = "DATA" => i = j

InOrder == \A i \in 1..Len(file) : file[i] \in Blocks => file[i] = CountIn(file, Blocks, i)

\* The file holds the blocks up to its count, and no session is behind it.
Filled ==
  /\ InOrder
  /\ \A b \in 1..CountIn(file, Blocks, Len(file)) : b \in Written
  /\ \A b \in Blocks : b \in Written => \E s \in Sessions : b <= srv[s]

CleanInv == faults = 0 => OneServer /\ OneCopy /\ Filled

\* Two blocks under way are the same.
LEMMA SameData ==
  ASSUME Inv, OneServer, OneCopy,
         NEW p \in FromServer, NEW q \in FromServer, InFlight(p), InFlight(q),
         p.type = "DATA", q.type = "DATA"
  PROVE  p = q
<1>1. /\ p.num \in Blocks /\ p.tid \in Sessions /\ q.num \in Blocks /\ q.tid \in Sessions
  BY PacketShape
<1>2. p.num = srv[p.tid] /\ q.num = srv[q.tid]
  BY DEF OneCopy
<1>3. p.num # -1 /\ q.num # -1
  BY <1>1 DEF Blocks
<1>4. p.tid = q.tid
  BY <1>1, <1>2, <1>3 DEF OneServer
<1>5. p.num = q.num
  BY <1>2, <1>4
<1>6. /\ p = [type |-> "DATA", tid |-> p.tid, num |-> p.num]
      /\ q = [type |-> "DATA", tid |-> q.tid, num |-> q.num]
  BY DEF FromServer
<1> QED
  BY <1>4, <1>5, <1>6

\* The number of faults never falls.
LEMMA FaultsStay ==
  ASSUME Inv, Inv', [Next]_vars, faults' = 0
  PROVE  faults = 0
<1>1. faults \in Nat
  BY DEF Inv, TypeOK
<1>2. faults' = faults \/ faults' = faults + 1
  BY DEF Next, Client, OpenFails, SendRequest, CloseRequestHandle, Rebind, RecvData, RecvOack,
         RecvError, RecvRunt, RereadData, RereadOack, Reread, TooManyRetries, ResendAck, Escape,
         Tick, Arrive, Stray, Server, ServerAnswer, ServerAccept, ServerAck, ServerRetransmit, ServerGiveUp, Consume,
         Terminated, vars
<1> QED
  BY <1>1, <1>2

\* Steps that put no block and no request on the way and move no session.
LEMMA CleanQuiet ==
  ASSUME Inv, OneServer, OneCopy, Filled, srv' = srv, file' = file,
         \A p \in net' : p.type \in {"DATA", "RRQ"} => p \in net,
         rbuf' = rbuf \/ rbuf' = <<>> \/ (rbuf # <<>> /\ rbuf' = Tail(rbuf)),
         pc' = "start" => pc = "start" /\ net' = net
  PROVE  (OneServer /\ OneCopy /\ Filled)'
<1>1. OneServer'
  BY DEF OneServer, Request, Pkt
<1>2. Written' = Written
  BY DEF Written
<1>3. PICK k \in {0, 1} : \A i \in 1..Len(rbuf') : i + k \in 1..Len(rbuf) /\ rbuf'[i] = rbuf[i + k]
  <2>0. Len(rbuf) \in Nat
    BY DEF Inv, TypeOK
  <2>1. CASE rbuf' = rbuf
    <3>1. \A i \in 1..Len(rbuf') : i + 0 \in 1..Len(rbuf) /\ rbuf'[i] = rbuf[i + 0]
      BY <2>0, <2>1
    <3> QED
      BY <3>1
  <2>2. CASE rbuf' = <<>>
    BY <2>2
  <2>3. CASE rbuf # <<>> /\ rbuf' = Tail(rbuf)
    <3>1. \A i \in 1..Len(rbuf') : i + 1 \in 1..Len(rbuf) /\ rbuf'[i] = rbuf[i + 1]
      BY <2>3 DEF Inv, TypeOK
    <3> QED
      BY <3>1
  <2> QED
    BY <2>1, <2>2, <2>3
<1>4. OneCopy'
  <2>1. \A p \in FromServer : InFlight(p)' /\ p.type = "DATA" => InFlight(p)
    BY <1>3 DEF InFlight
  <2>2. \A p \in FromServer : InFlight(p)' /\ p.type = "DATA" => p.num = srv'[p.tid] /\ p.num \notin Written'
    BY <1>2, <2>1 DEF OneCopy
  <2>3. \A p \in net' : p.type = "DATA" => \A i \in 1..Len(rbuf') : rbuf'[i].type # "DATA"
    BY <1>3 DEF OneCopy
  <2>4. ASSUME NEW i \in 1..Len(rbuf'), NEW j \in 1..Len(rbuf'),
               rbuf'[i].type = "DATA", rbuf'[j].type = "DATA"
        PROVE  i = j
    <3>1. i + k = j + k
      BY <1>3, <2>4 DEF OneCopy
    <3> QED
      BY <3>1
  <2> QED
    BY <2>2, <2>3, <2>4 DEF OneCopy
<1>5. Filled'
  BY <1>2 DEF Filled, InOrder
<1> QED
  BY <1>1, <1>4, <1>5

\* The number that option text reads as is no block's.
LEMMA OptionNoBlock == OptText \notin Blocks
<1>1. \A b \in Blocks : b <= NBlocks /\ b \in Int
  BY NBlocksAssumption DEF Blocks
<1> QED
  BY <1>1, OptTextAssumption, NBlocksAssumption

\* What is written next: a number that is no block leaves the account of the file.
LEMMA FilledByOption ==
  ASSUME Inv, Filled, srv' = srv, file' = Append(file, OptText)
  PROVE  Filled'
<1>1. file \in Seq(Blocks \cup {OptText}) /\ OptText \notin Blocks
  BY OptionNoBlock DEF Inv, TypeOK
<1>2. /\ Len(file) \in Nat /\ Len(file') = Len(file) + 1 /\ file'[Len(file) + 1] = OptText
      /\ \A i \in 1..Len(file) : file'[i] = file[i]
  BY <1>1
<1>3. /\ \A i \in 1..Len(file) : CountIn(file', Blocks, i) = CountIn(file, Blocks, i)
      /\ CountIn(file', Blocks, Len(file) + 1) = CountIn(file, Blocks, Len(file)) + 0
  BY <1>1, CountAppend
<1>4. CountIn(file, Blocks, Len(file)) \in Nat
  BY <1>2, CountType
<1>5. Written' = Written \cup {OptText}
  BY WrittenAppend DEF Inv
<1>6. InOrder'
  BY <1>1, <1>2, <1>3 DEF Filled, InOrder
<1> QED
  BY <1>1, <1>2, <1>3, <1>4, <1>5, <1>6 DEF Filled

\* The block of a session that has reached it, and which the file lacks, is the next.
LEMMA FilledByBlock ==
  ASSUME Inv, Filled, srv' = srv, NEW b \in Blocks, b \notin Written,
         \A a \in 1..(b - 1) : a \in Written, NEW s \in Sessions, b <= srv[s],
         file' = Append(file, b)
  PROVE  Filled'
<1> DEFINE n == CountIn(file, Blocks, Len(file))
<1>1. file \in Seq(Blocks \cup {OptText}) /\ b \in Nat /\ b >= 1
  BY DEF Inv, TypeOK, Blocks
<1>2. /\ Len(file) \in Nat /\ Len(file') = Len(file) + 1 /\ file'[Len(file) + 1] = b
      /\ \A i \in 1..Len(file) : file'[i] = file[i]
  BY <1>1
<1>3. /\ \A i \in 1..Len(file) : CountIn(file', Blocks, i) = CountIn(file, Blocks, i)
      /\ CountIn(file', Blocks, Len(file) + 1) = n + 1
  BY <1>1, CountAppend
<1>4. n \in Nat
  BY <1>2, CountType
<1>5. Written' = Written \cup {b}
  BY WrittenAppend DEF Inv
<1> HIDE DEF n
<1>6. b > n
  BY <1>1, <1>4 DEF Filled, n
<1>7. b <= n + 1
  <2>1. CASE b = 1
    BY <1>4, <2>1
  <2>2. CASE b > 1
    <3>1. b - 1 \in 1..(b - 1) /\ b - 1 \in Blocks
      BY <1>1, <2>2, NBlocksAssumption DEF Blocks
    <3>2. PICK i \in 1..Len(file) : file[i] = b - 1
      BY <3>1 DEF Written
    <3>3. b - 1 = CountIn(file, Blocks, i)
      BY <3>1, <3>2 DEF Filled, InOrder
    <3>4. CountIn(file, Blocks, i) \in 1..n
      BY <1>2, <3>1, <3>2, CountReaches DEF n
    <3> QED
      BY <1>1, <1>4, <3>3, <3>4
  <2>3. b = 1 \/ b > 1
    BY <1>1
  <2> QED
    BY <2>1, <2>2, <2>3
<1>8. b = n + 1
  BY <1>1, <1>4, <1>6, <1>7
<1>9. InOrder'
  <2> SUFFICES ASSUME NEW i \in 1..Len(file'), file'[i] \in Blocks
               PROVE  file'[i] = CountIn(file', Blocks, i)
    BY DEF InOrder
  <2>1. CASE i \in 1..Len(file)
    BY <1>2, <1>3, <2>1 DEF Filled, InOrder
  <2>2. CASE i = Len(file) + 1
    BY <1>2, <1>3, <1>8, <2>2
  <2> QED
    BY <1>2, <2>1, <2>2
<1>10. \A a \in 1..(n + 1) : a \in Written'
  <2> TAKE a \in 1..(n + 1)
  <2>1. a \in 1..n \/ a = b
    BY <1>4, <1>8
  <2> QED
    BY <1>5, <2>1 DEF Filled, n
<1>11. \A a \in Blocks : a \in Written' => \E t \in Sessions : a <= srv'[t]
  BY <1>5 DEF Filled
<1> QED
  BY <1>2, <1>3, <1>9, <1>10, <1>11 DEF Filled

\* RecvData takes the one block there is; nothing is under way behind it.
LEMMA RecvDataClean ==
  ASSUME Inv, OneServer, OneCopy, Filled, RecvData
  PROVE  (OneServer /\ OneCopy /\ Filled)'
<1> DEFINE p == Head(rbuf)
<1>1. /\ rbuf # <<>> /\ p.type = "DATA" /\ srv' = srv /\ file' = Append(file, p.num)
      /\ net' = net \cup {Pkt("ACK", peer', blknum')} /\ pc' # "start"
  BY DEF RecvData, Take, Stored, EndLoop, NextPacket, serverVars
<1>2. p \in FromServer /\ InFlight(p)
  BY <1>1, HeadInFlight DEF Inv
<1>3. p.num \in Blocks /\ p.tid \in Sessions /\ \A a \in 1..(p.num - 1) : a \in Written
  BY <1>1, <1>2, DataFollows, PacketShape
<1>4. p.num = srv[p.tid] /\ p.num \notin Written
  BY <1>1, <1>2 DEF OneCopy
<1>5. /\ rbuf \in Seq(FromServer) /\ Len(rbuf) \in Nat /\ Len(rbuf) >= 1 /\ rbuf[1] = p
  BY <1>1 DEF Inv, TypeOK
<1> HIDE DEF p
<1>6. p.num <= srv[p.tid]
  BY <1>3, <1>4 DEF Blocks
<1>7. Filled'
  BY <1>1, <1>3, <1>4, <1>6, FilledByBlock
<1>8. \A q \in net : q.type # "DATA"
  BY <1>1, <1>5 DEF OneCopy
<1>9. \A i \in 1..Len(rbuf') : rbuf'[i].type # "DATA"
  <2>1. rbuf' = <<>> \/ rbuf' = Tail(rbuf)
    BY DEF RecvData, EndLoop, NextPacket, NetUdpClose, NetUdpRecvfrom
  <2>2. CASE rbuf' = <<>>
    BY <2>2
  <2>3. CASE rbuf' = Tail(rbuf)
    <3>1. \A i \in 1..Len(rbuf') : i + 1 \in 1..Len(rbuf) /\ i + 1 # 1 /\ rbuf'[i] = rbuf[i + 1]
      BY <1>1, <1>5, <2>3
    <3>2. \A j \in 1..Len(rbuf) : rbuf[j].type = "DATA" => j = 1
      BY <1>1, <1>5 DEF OneCopy
    <3> QED
      BY <3>1, <3>2
  <2> QED
    BY <2>1, <2>2, <2>3
<1>10. \A q \in net' : q.type # "DATA"
  BY <1>1, <1>8 DEF Pkt
<1>11. OneCopy'
  BY <1>9, <1>10 DEF OneCopy, InFlight
<1>12. OneServer'
  BY <1>1 DEF OneServer, Request, Pkt
<1> QED
  BY <1>7, <1>11, <1>12

\* A datagram arrives, and is not duplicated: a block moves from the network into the
\* queue, or is lost.
LEMMA ArriveClean ==
  ASSUME Inv, OneServer, OneCopy, Filled, Arrive, faults' = faults
  PROVE  (OneServer /\ OneCopy /\ Filled)'
<1>1. PICK q \in net : q \in FromServer /\ UdpArrive(q) /\ Consume(q, {})
  BY DEF Arrive
<1>2. net' = net \ {q}
  <2>1. faults # faults + 1
    BY DEF Inv, TypeOK
  <2> QED
    BY <1>1, <2>1 DEF Consume
<1>3. srv' = srv /\ file' = file /\ pc' = pc
  BY DEF Arrive, serverVars, clientVars
<1>4. CASE rbuf' = rbuf
  <2>1. pc' = "start" => pc = "start" /\ net' = net
    BY <1>1, <1>3 DEF OneServer
  <2> QED
    BY <1>2, <1>3, <1>4, <2>1, CleanQuiet
<1>5. CASE rbuf' = Append(rbuf, q)
  <2>1. /\ rbuf \in Seq(FromServer) /\ Len(rbuf) \in Nat /\ Len(rbuf') = Len(rbuf) + 1
        /\ rbuf'[Len(rbuf) + 1] = q /\ \A i \in 1..Len(rbuf) : rbuf'[i] = rbuf[i]
    BY <1>5 DEF Inv, TypeOK
  <2>2. \A i \in 1..Len(rbuf') : i \in 1..Len(rbuf) \/ i = Len(rbuf) + 1
    BY <2>1
  <2>3. OneServer'
    BY <1>1, <1>2, <1>3 DEF OneServer
  <2>4. Written' = Written
    BY <1>3 DEF Written
  <2>5. Filled'
    BY <1>3, <2>4 DEF Filled, InOrder
  <2>6. \A p : InFlight(p)' => InFlight(p)
    BY <1>1, <1>2, <2>1, <2>2 DEF InFlight
  <2>7. \A p \in FromServer : InFlight(p)' /\ p.type = "DATA" =>
          p.num = srv'[p.tid] /\ p.num \notin Written'
    BY <1>3, <2>4, <2>6 DEF OneCopy
  <2>8. \A p \in net' : p.type = "DATA" => \A i \in 1..Len(rbuf') : rbuf'[i].type # "DATA"
    <3> SUFFICES ASSUME NEW p \in net', p.type = "DATA", NEW i \in 1..Len(rbuf'),
                        rbuf'[i].type = "DATA"
                 PROVE  FALSE
      OBVIOUS
    <3>1. p \in net /\ p # q
      BY <1>2
    <3>2. i = Len(rbuf) + 1
      BY <2>1, <2>2, <3>1 DEF OneCopy
    <3>3. q.type = "DATA"
      BY <2>1, <3>2
    <3>4. p \in FromServer
      BY <3>1 DEF Inv, TypeOK, ToServer
    <3>5. InFlight(p) /\ InFlight(q)
      BY <1>1, <3>1 DEF InFlight
    <3> QED
      BY <1>1, <3>1, <3>3, <3>4, <3>5, SameData
  <2>9. ASSUME NEW i \in 1..Len(rbuf'), NEW j \in 1..Len(rbuf'),
               rbuf'[i].type = "DATA", rbuf'[j].type = "DATA"
        PROVE  i = j
    <3>1. CASE q.type = "DATA"
      <4>1. \A m \in 1..Len(rbuf) : rbuf[m].type # "DATA"
        BY <1>1, <3>1 DEF OneCopy
      <4> QED
        BY <2>1, <2>2, <2>9, <4>1
    <3>2. CASE q.type # "DATA"
      BY <2>1, <2>2, <2>9, <3>2 DEF OneCopy
    <3> QED
      BY <3>1, <3>2
  <2>10. OneCopy'
    BY <2>7, <2>8, <2>9 DEF OneCopy
  <2> QED
    BY <2>3, <2>5, <2>10
<1> QED
  BY <1>1, <1>4, <1>5 DEF UdpArrive

\* A session that has reached block n, all before it being in the file and none under
\* way, sends the block.
LEMMA BlockGoesOut ==
  ASSUME Inv, TypeOK', OneServer, OneCopy, Filled, NEW s \in Sessions, NEW n \in 0..NBlocks,
         \A t \in Sessions : srv[t] # -1 => t = s, srv[s] < n,
         srv' = [srv EXCEPT ![s] = n], file' = file, rbuf' = rbuf,
         \A p \in net' : p \in net \/ p = Reply(s, n),
         \A p \in FromServer : InFlight(p) => p.type # "DATA",
         pc' # "start", Request \notin net'
  PROVE  (OneServer /\ OneCopy /\ Filled)'
<1>1. srv \in [Sessions -> -1..(NBlocks + 1)]
  BY DEF Inv, TypeOK
<1>2. srv'[s] = n /\ \A t \in Sessions : t # s => srv'[t] = srv[t]
  BY <1>1
<1>3. OneServer'
  BY <1>2 DEF OneServer
<1>4. Written' = Written
  BY DEF Written
<1>5. \A b \in Blocks : b \in Written => b <= srv[s]
  <2> SUFFICES ASSUME NEW b \in Blocks, b \in Written PROVE b <= srv[s]
    OBVIOUS
  <2>1. PICK t \in Sessions : b <= srv[t]
    BY DEF Filled
  <2>2. srv[t] # -1
    BY <1>1, <2>1 DEF Blocks
  <2> QED
    BY <2>1, <2>2
<1>6. Filled'
  <2>1. \A b \in Blocks : b \in Written' => b <= srv'[s]
    BY <1>1, <1>2, <1>4, <1>5 DEF Blocks
  <2> QED
    BY <1>4, <2>1 DEF Filled, InOrder
<1>7. n \in Blocks => n \notin Written
  BY <1>1, <1>5 DEF Blocks
<1>8. \A i \in 1..Len(rbuf) : rbuf[i].type # "DATA"
  <2> TAKE i \in 1..Len(rbuf)
  <2>1. rbuf[i] \in FromServer /\ InFlight(rbuf[i])
    BY ElementOfSeq DEF InFlight, Inv, TypeOK
  <2> QED
    BY <2>1
<1>9. \A p \in FromServer : p.type = "DATA" /\ p \in net' => p = Reply(s, n)
  BY DEF InFlight
<1>10. \A p \in FromServer : InFlight(p)' /\ p.type = "DATA" => p = Reply(s, n)
  BY <1>8, <1>9 DEF InFlight
<1>11. \A p \in FromServer : p = Reply(s, n) /\ p.type = "DATA" =>
         p.tid = s /\ p.num = n /\ n \in Blocks
  BY NBlocksAssumption DEF Reply, Pkt, Blocks
<1>12. \A p \in FromServer : InFlight(p)' /\ p.type = "DATA" =>
         p.num = srv'[p.tid] /\ p.num \notin Written'
  BY <1>2, <1>4, <1>7, <1>10, <1>11
<1>13. OneCopy'
  BY <1>8, <1>12 DEF OneCopy
<1> QED
  BY <1>3, <1>6, <1>13

\* The request opens the only session.
LEMMA ServerAcceptClean ==
  ASSUME Inv, TypeOK', OneServer, OneCopy, Filled, NEW s \in Sessions, ServerAccept(s), faults' = faults
  PROVE  (OneServer /\ OneCopy /\ Filled)'
<1>1. PICK n \in {0, 1}, p \in net :
         /\ p.type = "RRQ" /\ Consume(p, {Reply(s, n)}) /\ srv' = [srv EXCEPT ![s] = n]
  BY DEF ServerAccept
<1>2. p = Request
  BY <1>1 DEF Inv, TypeOK, FromServer, ToServer, Request, Pkt
<1>3. \A t \in Sessions : srv[t] = -1
  BY <1>2 DEF OneServer
<1>4. net' = (net \ {Request}) \cup {Reply(s, n)}
  <2>1. faults # faults + 1
    BY DEF Inv, TypeOK
  <2> QED
    BY <1>1, <1>2, <2>1 DEF Consume
<1>5. Request \notin net'
  BY <1>1, <1>4 DEF Request, Reply, Pkt
<1>6. \A q \in FromServer : InFlight(q) => q.type # "DATA"
  <2> SUFFICES ASSUME NEW q \in FromServer, InFlight(q), q.type = "DATA" PROVE FALSE
    OBVIOUS
  <2>1. q.num = -1 /\ q.num \in Blocks
    BY <1>3, PacketShape DEF OneCopy
  <2> QED
    BY <2>1 DEF Blocks
<1>7. pc' # "start" /\ file' = file /\ rbuf' = rbuf
  BY <1>1 DEF ServerAccept, OneServer, clientVars, udpVars
<1>8. n \in 0..NBlocks /\ srv[s] < n
  BY <1>1, <1>3, NBlocksAssumption
<1> QED
  BY <1>1, <1>3, <1>4, <1>5, <1>6, <1>7, <1>8, BlockGoesOut

\* An acknowledgement that is awaited is that of a block in the file: nothing is under
\* way, and the next block goes out.
LEMMA ServerAckClean ==
  ASSUME Inv, TypeOK', OneServer, OneCopy, Filled, NEW s \in Sessions, ServerAck(s), faults' = faults
  PROVE  (OneServer /\ OneCopy /\ Filled)'
<1> DEFINE n == srv[s]
<1>1. n \in 0..NBlocks /\ Pkt("ACK", s, n) \in net
  BY DEF ServerAck, Inv, TypeOK
<1>2. \A t \in Sessions : srv[t] # -1 => t = s
  BY <1>1 DEF OneServer
<1>3. Request \notin net /\ pc # "start"
  BY <1>1 DEF OneServer
<1>4. n \in Blocks => n \in Written
  BY <1>1 DEF Inv, AckStored, Pkt
<1>5. \A q \in FromServer : InFlight(q) => q.type # "DATA"
  <2> SUFFICES ASSUME NEW q \in FromServer, InFlight(q), q.type = "DATA" PROVE FALSE
    OBVIOUS
  <2>1. q.num \in Blocks /\ q.tid \in Sessions /\ q.num = srv[q.tid] /\ q.num \notin Written
    BY PacketShape DEF OneCopy
  <2>2. q.tid = s
    BY <1>2, <2>1 DEF Blocks
  <2> QED
    BY <1>4, <2>1, <2>2
<1>6. pc' = pc /\ file' = file /\ rbuf' = rbuf /\ srv' = [srv EXCEPT ![s] = n + 1]
  BY DEF ServerAck, clientVars, udpVars
<1>7. faults # faults + 1
  BY DEF Inv, TypeOK
<1>8. CASE n < NBlocks
  <2>1. net' = (net \ {Pkt("ACK", s, n)}) \cup {Reply(s, n + 1)}
    BY <1>7, <1>8 DEF ServerAck, Consume
  <2>2. Request \notin net'
    BY <1>1, <1>3, <2>1 DEF Reply, Request, Pkt
  <2>3. n + 1 \in 0..NBlocks /\ n < n + 1
    BY <1>1, <1>8, NBlocksAssumption
  <2> QED
    BY <1>2, <1>3, <1>5, <1>6, <2>1, <2>2, <2>3, BlockGoesOut
<1>9. CASE ~(n < NBlocks)
  <2>1. net' = net \ {Pkt("ACK", s, n)}
    BY <1>7, <1>9 DEF ServerAck, Consume
  <2>2. srv'[s] = n + 1 /\ \A t \in Sessions : t # s => srv'[t] = srv[t]
    BY <1>6 DEF Inv, TypeOK
  <2>3. OneServer'
    BY <1>2, <1>3, <1>6, <2>1, <2>2 DEF OneServer
  <2>4. Written' = Written
    BY <1>6 DEF Written
  <2>5. Filled'
    <3>1. ASSUME NEW b \in Blocks, b \in Written
          PROVE  \E t \in Sessions : b <= srv'[t]
      <4>1. PICK t \in Sessions : b <= srv[t]
        BY <3>1 DEF Filled
      <4>2. CASE t = s
        <5>1. b <= n + 1
          BY <1>1, <4>1, <4>2 DEF Blocks
        <5> QED
          BY <2>2, <5>1
      <4>3. CASE t # s
        BY <2>2, <4>1, <4>3
      <4> QED
        BY <4>2, <4>3
    <3> QED
      BY <1>6, <2>4, <3>1 DEF Filled, InOrder
  <2>6. \A p \in FromServer : InFlight(p)' => InFlight(p)
    BY <1>6, <2>1 DEF InFlight
  <2>7. OneCopy'
    BY <1>5, <1>6, <2>1, <2>6 DEF OneCopy
  <2> QED
    BY <2>3, <2>5, <2>7
<1> QED
  BY <1>8, <1>9

\* Every step keeps a clean network clean.
LEMMA NextClean ==
  ASSUME Inv, Inv', CleanInv, [Next]_vars
  PROVE  CleanInv'
<1> SUFFICES ASSUME faults' = 0 PROVE (OneServer /\ OneCopy /\ Filled)'
  BY DEF CleanInv
<1>1. faults = 0 /\ OneServer /\ OneCopy /\ Filled
  BY FaultsStay DEF CleanInv
<1>2. faults' = faults /\ TypeOK /\ TypeOK'
  BY <1>1 DEF Inv
<1>3. CASE RecvData
  BY <1>1, <1>3, RecvDataClean
<1>4. CASE RecvOack
  <2>1. /\ srv' = srv /\ file' = Append(file, OptText) /\ rbuf # <<>> /\ rbuf' = Tail(rbuf)
        /\ net' = net \cup {Pkt("ACK", peer', 0)} /\ pc' = pc /\ pc = "loop"
    BY <1>4 DEF RecvOack, Take, NextPacket, NetUdpRecvfrom, serverVars
  <2>2. Filled'
    BY <1>1, <2>1, FilledByOption
  <2>3. Written' = Written \cup {OptText}
    BY <1>2, <2>1, WrittenAppend
  <2>4. OptText \notin Blocks
    BY OptionNoBlock
  <2>5. \A i \in 1..Len(rbuf') : i + 1 \in 1..Len(rbuf) /\ rbuf'[i] = rbuf[i + 1]
    BY <1>2, <2>1 DEF TypeOK
  <2>6. \A p \in net' : p.type = "DATA" => p \in net
    BY <2>1 DEF Pkt
  <2>7. \A p \in FromServer : InFlight(p)' /\ p.type = "DATA" =>
          p.num = srv'[p.tid] /\ p.num \notin Written'
    <3>1. \A p \in FromServer : InFlight(p)' /\ p.type = "DATA" => InFlight(p)
      BY <2>5, <2>6 DEF InFlight
    <3> QED
      BY <1>1, <2>1, <2>3, <2>4, <3>1, PacketShape DEF OneCopy
  <2>8. ASSUME NEW i \in 1..Len(rbuf'), NEW j \in 1..Len(rbuf'),
               rbuf'[i].type = "DATA", rbuf'[j].type = "DATA"
        PROVE  i = j
    <3>1. i + 1 = j + 1
      BY <1>1, <2>5, <2>8, SMTT(40) DEF OneCopy
    <3> QED
      BY <3>1
  <2>9. OneCopy'
    <3>1. \A p \in net' : p.type = "DATA" => \A i \in 1..Len(rbuf') : rbuf'[i].type # "DATA"
      BY <1>1, <2>5, <2>6 DEF OneCopy
    <3> QED
      BY <2>7, <2>8, <3>1 DEF OneCopy
  <2>10. OneServer'
    BY <1>1, <2>1 DEF OneServer, Request, Pkt
  <2> QED
    BY <2>2, <2>9, <2>10
<1>5. CASE SendRequest
  <2>1. /\ srv' = srv /\ file' = file /\ pc' = "sent" /\ pc = "start" /\ rbuf' = <<>>
        /\ net' = net \cup {Request}
    BY <1>5 DEF SendRequest, NetUdpOpen, serverVars, Request
  <2>2. OneServer' /\ net = {}
    BY <1>1, <2>1 DEF OneServer
  <2>3. Written' = Written
    BY <2>1 DEF Written
  <2>4. Filled'
    BY <1>1, <2>1, <2>3 DEF Filled, InOrder
  <2>5. \A p \in net' : p.type # "DATA"
    BY <2>1, <2>2 DEF Request, Pkt
  <2>6. OneCopy'
    BY <2>1, <2>5 DEF OneCopy, InFlight
  <2> QED
    BY <2>2, <2>4, <2>6
<1>6. CASE Arrive
  BY <1>1, <1>2, <1>6, ArriveClean
<1>7. CASE ServerAnswer
  BY <1>1, <1>2, <1>7, ServerAcceptClean, ServerAckClean DEF ServerAnswer
<1>8. CASE Stray \/ \E s \in Sessions : ServerRetransmit(s)
  BY <1>1, <1>2, <1>8 DEF Stray, ServerRetransmit
<1>9. CASE \/ OpenFails \/ CloseRequestHandle \/ Rebind \/ RecvError \/ RecvRunt
           \/ RereadData \/ RereadOack \/ TooManyRetries \/ ResendAck \/ Escape \/ Tick
  <2>1. srv' = srv /\ file' = file /\ pc' # "start"
    BY <1>1, <1>9 DEF OpenFails, CloseRequestHandle, Rebind, RecvError, RecvRunt,
         RereadData, RereadOack, Reread, NextPacket, TooManyRetries, ResendAck, Escape, Tick,
         EndLoop, NoData, Take, serverVars
  <2>2. \A p \in net' : p.type \in {"DATA", "RRQ"} => p \in net
    BY <1>9 DEF OpenFails, CloseRequestHandle, Rebind, RecvError, RecvRunt,
         RereadData, RereadOack, Reread, TooManyRetries, ResendAck, Escape, Tick, Pkt
  <2>3. rbuf' = rbuf \/ rbuf' = <<>> \/ (rbuf # <<>> /\ rbuf' = Tail(rbuf))
    BY <1>9 DEF OpenFails, CloseRequestHandle, Rebind, RecvError, RecvRunt,
         RereadData, RereadOack, TooManyRetries, ResendAck, Escape, Tick, EndLoop, NextPacket,
         NetUdpOpen, NetUdpClose, NetUdpRecvfrom, udpVars
  <2> QED
    BY <1>1, <2>1, <2>2, <2>3, CleanQuiet
<1>10. CASE \E s \in Sessions : ServerGiveUp(s)
  <2>1. PICK s \in Sessions : ServerGiveUp(s)
    BY <1>10
  <2>2. srv' = srv /\ file' = file /\ rbuf' = rbuf /\ pc' = pc
    BY <2>1 DEF ServerGiveUp, udpVars, clientVars
  <2>3. \A p \in net' : p.type \in {"DATA", "RRQ"} => p \in net
    BY <2>1 DEF ServerGiveUp, Pkt
  <2>4. pc # "start"
    <3>1. srv[s] \in 0..NBlocks
      BY <1>2, <2>1 DEF ServerGiveUp, TypeOK
    <3> QED
      BY <1>1, <3>1 DEF OneServer
  <2> QED
    BY <1>1, <2>2, <2>3, <2>4, CleanQuiet
<1>11. CASE UNCHANGED vars
  BY <1>1, <1>11, CleanQuiet DEF vars, udpVars, clientVars, serverVars
<1> QED
  BY <1>3, <1>4, <1>5, <1>6, <1>7, <1>8, <1>9, <1>10, <1>11
  DEF Next, Client, Server, Terminated

\* Before the request nothing is under way.
LEMMA InitClean == ASSUME Init PROVE CleanInv
<1>1. Len(file) = 0 /\ Len(rbuf) = 0 /\ net = {} /\ Written = {}
  BY DEF Init, Written
<1>2. OneServer
  BY DEF Init, OneServer
<1>3. OneCopy
  BY <1>1 DEF OneCopy, InFlight
<1>4. CountIn(file, Blocks, Len(file)) = 0
  BY <1>1, CountStep
<1>5. Filled
  BY <1>1, <1>4 DEF Filled, InOrder
<1> QED
  BY <1>2, <1>3, <1>5 DEF CleanInv

\* Datagrams that are lost, delayed or overtaken never put a block into the file twice
\* or out of its place, though tftp_recv appends whatever comes (line 445): only a
\* duplicate or a retransmission can.
THEOREM CleanNetworkHolds == Spec => []CleanNetworkExactBlocks
<1>1. Init => CleanInv
  BY InitClean
<1>2. Inv /\ Inv' /\ CleanInv /\ [Next]_vars => CleanInv'
  BY NextClean
<1>3. CleanInv => CleanNetworkExactBlocks
  BY DEF CleanInv, Filled, InOrder, CleanNetworkExactBlocks
<1> QED
  BY <1>1, <1>2, <1>3, InvHolds, PTL DEF Spec

----------------------------------------------------------------------------
(* TftpRecv implements FileFetch.                                         *)

have == Written \ {OptText}
status == IF pc # "end" THEN "running"
          ELSE IF result = 0 /\ cut = "no" THEN "complete" ELSE "failed"

\* The initial state of tftp_recv is that of the abstract transfer.
LEMMA FetchInitially == Init => Fetch!FetchInit
<1> SUFFICES ASSUME Init PROVE Fetch!FetchInit
  OBVIOUS
<1>1. Written = {} /\ pc = "start"
  BY DEF Init, Written
<1>2. QED
  BY <1>1 DEF Fetch!FetchInit

\* A step that neither writes nor returns is a stuttering step.
LEMMA FetchStutters ==
  ASSUME Written' = Written \/ Written' = Written \cup {OptText},
         \/ pc' = pc /\ result' = result /\ cut' = cut
         \/ pc # "end" /\ pc' # "end"
  PROVE  UNCHANGED <<have, status>>
  BY DEF have, status

\* Every step of tftp_recv is Store, Fail or nothing to the abstract transfer.
LEMMA FetchStep == Inv /\ [Next]_vars => [Fetch!FetchNext]_<<have, status>>
<1> SUFFICES ASSUME Inv, [Next]_vars PROVE Fetch!FetchNext \/ UNCHANGED <<have, status>>
  OBVIOUS
<1>1. TypeOK /\ Running
  BY DEF Inv
<1>2. CASE RecvData
  <2> DEFINE n == Head(rbuf).num
  <2>1. n \in 1..NBlocks /\ \A b \in 1..(n - 1) : b \in Written
    BY <1>2, DataFollows DEF RecvData, Take, Blocks
  <2>2. Written' = Written \cup {n}
    BY <1>1, <1>2, WrittenAppend DEF RecvData, Stored
  <2>3. \A b \in 1..n : b # OptText
    BY <2>1, OptTextAssumption, NBlocksAssumption
  <2>4. have' = have \cup {n} /\ \A b \in 1..(n - 1) : b \in have
    BY <2>1, <2>2, <2>3 DEF have
  <2>5. pc = "loop" /\ result = 0 /\ cut = "no" /\ cut' = "no"
    BY <1>1, <1>2 DEF RecvData, Take, Running
  <2>6. status = "running"
    BY <2>5 DEF status
  <2>7. status' = IF n = NBlocks THEN "complete" ELSE "running"
    <3>1. CASE n = NBlocks
      BY <1>2, <2>5, <3>1 DEF RecvData, EndsTransfer, EndLoop, status
    <3>2. CASE n # NBlocks
      BY <1>2, <2>5, <3>2 DEF RecvData, EndsTransfer, NextPacket, status
    <3>3. QED
      BY <3>1, <3>2
  <2>8. Fetch!Store(n)
    BY <2>4, <2>6, <2>7 DEF Fetch!Store, have, status
  <2>9. QED
    BY <2>1, <2>8 DEF Fetch!FetchNext
<1>3. CASE RecvOack
  <2>1. Written' = Written \cup {OptText}
    BY <1>1, <1>3, WrittenAppend DEF RecvOack
  <2>2. pc' = pc /\ result' = result /\ cut' = cut
    BY <1>3 DEF RecvOack, NextPacket
  <2>3. QED
    BY <2>1, <2>2, FetchStutters
<1>4. CASE OpenFails \/ RecvError \/ RecvRunt \/ RereadData \/ Escape \/ TooManyRetries
  <2>1. Written' = Written
    BY <1>4 DEF OpenFails, RecvError, RecvRunt, RereadData, Reread, Escape, TooManyRetries,
                Written
  <2>2. pc # "end" /\ pc' = "end" /\ (result' = -1 \/ cut' # "no")
    BY <1>4 DEF OpenFails, RecvError, RecvRunt, RereadData, Reread, Escape, TooManyRetries,
                Take, EndLoop, NoData
  <2>3. have' = have /\ status = "running" /\ status' = "failed"
    BY <2>1, <2>2 DEF have, status
  <2>4. Fetch!Fail
    BY <2>3 DEF Fetch!Fail, have, status
  <2>5. QED
    BY <2>4 DEF Fetch!FetchNext
<1>5. CASE Rebind
  <2>1. Written' = Written /\ pc = "rebind" /\ cut' = cut
    BY <1>5 DEF Rebind, Written
  <2>2. CASE pc' = "loop"
    BY <2>1, <2>2, FetchStutters
  <2>3. CASE pc' = "end" /\ result' = -1
    <3>1. have' = have /\ status = "running" /\ status' = "failed"
      BY <2>1, <2>3 DEF have, status
    <3>2. Fetch!Fail
      BY <3>1 DEF Fetch!Fail, have, status
    <3>3. QED
      BY <3>2 DEF Fetch!FetchNext
  <2>4. QED
    BY <1>5, <2>2, <2>3 DEF Rebind
<1>6. CASE SendRequest \/ CloseRequestHandle \/ RereadOack \/ ResendAck \/ Tick
  <2>1. Written' = Written
    BY <1>6 DEF SendRequest, CloseRequestHandle, RereadOack, Reread, ResendAck, Tick, Written
  <2>2. pc # "end" /\ pc' # "end"
    BY <1>6 DEF SendRequest, CloseRequestHandle, RereadOack, Reread, NextPacket, ResendAck,
                Tick, NoData
  <2>3. QED
    BY <2>1, <2>2, FetchStutters
<1>7. CASE Arrive \/ Stray \/ Server \/ UNCHANGED vars
  <2>1. UNCHANGED clientVars
    BY <1>7 DEF Arrive, Stray, Server, ServerAnswer, ServerAccept, ServerAck,
                ServerRetransmit, ServerGiveUp, vars
  <2>2. Written' = Written /\ pc' = pc /\ result' = result /\ cut' = cut
    BY <2>1 DEF clientVars, Written
  <2>3. QED
    BY <2>2, FetchStutters
<1>8. QED
  BY <1>2, <1>3, <1>4, <1>5, <1>6, <1>7 DEF Next, Client, Terminated

\* Success is reported only with every block stored, each after the ones
\* before it: tftp_recv implements FileFetch.
THEOREM FetchRefined == Spec => ImplementsFetch
  BY FetchInitially, FetchStep, InvHolds, PTL
     DEF Spec, ImplementsFetch, Fetch!FetchSpec, have, status
=============================================================================
