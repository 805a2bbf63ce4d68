--------------------------- MODULE TftpSendProofs ---------------------------
(***************************************************************************)
(* For every file length and every set of sessions: the type invariant of  *)
(* TftpSend, LockStep, OneSession and SuccessMeansStored.                  *)
(***************************************************************************)
EXTENDS TftpSend, TLAPS

(* The strengthening.  An acknowledgement vouches for a block only if its  *)
(* session has stored it (AckedIsStored); a session has stored a block     *)
(* only if that block was sent to it (StoredWasSent), or is new; no block  *)
(* above blknum was ever sent (SentUpToBlknum), which is why the ACK of    *)
(* blknum can come only from the session that blknum went to.              *)

Sent(s, n) == Pkt("DATA", s, n) \in msgs

AckedIsStored ==
  \A p \in msgs : p.type = "ACK" => p.num <= srv[p.tid]

\* What waits in the receive buffer was sent.
RbufWasSent == \A i \in 1..Len(rbuf) : rbuf[i] \in msgs

StoredWasSent == \A s \in Sessions : srv[s] > 0 => Sent(s, srv[s])

SentUpToBlknum == \A p \in msgs : p.type = "DATA" => p.num <= blknum

\* Before the first block nothing was sent; after it the function is past its
\* request and has read something.
Phases ==
  /\ blknum = 0 <=> readbytes = "unset"
  /\ readbytes \in {"unset", "full"} /\ pc = "wait" => blknum < NBlocks
  /\ pc \in {"start", "sent", "rebind"} => blknum = 0
  /\ pc = "wait" => readbytes \in {"unset", "full"}
  /\ pc = "lastwait" => readbytes = "unset" \/ blknum = NBlocks

Inv ==
  /\ TypeOK
  /\ LockStep
  /\ OneSession
  /\ SuccessMeansStored
  /\ AckedIsStored
  /\ RbufWasSent
  /\ StoredWasSent
  /\ SentUpToBlknum
  /\ Phases

----------------------------------------------------------------------------
(* Types.                                                                 *)

\* The initial state satisfies the type invariant.
LEMMA InitTypeOK == Init => TypeOK
<1> SUFFICES ASSUME Init PROVE TypeOK
  OBVIOUS
<1>1. rbuf = <<>> /\ rbuf \in Seq(FromServer) /\ Len(rbuf) <= RbufMax
  BY RbufMaxAssumption DEF Init
<1>2. blknum \in 0..NBlocks /\ srv \in [Sessions -> -1..NBlocks]
  BY NBlocksAssumption DEF Init
<1>3. QED
  BY <1>1, <1>2 DEF Init, TypeOK, HandleKinds

\* The head and the rest of the receive buffer stay in its type.
LEMMA RbufParts ==
  ASSUME TypeOK, rbuf # <<>>
  PROVE  /\ Head(rbuf) \in FromServer
         /\ Tail(rbuf) \in Seq(FromServer)
         /\ Len(Tail(rbuf)) <= RbufMax
  BY RbufMaxAssumption DEF TypeOK

\* What a datagram from the server side can be.
LEMMA PacketShape ==
  ASSUME NEW p \in FromServer
  PROVE  /\ p.tid \in Sessions \cup {"stray"}
         /\ p.type # "DATA"
         /\ p.type = "ACK" => p.num \in 0..NBlocks /\ p.tid \in Sessions
         /\ p.type = "OACK" => p.num = OptText
  BY DEF FromServer

\* The datagrams that carry a block number.
LEMMA NumberedShape ==
  ASSUME NEW p \in FromServer \cup ToServer, p.type \in {"DATA", "ACK"}
  PROVE  p.tid \in Sessions /\ p.num \in 0..NBlocks
<1>1. CASE p \in FromServer
  BY <1>1, PacketShape
<1>2. CASE p \in ToServer
  BY <1>2, NBlocksAssumption DEF ToServer, Blocks
<1>3. QED
  BY <1>1, <1>2

\* Reading a datagram, or none, and returning or going on keep the types.
LEMMA WaitType ==
  ASSUME TypeOK,
         (\E o : Answer(o)) \/ Escape,
         (\E r \in {-1, 0} : Return(r)) \/ (\E n \in {"wait", "lastwait"} : GoOn(n))
  PROVE  /\ pc' \in {"start", "sent", "rebind", "wait", "lastwait", "end"}
         /\ handle' \in HandleKinds
         /\ rbuf' \in Seq(FromServer) /\ Len(rbuf') <= RbufMax
         /\ peer' \in Sessions \cup {"stray"}
         /\ result' \in {-1, 0}
<1>1. peer' \in Sessions \cup {"stray"}
  BY RbufParts, PacketShape DEF Answer, Escape, TypeOK
<1>2. CASE \E r \in {-1, 0} : Return(r)
  BY <1>1, <1>2, RbufMaxAssumption DEF Return, NetUdpClose, HandleKinds
<1>3. CASE \E n \in {"wait", "lastwait"} : GoOn(n)
  BY <1>1, <1>3, RbufParts, RbufMaxAssumption DEF GoOn, TypeOK
<1>4. QED
  BY <1>2, <1>3

\* An accepted answer is the acknowledgement of blknum by its sender.
LEMMA AckedAnswer ==
  ASSUME TypeOK, Answer("acked")
  PROVE  /\ Head(rbuf).type = "ACK" /\ Head(rbuf).num = blknum
         /\ peer' = Head(rbuf).tid /\ peer' \in Sessions
         /\ Head(rbuf) \in FromServer /\ Len(rbuf) \in Nat /\ Len(rbuf) >= 1
         /\ Head(rbuf) = rbuf[1]
<1>1. /\ rbuf # <<>> /\ Head(rbuf) \in FromServer /\ Len(rbuf) >= 1
      /\ Len(rbuf) \in Nat /\ Head(rbuf) = rbuf[1]
  BY DEF Answer, TypeOK
<1>2. Head(rbuf).type \in {"ACK", "OACK"} /\ Head(rbuf).num = blknum
  BY DEF Answer, Outcome
<1>3. Head(rbuf).type # "OACK"
  BY <1>1, <1>2, PacketShape, OptTextAssumption, NBlocksAssumption DEF TypeOK
<1>4. QED
  BY <1>1, <1>2, <1>3, PacketShape DEF Answer

\* Every step preserves the type invariant.
LEMMA NextTypeOK == TypeOK /\ Phases /\ [Next]_vars => TypeOK'
<1> SUFFICES ASSUME TypeOK, Phases, [Next]_vars PROVE TypeOK'
  OBVIOUS
<1> USE RbufMaxAssumption, NBlocksAssumption
<1>1. CASE OpenFails
  BY <1>1 DEF OpenFails, TypeOK, udpVars, serverVars
<1>2. CASE SendRequest
  <2>1. Pkt("WRQ", Service, 0) \in ToServer
    BY DEF Pkt, ToServer
  <2>2. QED
    BY <1>2, <2>1 DEF SendRequest, NetUdpOpen, HandleKinds, TypeOK, serverVars
<1>3. CASE CloseRequestHandle
  BY <1>3 DEF CloseRequestHandle, NetUdpClose, HandleKinds, TypeOK, serverVars
<1>4. CASE Rebind
  <2>1. CASE NetUdpOpen("any") /\ pc' = "wait" /\ UNCHANGED result
    BY <1>4, <2>1 DEF Rebind, NetUdpOpen, HandleKinds, TypeOK, serverVars
  <2>2. CASE pc' = "end" /\ result' = -1 /\ UNCHANGED udpVars
    BY <1>4, <2>2 DEF Rebind, TypeOK, udpVars, serverVars
  <2>3. QED
    BY <1>4, <2>1, <2>2 DEF Rebind
<1>5. CASE SkipAck
  <2>1. GoOn("wait") \/ GoOn("lastwait")
    BY <1>5 DEF SkipAck
  <2>2. QED
    BY <1>5, <2>1, WaitType DEF SkipAck, TypeOK, serverVars
<1>6. CASE SendBlock
  <2>1. blknum < NBlocks
    BY <1>6 DEF SendBlock, Phases
  <2>2. peer' \in Sessions /\ blknum' \in Blocks
    BY <1>6, <2>1, AckedAnswer DEF SendBlock, TypeOK, Blocks
  <2>3. Pkt("DATA", peer', blknum') \in ToServer
    BY <2>2 DEF Pkt, ToServer
  <2>4. (\E r \in {-1, 0} : Return(r)) \/ (\E n \in {"wait", "lastwait"} : GoOn(n))
    BY <1>6 DEF SendBlock, ResultOfShort
  <2>5. readbytes' \in {"unset", "full", "short", "empty"}
    BY <1>6 DEF SendBlock, Fread, TypeOK
  <2>6. QED
    BY <1>6, <2>2, <2>3, <2>4, <2>5, WaitType DEF SendBlock, TypeOK, Blocks, serverVars
<1>7. CASE WaitFails
  BY <1>7, WaitType DEF WaitFails, TypeOK, serverVars
<1>8. CASE LastWait
  BY <1>8, WaitType DEF LastWait, TypeOK, serverVars
<1>9. CASE Arrive
  <2>1. rbuf' \in Seq(FromServer) /\ Len(rbuf') <= RbufMax /\ handle' = handle
    BY <1>9 DEF Arrive, UdpArrive, TypeOK
  <2>2. QED
    BY <1>9, <2>1 DEF Arrive, TypeOK, clientVars, serverVars
<1>10. CASE Stray
  <2>1. \A t \in {"UNKNOWN", "RUNT"} : Pkt(t, "stray", 0) \in FromServer
    BY DEF Pkt, FromServer
  <2>2. QED
    BY <1>10, <2>1 DEF Stray, TypeOK, udpVars, clientVars, serverVars
<1>11. ASSUME NEW s \in Sessions, ServerAccept(s) PROVE TypeOK'
  <2>1. Pkt("OACK", s, OptText) \in FromServer /\ Pkt("ACK", s, 0) \in FromServer
    BY DEF Pkt, FromServer
  <2>2. QED
    BY <1>11, <2>1 DEF ServerAccept, TypeOK, udpVars, clientVars
<1>12. ASSUME NEW s \in Sessions, ServerStore(s) PROVE TypeOK'
  <2>1. Pkt("DATA", s, srv[s] + 1) \in ToServer \cup FromServer
    BY <1>12 DEF ServerStore, TypeOK
  <2>2. srv[s] + 1 \in Blocks
    BY <2>1 DEF Pkt, ToServer, FromServer
  <2>3. Pkt("ACK", s, srv[s] + 1) \in FromServer
    BY <2>2 DEF Pkt, FromServer, Blocks
  <2>4. srv' \in [Sessions -> -1..NBlocks] /\ srv'[s] # -1
        /\ \A t \in Sessions : t # s => srv'[t] = srv[t]
    BY <1>12, <2>2 DEF ServerStore, TypeOK, Blocks
  <2>5. alive' \subseteq Sessions /\ \A t \in alive' : srv'[t] # -1
    BY <1>12, <2>4 DEF ServerStore, TypeOK
  <2>6. msgs' \subseteq FromServer \cup ToServer
    BY <1>12, <2>3 DEF ServerStore, TypeOK
  <2>7. UNCHANGED <<handle, rbuf, pc, peer, blknum, readbytes, result, last>>
    BY <1>12 DEF ServerStore, udpVars, clientVars
  <2>8. QED
    BY <2>4, <2>5, <2>6, <2>7 DEF TypeOK
<1>13. ASSUME NEW s \in Sessions, ServerGiveUp(s) PROVE TypeOK'
  <2>1. Pkt("ERROR", s, 0) \in FromServer
    BY DEF Pkt, FromServer
  <2>2. QED
    BY <1>13, <2>1 DEF ServerGiveUp, TypeOK, udpVars, clientVars
<1>14. CASE UNCHANGED vars
  BY <1>14 DEF vars, TypeOK, udpVars, clientVars, serverVars
<1>15. QED
  BY <1>1, <1>2, <1>3, <1>4, <1>5, <1>6, <1>7, <1>8, <1>9, <1>10, <1>11, <1>12,
     <1>13, <1>14 DEF Next, Client, Server, Terminated

----------------------------------------------------------------------------
(* The lock step.                                                         *)

\* The initial state satisfies the invariant.
LEMMA InitInv == Init => Inv
<1> SUFFICES ASSUME Init PROVE Inv
  OBVIOUS
<1>1. TypeOK
  BY InitTypeOK
<1>2. msgs = {} /\ Len(rbuf) = 0 /\ pc = "start" /\ blknum = 0 /\ readbytes = "unset"
  BY DEF Init
<1>3. LockStep /\ OneSession /\ AckedIsStored /\ RbufWasSent /\ SentUpToBlknum
  BY <1>2 DEF LockStep, OneSession, AckedIsStored, RbufWasSent, SentUpToBlknum
<1>4. SuccessMeansStored /\ StoredWasSent
  BY DEF Init, SuccessMeansStored, StoredWasSent
<1>5. Phases
  BY <1>2, NBlocksAssumption DEF Phases
<1>6. QED
  BY <1>1, <1>3, <1>4, <1>5 DEF Inv

\* A step that changes no session and sends neither blocks nor ACKs keeps the
\* lock step.
LEMMA QuietStep ==
  ASSUME Inv, TypeOK', srv' = srv, blknum' = blknum,
         msgs \subseteq msgs',
         \A p \in msgs' : p \in msgs \/ p.type \notin {"DATA", "ACK"},
         RbufWasSent', Phases', SuccessMeansStored'
  PROVE  Inv'
<1>1. LockStep' /\ OneSession'
  BY DEF Inv, LockStep, OneSession
<1>2. AckedIsStored' /\ SentUpToBlknum'
  BY DEF Inv, AckedIsStored, SentUpToBlknum
<1>3. StoredWasSent'
  BY DEF Inv, StoredWasSent, Sent
<1>4. QED
  BY <1>1, <1>2, <1>3 DEF Inv

\* What is left in the receive buffer after a read was sent too.
LEMMA RbufRead ==
  ASSUME TypeOK, RbufWasSent, msgs \subseteq msgs',
         rbuf' = rbuf \/ rbuf' = <<>> \/ (rbuf # <<>> /\ rbuf' = Tail(rbuf))
  PROVE  RbufWasSent'
<1>1. CASE rbuf' = rbuf
  BY <1>1 DEF RbufWasSent
<1>2. CASE rbuf' = <<>>
  BY <1>2 DEF RbufWasSent
<1>3. CASE rbuf # <<>> /\ rbuf' = Tail(rbuf)
  <2>1. /\ Len(rbuf) \in Nat /\ Len(rbuf') = Len(rbuf) - 1
        /\ \A i \in 1..Len(rbuf') : rbuf'[i] = rbuf[i + 1]
    BY <1>3 DEF TypeOK
  <2>2. QED
    BY <2>1 DEF RbufWasSent
<1>4. QED
  BY <1>1, <1>2, <1>3

\* An accepted answer comes from a session that has stored blknum.
LEMMA AckedIsBlknum ==
  ASSUME Inv, Answer("acked")
  PROVE  peer' \in Sessions /\ blknum <= srv[peer'] /\ srv[peer'] \in -1..NBlocks
<1>1. /\ Head(rbuf).type = "ACK" /\ Head(rbuf).num = blknum
      /\ peer' = Head(rbuf).tid /\ peer' \in Sessions
      /\ Len(rbuf) \in Nat /\ Len(rbuf) >= 1 /\ Head(rbuf) = rbuf[1]
  BY AckedAnswer DEF Inv
<1>2. Head(rbuf) \in msgs
  BY <1>1 DEF Inv, RbufWasSent
<1>3. QED
  BY <1>1, <1>2 DEF Inv, AckedIsStored, TypeOK

\* The request, skipped answers and failures.
LEMMA ClientQuietInv ==
  ASSUME Inv, TypeOK',
         \/ OpenFails \/ SendRequest \/ CloseRequestHandle \/ Rebind
         \/ SkipAck \/ WaitFails
  PROVE  Inv'
<1>1. srv' = srv /\ blknum' = blknum /\ readbytes' = readbytes
  BY DEF OpenFails, SendRequest, CloseRequestHandle, Rebind, SkipAck, WaitFails, serverVars
<1>2. /\ msgs \subseteq msgs'
      /\ \A p \in msgs' : p \in msgs \/ p.type \notin {"DATA", "ACK"}
  BY DEF OpenFails, SendRequest, CloseRequestHandle, Rebind, SkipAck, WaitFails, Pkt
<1>3. rbuf' = rbuf \/ rbuf' = <<>> \/ (rbuf # <<>> /\ rbuf' = Tail(rbuf))
  BY DEF OpenFails, SendRequest, CloseRequestHandle, Rebind, SkipAck, WaitFails, udpVars,
         NetUdpOpen, NetUdpClose, GoOn, Return
<1>4. RbufWasSent'
  BY <1>2, <1>3, RbufRead DEF Inv
<1>5. Phases' /\ SuccessMeansStored'
  <2>1. Phases
    BY DEF Inv
  <2>2. CASE OpenFails \/ SendRequest \/ CloseRequestHandle \/ Rebind
    <3>1. /\ pc \in {"start", "sent", "rebind"}
          /\ pc' \in {"sent", "rebind", "wait", "end"}
          /\ pc' = "end" => result' = -1
      BY <2>2 DEF OpenFails, SendRequest, CloseRequestHandle, Rebind
    <3>2. QED
      BY <1>1, <2>1, <3>1, NBlocksAssumption DEF Phases, SuccessMeansStored
  <2>3. CASE SkipAck
    <3>1. pc' = pc /\ pc # "end"
      BY <2>3 DEF SkipAck, GoOn
    <3>2. QED
      BY <1>1, <2>1, <3>1 DEF Phases, SuccessMeansStored
  <2>4. CASE WaitFails
    <3>1. \/ pc' = "end" /\ result' = -1
          \/ pc' = "lastwait" /\ readbytes = "unset"
      BY <2>4 DEF WaitFails, Return, GoOn
    <3>2. QED
      BY <1>1, <2>1, <3>1 DEF Phases, SuccessMeansStored
  <2>5. QED
    BY <2>2, <2>3, <2>4
<1>6. QED
  BY <1>1, <1>2, <1>4, <1>5, QuietStep

\* The next block goes to the session that has all before it.
LEMMA SendBlockInv ==
  ASSUME Inv, TypeOK', SendBlock
  PROVE  Inv'
<1> DEFINE s == peer'
           d == Pkt("DATA", s, blknum + 1)
<1>1. s \in Sessions /\ blknum <= srv[s] /\ srv[s] \in -1..NBlocks
  BY AckedIsBlknum DEF SendBlock
<1>2. /\ msgs' = msgs \cup {d} /\ srv' = srv /\ blknum' = blknum + 1
      /\ d.type = "DATA" /\ d.tid = s /\ d.num = blknum + 1
      /\ blknum \in 0..NBlocks
  BY DEF SendBlock, Pkt, serverVars, Inv, TypeOK
<1>3. LockStep'
  BY <1>1, <1>2 DEF Inv, LockStep
<1>4. \A p \in msgs : p.type = "DATA" => p.tid = s
  <2> SUFFICES ASSUME NEW p \in msgs, p.type = "DATA" PROVE p.tid = s
    OBVIOUS
  <2>1. p.num \in Blocks /\ p.num <= blknum
    <3>1. p \in FromServer \cup ToServer
      BY DEF Inv, TypeOK
    <3>2. p.num \in Blocks
      BY <3>1 DEF FromServer, ToServer
    <3>3. QED
      BY <3>2 DEF Inv, SentUpToBlknum
  <2>2. srv[s] > 0
    BY <1>1, <1>2, <2>1 DEF Blocks
  <2>3. Pkt("DATA", s, srv[s]) \in msgs
    BY <1>1, <2>2 DEF Inv, StoredWasSent, Sent
  <2>4. QED
    BY <2>3 DEF Inv, OneSession, Pkt
<1>5. OneSession'
  BY <1>2, <1>4 DEF Inv, OneSession
<1>6. AckedIsStored' /\ StoredWasSent'
  BY <1>2 DEF Inv, AckedIsStored, StoredWasSent, Sent
<1>7. SentUpToBlknum'
  <2> SUFFICES ASSUME NEW p \in msgs', p.type = "DATA" PROVE p.num <= blknum + 1
    BY <1>2 DEF SentUpToBlknum
  <2>1. CASE p = d
    BY <1>2, <2>1
  <2>2. CASE p \in msgs
    <3>1. p \in FromServer \cup ToServer
      BY <2>2 DEF Inv, TypeOK
    <3>2. p.num \in Blocks /\ p.num <= blknum
      BY <2>2, <3>1 DEF FromServer, ToServer, Inv, SentUpToBlknum
    <3>3. QED
      BY <1>2, <3>2 DEF Blocks
  <2>3. QED
    BY <1>2, <2>1, <2>2
<1>8. RbufWasSent'
  <2>1. rbuf' = rbuf \/ rbuf' = <<>> \/ (rbuf # <<>> /\ rbuf' = Tail(rbuf))
    BY DEF SendBlock, GoOn, Return, NetUdpClose
  <2>2. QED
    BY <1>2, <2>1, RbufRead DEF Inv
<1>9. Phases'
  <2>1. blknum < NBlocks
    BY DEF SendBlock, Inv, Phases
  <2>2. readbytes' = IF blknum + 1 < NBlocks THEN "full" ELSE last
    BY DEF SendBlock, Fread
  <2>3. last \in {"short", "empty"}
    BY DEF Inv, TypeOK
  <2>4. CASE blknum + 1 < NBlocks
    <3>1. readbytes' = "full" /\ pc' = "wait"
      BY <2>2, <2>4 DEF SendBlock, GoOn
    <3>2. QED
      BY <1>2, <2>4, <3>1, NBlocksAssumption DEF Phases
  <2>5. CASE blknum + 1 = NBlocks
    <3>1. readbytes' \in {"short", "empty"} /\ pc' \in {"lastwait", "end"}
      BY <2>2, <2>3, <2>5 DEF SendBlock, GoOn, Return
    <3>2. QED
      BY <1>2, <2>5, <3>1, NBlocksAssumption DEF Phases
  <2>6. QED
    BY <1>2, <2>1, <2>4, <2>5, NBlocksAssumption
<1>10. SuccessMeansStored'
  BY DEF SendBlock, GoOn, Return, ResultOfShort, SuccessMeansStored
<1>11. QED
  BY <1>3, <1>5, <1>6, <1>7, <1>8, <1>9, <1>10 DEF Inv

\* The acknowledgement of the last block comes from a session that has it.
LEMMA LastWaitInv ==
  ASSUME Inv, TypeOK', LastWait
  PROVE  Inv'
<1>1. srv' = srv /\ blknum' = blknum /\ readbytes' = readbytes /\ msgs' = msgs
  BY DEF LastWait, serverVars
<1>2. pc = "lastwait" /\ pc' = "end" /\ rbuf' = <<>>
  BY DEF LastWait, Return, NetUdpClose
<1>3. RbufWasSent'
  BY <1>2 DEF RbufWasSent
<1>4. Phases'
  BY <1>1, <1>2 DEF Inv, Phases
<1>5. SuccessMeansStored'
  <2>1. CASE Answer("acked")
    <3>1. blknum # 0 => blknum = NBlocks
      BY <1>2 DEF Inv, Phases
    <3>2. QED
      BY <1>1, <2>1, <3>1, AckedIsBlknum, NBlocksAssumption DEF SuccessMeansStored
  <2>2. CASE result' = -1
    BY <2>2 DEF SuccessMeansStored
  <2>3. QED
    BY <2>1, <2>2 DEF LastWait, Return
<1>6. QED
  BY <1>1, <1>3, <1>4, <1>5, QuietStep

\* What arrives was sent.
LEMMA ArriveInv ==
  ASSUME Inv, TypeOK', Arrive
  PROVE  Inv'
<1>1. PICK p \in msgs : UdpArrive(p)
  BY DEF Arrive
<1>2. RbufWasSent'
  <2>1. Len(rbuf) \in Nat /\ rbuf \in Seq(FromServer) /\ msgs' = msgs
    BY DEF Inv, TypeOK, Arrive
  <2>2. CASE rbuf' = rbuf
    BY <2>1, <2>2 DEF Inv, RbufWasSent
  <2>3. CASE rbuf' = Append(rbuf, p)
    <3>1. /\ Len(rbuf') = Len(rbuf) + 1 /\ rbuf'[Len(rbuf) + 1] = p
          /\ \A i \in 1..Len(rbuf) : rbuf'[i] = rbuf[i]
      BY <2>1, <2>3
    <3>2. \A i \in 1..Len(rbuf') : i \in 1..Len(rbuf) \/ i = Len(rbuf) + 1
      BY <2>1, <3>1
    <3>3. QED
      BY <2>1, <3>1, <3>2 DEF Inv, RbufWasSent
  <2>4. QED
    BY <1>1, <2>2, <2>3 DEF UdpArrive
<1>3. Phases' /\ SuccessMeansStored'
  BY DEF Inv, Phases, SuccessMeansStored, Arrive, clientVars, serverVars
<1>4. QED
  BY <1>2, <1>3, QuietStep DEF Arrive, clientVars, serverVars

\* Strays and errors are neither blocks nor acknowledgements.
LEMMA StrayOrGiveUpInv ==
  ASSUME Inv, TypeOK', Stray \/ \E s \in Sessions : ServerGiveUp(s)
  PROVE  Inv'
<1>1. /\ msgs \subseteq msgs'
      /\ \A p \in msgs' : p \in msgs \/ p.type \notin {"DATA", "ACK"}
  BY DEF Stray, ServerGiveUp, Pkt
<1>2. rbuf' = rbuf /\ srv' = srv /\ UNCHANGED clientVars
  BY DEF Stray, ServerGiveUp, udpVars, serverVars
<1>3. RbufWasSent' /\ Phases' /\ SuccessMeansStored'
  BY <1>1, <1>2 DEF Inv, RbufWasSent, Phases, SuccessMeansStored, clientVars
<1>4. QED
  BY <1>1, <1>2, <1>3, QuietStep DEF clientVars

\* A session opens with nothing stored.
LEMMA ServerAcceptInv ==
  ASSUME NEW s \in Sessions, Inv, TypeOK', ServerAccept(s)
  PROVE  Inv'
<1>1. /\ srv \in [Sessions -> -1..NBlocks] /\ srv[s] = -1
      /\ srv' = [srv EXCEPT ![s] = 0]
  BY DEF ServerAccept, Inv, TypeOK
<1>2. /\ srv'[s] = 0 /\ \A t \in Sessions : t # s => srv'[t] = srv[t]
  BY <1>1
<1>3. /\ msgs \subseteq msgs'
      /\ \A p \in msgs' : p \in msgs \/ p.type = "OACK"
                          \/ (p.type = "ACK" /\ p.tid = s /\ p.num = 0)
  BY DEF ServerAccept, Pkt
<1>4. rbuf' = rbuf /\ UNCHANGED clientVars
  BY DEF ServerAccept, udpVars
<1>5. \A p \in msgs : p.type \in {"DATA", "ACK"} => p.tid \in Sessions /\ p.num \in 0..NBlocks
  BY NumberedShape DEF Inv, TypeOK
<1>6. \A p \in msgs' : p.type = "DATA" => p \in msgs /\ srv[p.tid] <= srv'[p.tid]
                                        /\ srv[p.tid] \in Int /\ srv'[p.tid] \in Int
  BY <1>1, <1>2, <1>3, <1>5
<1>7. LockStep' /\ OneSession'
  BY <1>5, <1>6 DEF Inv, LockStep, OneSession
<1>8. AckedIsStored'
  <2> SUFFICES ASSUME NEW p \in msgs', p.type = "ACK" PROVE p.num <= srv'[p.tid]
    BY DEF AckedIsStored
  <2>1. CASE p \in msgs
    BY <1>1, <1>2, <1>5, <2>1 DEF Inv, AckedIsStored
  <2>2. CASE p.tid = s /\ p.num = 0
    BY <1>2, <2>2
  <2>3. QED
    BY <1>3, <2>1, <2>2
<1>9. StoredWasSent' /\ SentUpToBlknum'
  BY <1>2, <1>3, <1>4, <1>6 DEF Inv, StoredWasSent, Sent, SentUpToBlknum, clientVars
<1>10. RbufWasSent' /\ Phases'
  BY <1>3, <1>4 DEF Inv, RbufWasSent, Phases, clientVars
<1>11. SuccessMeansStored'
  <2> SUFFICES ASSUME pc = "end", result = 0, blknum # 0
               PROVE  \E t \in Sessions : srv'[t] = NBlocks
    BY <1>4 DEF SuccessMeansStored, clientVars
  <2>1. PICK t \in Sessions : srv[t] = NBlocks
    BY DEF Inv, SuccessMeansStored
  <2>2. t # s
    BY <1>1, <2>1, NBlocksAssumption
  <2>3. QED
    BY <1>2, <2>1, <2>2
<1>12. QED
  BY <1>7, <1>8, <1>9, <1>10, <1>11 DEF Inv

\* A session stores the next block it was sent, and says so.
LEMMA ServerStoreInv ==
  ASSUME NEW s \in Sessions, Inv, TypeOK', ServerStore(s)
  PROVE  Inv'
<1> DEFINE k == srv[s]
<1>1. /\ srv \in [Sessions -> -1..NBlocks] /\ k \in -1..NBlocks
      /\ srv' = [srv EXCEPT ![s] = k + 1]
      /\ Pkt("DATA", s, k + 1) \in msgs
  BY DEF ServerStore, Inv, TypeOK
<1>2. k + 1 \in Blocks
  BY <1>1 DEF Inv, TypeOK, Pkt, FromServer, ToServer
<1>3. srv'[s] = k + 1 /\ \A t \in Sessions : t # s => srv'[t] = srv[t]
  BY <1>1
<1>4. /\ msgs' = msgs \cup {Pkt("ACK", s, k + 1)}
      /\ rbuf' = rbuf /\ UNCHANGED clientVars
  BY DEF ServerStore, udpVars
<1>5. \A p \in msgs : p.type \in {"DATA", "ACK"} => p.tid \in Sessions /\ p.num \in 0..NBlocks
  BY NumberedShape DEF Inv, TypeOK
<1>6. \A p \in msgs' : p.type = "DATA" => p \in msgs
  BY <1>4 DEF Pkt
<1>7. LockStep' /\ OneSession'
  <2>1. OneSession'
    BY <1>6 DEF Inv, OneSession
  <2>2. ASSUME NEW p \in msgs', p.type = "DATA" PROVE p.num <= srv'[p.tid] + 1
    <3>1. p \in msgs /\ p.tid \in Sessions /\ p.num \in Int /\ p.num <= srv[p.tid] + 1
      BY <1>5, <1>6, <2>2 DEF Inv, LockStep
    <3>2. QED
      BY <1>1, <1>3, <3>1
  <2>3. QED
    BY <2>1, <2>2 DEF LockStep
<1>8. AckedIsStored'
  <2> SUFFICES ASSUME NEW p \in msgs', p.type = "ACK" PROVE p.num <= srv'[p.tid]
    BY DEF AckedIsStored
  <2>1. CASE p \in msgs
    BY <1>1, <1>3, <1>5, <2>1 DEF Inv, AckedIsStored
  <2>2. CASE p = Pkt("ACK", s, k + 1)
    BY <1>1, <1>3, <2>2 DEF Pkt
  <2>3. QED
    BY <1>4, <2>1, <2>2
<1>9. StoredWasSent' /\ SentUpToBlknum'
  BY <1>1, <1>3, <1>4, <1>6 DEF Inv, StoredWasSent, Sent, SentUpToBlknum, clientVars
<1>10. RbufWasSent' /\ Phases'
  BY <1>4 DEF Inv, RbufWasSent, Phases, clientVars
<1>11. SuccessMeansStored'
  BY <1>1, <1>2, <1>3, <1>4 DEF Inv, SuccessMeansStored, clientVars, Blocks
<1>12. QED
  BY <1>7, <1>8, <1>9, <1>10, <1>11 DEF Inv

\* Every step preserves the invariant.
LEMMA NextInv == Inv /\ [Next]_vars => Inv'
<1> SUFFICES ASSUME Inv, [Next]_vars PROVE Inv'
  OBVIOUS
<1>1. TypeOK'
  BY NextTypeOK DEF Inv
<1>2. CASE UNCHANGED vars
  BY <1>2 DEF vars, udpVars, clientVars, serverVars, Inv, TypeOK, LockStep, OneSession,
              SuccessMeansStored, AckedIsStored, RbufWasSent, StoredWasSent, Sent,
              SentUpToBlknum, Phases
<1>3. CASE Client
  BY <1>1, <1>3, ClientQuietInv, SendBlockInv, LastWaitInv DEF Client
<1>4. CASE Arrive \/ Stray
  BY <1>1, <1>4, ArriveInv, StrayOrGiveUpInv
<1>5. CASE Server
  BY <1>1, <1>5, ServerAcceptInv, ServerStoreInv, StrayOrGiveUpInv DEF Server
<1>6. QED
  BY <1>2, <1>3, <1>4, <1>5 DEF Next, Terminated

\* The lock step holds in every reachable state.
THEOREM InvHolds == Spec => []Inv
  BY InitInv, NextInv, PTL DEF Spec

\* TypeOK holds in every reachable state.
THEOREM TypeCorrect == Spec => []TypeOK
<1>1. Inv => TypeOK
  BY DEF Inv
<1>2. QED
  BY <1>1, InvHolds, PTL

\* The client never runs ahead of the session it sends to.
THEOREM LockStepHolds == Spec => []LockStep
<1>1. Inv => LockStep
  BY DEF Inv
<1>2. QED
  BY <1>1, InvHolds, PTL

\* All blocks of a file go to one session.
THEOREM OneSessionHolds == Spec => []OneSession
<1>1. Inv => OneSession
  BY DEF Inv
<1>2. QED
  BY <1>1, InvHolds, PTL

\* Result 0 after a block means that the file is stored.
THEOREM SuccessMeansStoredHolds == Spec => []SuccessMeansStored
<1>1. Inv => SuccessMeansStored
  BY DEF Inv
<1>2. QED
  BY <1>1, InvHolds, PTL
=============================================================================
