------------------------------ MODULE TftpRecv ------------------------------
(***************************************************************************)
(* tftp_recv() of teen/tftp/tftp.c: fetching a file over TFTP, with the    *)
(* network that loses, duplicates and reorders its datagrams and the TFTP  *)
(* server it talks to.                                                     *)
(*                                                                         *)
(* The program is a single thread that polls its UDP handle, so one pass   *)
(* of the polling loop is one action: of what others write it reads the    *)
(* head of the receive buffer only.  Where a datagram is read to is kept   *)
(* in the descriptor `udp`, which tftp_send_ack() points at its own four   *)
(* bytes: after an ACK sent from inside the polling loop nothing longer    *)
(* can be read, and what is then looked at is the packet read before.      *)
(* A file is its sequence of block numbers: block b stands for its bytes,  *)
(* block NBlocks is the short one that ends it.  The server answers each   *)
(* request from a port of its own (a session), sends block n + 1 on the    *)
(* acknowledgement of block n and ignores any other acknowledgement.       *)
(***************************************************************************)
EXTENDS TeenUdp, Streams

CONSTANTS
  NBlocks,        \* blocks of the remote file, the short last one included
  Sessions,       \* ports a server may answer from: one per request it sees
  LastIsEmpty,    \* block NBlocks has no bytes: the file fills its other blocks
  UseOptions,     \* the request carries -B, -T or -S options
  OptText,        \* the number the option text of an OACK reads as, see RecvOack
  RetryMax,       \* retry_max: 30 in the program
  Reliable,       \* no datagram is lost, no server gives up, no stray datagram
  MaxFaults       \* bound: duplicates, retransmissions and strays in one run

ASSUME NBlocksAssumption == NBlocks \in Nat \ {0}
ASSUME SessionsAssumption == Service \notin Sessions /\ "stray" \notin Sessions
ASSUME OptionsAssumption ==
  UseOptions \in BOOLEAN /\ Reliable \in BOOLEAN /\ LastIsEmpty \in BOOLEAN
\* Two letters read as a number are 0x6162 at the least: more than the blocks
\* of any file below 12 MB.
ASSUME OptTextAssumption == OptText \in Nat /\ OptText > NBlocks
ASSUME RetryMaxAssumption == RetryMax \in Nat /\ MaxFaults \in Nat

VARIABLES
  pc,             \* "start", "sent", "rebind", "loop" or "end"
  peer,           \* udp.r_port: where the next ACK goes
  rpkt,           \* type of the packet in rpkt, the last one read whole
  blknum,         \* its number, whatever its type
  small,          \* udp.buf and udp.len are spkt and 4, not rpkt and LEN_PKTMAX
  retry,          \* ACKs sent again, never reset
  elapsed,        \* two seconds have passed since `timer` was set
  file,           \* what was written to the local file
  result,         \* the function's result, 0 or -1
  cut,            \* history: "runt" when a packet shorter than a header ended the
                  \* loop, "stale" when the packet before did, looked at again
  net,            \* datagrams under way, both directions
  srv,            \* per session the block it sent last, 0 an OACK, -1 unused
  alive,          \* sessions still serving
  faults          \* duplicates, retransmissions and strays so far

clientVars == <<pc, peer, rpkt, blknum, small, retry, elapsed, file, result, cut>>
serverVars == <<srv, alive>>
vars == <<udpVars, clientVars, net, serverVars, faults>>

Blocks == 1..NBlocks
Written == {file[i] : i \in 1..Len(file)}

\* The datagrams of the protocol: from the server (or anybody else) and to it.
FromServer ==
  [type : {"DATA"}, tid : Sessions, num : Blocks]
  \cup [type : {"OACK"}, tid : Sessions, num : {OptText}]
  \cup [type : {"ERROR"}, tid : Sessions, num : {0}]
  \cup [type : {"UNKNOWN", "RUNT"}, tid : {"stray"}, num : {0}]
ToServer ==
  [type : {"RRQ"}, tid : {Service}, num : {0}]
  \cup [type : {"ACK"}, tid : Sessions \cup {"stray"}, num : 0..NBlocks \cup {OptText}]

Pkt(type, tid, num) == [type |-> type, tid |-> tid, num |-> num]

Init ==
  /\ pc = "start" /\ handle = "closed" /\ rbuf = <<>>
  /\ peer = "stray" /\ rpkt = "none" /\ blknum = 0 /\ small = FALSE
  /\ retry = 0 /\ elapsed = FALSE
  /\ file = <<>> /\ result = 0 /\ cut = "no"
  /\ net = {} /\ srv = [s \in Sessions |-> -1] /\ alive = {} /\ faults = 0

----------------------------------------------------------------------------
(* The client, in the order of the function.                              *)

\* The local file or the first handle cannot be opened: an early return.
OpenFails ==
  /\ pc = "start"
  /\ pc' = "end" /\ result' = -1
  /\ UNCHANGED <<udpVars, peer, rpkt, blknum, small, retry, elapsed, file, cut,
                 net, serverVars, faults>>

\* The request goes out on a handle bound to the server's service port.
SendRequest ==
  /\ pc = "start"
  /\ NetUdpOpen("service")
  /\ net' = net \cup {Pkt("RRQ", Service, 0)}
  /\ pc' = "sent"
  /\ UNCHANGED <<peer, rpkt, blknum, small, retry, elapsed, file, result, cut,
                 serverVars, faults>>

\* The local port is noted and the handle closed: until Rebind nobody owns
\* the port the server answers to.
CloseRequestHandle ==
  /\ pc = "sent"
  /\ NetUdpClose
  /\ pc' = "rebind"
  /\ UNCHANGED <<peer, rpkt, blknum, small, retry, elapsed, file, result, cut,
                 net, serverVars, faults>>

\* The same local port is opened again, for any peer, and the loop begins.
Rebind ==
  /\ pc = "rebind"
  /\ \/ /\ NetUdpOpen("any")
        /\ pc' = "loop" /\ UNCHANGED result
     \/ /\ pc' = "end" /\ result' = -1
        /\ UNCHANGED udpVars
  /\ UNCHANGED <<peer, rpkt, blknum, small, retry, elapsed, file, cut, net,
                 serverVars, faults>>

\* fclose, net_udp_close and return, whatever ended the loop.
EndLoop(r) ==
  /\ NetUdpClose
  /\ pc' = "end"
  /\ result' = r
  /\ UNCHANGED small

\* The loop goes on after a datagram: whatever ACK was sent for it, the
\* descriptor is set to rpkt again.
NextPacket ==
  /\ NetUdpRecvfrom
  /\ small' = FALSE
  /\ UNCHANGED <<pc, result>>

\* A datagram of four bytes: a header and nothing else.
HeaderOnly(p) ==
  \/ p.type = "UNKNOWN"
  \/ LastIsEmpty /\ p.type = "DATA" /\ p.num = NBlocks

\* A datagram that udp.len has room for.
Fits(p) == small => p.type = "RUNT" \/ HeaderOnly(p)

\* A datagram of one of these types is read into rpkt: its sender becomes the
\* peer, its second word blknum, and `timer` is set again before the next one.
Take(types) ==
  /\ pc = "loop" /\ ~small /\ rbuf # <<>>
  /\ Head(rbuf).type \in types
  /\ peer' = Head(rbuf).tid
  /\ rpkt' = Head(rbuf).type
  /\ blknum' = Head(rbuf).num
  /\ elapsed' = FALSE

\* A slip: the last full block ends the loop.
EndsEarly(p) == p.num + 1 >= NBlocks

\* Only a block shorter than the block size ends the loop.
EndsTransfer(p) == p.num = NBlocks

\* A slip: only a block with a higher number than the last packet is new.
StoredIfNewer(p) == IF p.num > blknum THEN Append(file, p.num) ELSE file

\* A block is written wherever the file stands, whatever its number.
Stored(p) == Append(file, p.num)

\* DATA: acknowledged, then written.
RecvData ==
  /\ Take({"DATA"})
  /\ net' = net \cup {Pkt("ACK", peer', blknum')}
  /\ file' = Stored(Head(rbuf))
  /\ IF EndsTransfer(Head(rbuf)) THEN EndLoop(0) ELSE NextPacket
  /\ UNCHANGED <<retry, cut, serverVars, faults>>

\* OACK: answered with ACK 0, and then written to the file like a block: what
\* follows the first four bytes is option text.  blknum keeps the number the
\* first two characters of that text read as.
RecvOack ==
  /\ Take({"OACK"})
  /\ net' = net \cup {Pkt("ACK", peer', 0)}
  /\ file' = Append(file, OptText)
  /\ NextPacket
  /\ UNCHANGED <<retry, cut, serverVars, faults>>

\* ERROR or an unknown opcode: the transfer has failed.
RecvError ==
  /\ Take({"ERROR", "UNKNOWN"})
  /\ EndLoop(-1)
  /\ UNCHANGED <<retry, file, cut, net, serverVars, faults>>

\* Fewer than four bytes: the loop is left with result still 0.
RecvRunt ==
  /\ pc = "loop" /\ rbuf # <<>>
  /\ Head(rbuf).type = "RUNT"
  /\ peer' = Head(rbuf).tid
  /\ cut' = "runt"
  /\ EndLoop(result)
  /\ UNCHANGED <<rpkt, blknum, retry, elapsed, file, net, serverVars, faults>>

\* Four bytes are read over the ACK in spkt, and what is looked at is the packet
\* in rpkt once more, now with no data: nothing is written, and what is sent goes
\* to the sender of the four bytes.
Reread(type) ==
  /\ pc = "loop" /\ small /\ rbuf # <<>>
  /\ HeaderOnly(Head(rbuf))
  /\ rpkt = type
  /\ peer' = Head(rbuf).tid
  /\ elapsed' = FALSE
  /\ UNCHANGED <<rpkt, blknum, retry, file, serverVars, faults>>

\* An old block is acknowledged again, and ends the transfer like a short one.
RereadData ==
  /\ Reread("DATA")
  /\ net' = net \cup {Pkt("ACK", peer', blknum)}
  /\ cut' = "stale"
  /\ EndLoop(result)

\* An old OACK is answered again, and the loop goes on.
RereadOack ==
  /\ Reread("OACK")
  /\ net' = net \cup {Pkt("ACK", peer', 0)}
  /\ NextPacket
  /\ UNCHANGED cut

\* A pass of the loop in which net_udp_recvfrom returns -1: no datagram is there,
\* or one that does not fit, which the stack discards.
NoData == pc = "loop" /\ (rbuf # <<>> => ~Fits(Head(rbuf)))

\* The user presses ESC.
Escape ==
  /\ NoData
  /\ EndLoop(-1)
  /\ UNCHANGED <<peer, rpkt, blknum, retry, elapsed, file, cut, net, serverVars,
                 faults>>

\* A slip: one retry too many.
GivesUpLate(n) == n > RetryMax + 1

\* The retries are used up.
GivesUp(n) == n > RetryMax

TooManyRetries ==
  /\ NoData
  /\ GivesUp(retry)
  /\ EndLoop(-1)
  /\ UNCHANGED <<peer, rpkt, blknum, retry, elapsed, file, cut, net, serverVars,
                 faults>>

\* A slip: what is sent again is a request for the block the client lacks.
ResendNext(n) == IF n < NBlocks THEN n + 1 ELSE n

\* What is acknowledged again is the last packet.
ResendNumber(n) == n

\* A slip: the count starts again with each ACK.
RetryForgotten(n) == 1

\* retry++
RetryCount(n) == n + 1

\* Two seconds without a packet: the last number is acknowledged again, by
\* tftp_send_ack(), which leaves the descriptor on spkt.  The timer is not
\* restarted, so every further pass sends another ACK until a datagram is read
\* or the retries are used up (and a pass in which one does not fit is always
\* such a pass); before the first packet (blknum = 0) nothing is sent and
\* nothing counted.
ResendAck ==
  /\ NoData
  /\ ~GivesUp(retry)
  /\ elapsed /\ blknum # 0
  /\ rbuf' = IF rbuf = <<>> THEN rbuf ELSE Tail(rbuf)
  /\ net' = net \cup {Pkt("ACK", peer, ResendNumber(blknum))}
  /\ small' = TRUE
  /\ retry' = RetryCount(retry)
  /\ UNCHANGED <<handle, pc, peer, rpkt, blknum, elapsed, file, result, cut,
                 serverVars, faults>>

\* The clock passes two seconds since `timer` was set.
Tick ==
  /\ pc = "loop" /\ ~elapsed
  /\ elapsed' = TRUE
  /\ UNCHANGED <<udpVars, pc, peer, rpkt, blknum, small, retry, file, result, cut,
                 net, serverVars, faults>>

Client ==
  \/ SendRequest \/ CloseRequestHandle \/ Rebind
  \/ RecvData \/ RecvOack \/ RecvError \/ RecvRunt \/ RereadData \/ RereadOack
  \/ TooManyRetries \/ ResendAck

----------------------------------------------------------------------------
(* The network.  net is the set of datagrams under way: any of them may    *)
(* arrive next, and one that never arrives is lost.                        *)

\* p leaves the network, or a duplicate of it stays behind to arrive later.
Consume(p, sent) ==
  \/ net' = (net \ {p}) \cup sent /\ UNCHANGED faults
  \/ faults < MaxFaults /\ net' = net \cup sent /\ faults' = faults + 1

\* A datagram for the client reaches its machine.  Once the function has
\* returned they all go the way of a lost one.
Arrive ==
  /\ pc # "end"
  /\ \E p \in net :
       /\ p \in FromServer
       /\ UdpArrive(p)
       /\ Consume(p, {})
  /\ UNCHANGED <<clientVars, serverVars>>

\* A datagram no TFTP server sends: too short, or with an unknown opcode.
Stray ==
  /\ ~Reliable /\ pc = "loop" /\ faults < MaxFaults
  /\ \E t \in {"UNKNOWN", "RUNT"} : net' = net \cup {Pkt(t, "stray", 0)}
  /\ faults' = faults + 1
  /\ UNCHANGED <<udpVars, clientVars, serverVars>>

----------------------------------------------------------------------------
(* The server: one session for each request, or duplicate of it, it sees. *)

\* What session s sends when it is at block n.
Reply(s, n) == IF n = 0 THEN Pkt("OACK", s, OptText) ELSE Pkt("DATA", s, n)

\* A request opens a session: with an OACK if options were asked for and the
\* server knows them, with the first block otherwise.
ServerAccept(s) ==
  /\ srv[s] = -1
  /\ \E n \in {0, 1}, p \in net :
       /\ p.type = "RRQ"
       /\ n = 0 => UseOptions
       /\ Consume(p, {Reply(s, n)})
       /\ srv' = [srv EXCEPT ![s] = n]
  /\ alive' = alive \cup {s}
  /\ UNCHANGED <<udpVars, clientVars>>

\* The acknowledgement of the block the session is at: the next block, or the
\* end of the session.  Any other acknowledgement is ignored: left in net.
ServerAck(s) ==
  /\ s \in alive
  /\ Pkt("ACK", s, srv[s]) \in net
  /\ srv' = [srv EXCEPT ![s] = @ + 1]
  /\ IF srv[s] < NBlocks
     THEN /\ Consume(Pkt("ACK", s, srv[s]), {Reply(s, srv[s] + 1)})
          /\ UNCHANGED alive
     ELSE /\ Consume(Pkt("ACK", s, srv[s]), {})
          /\ alive' = alive \ {s}
  /\ UNCHANGED <<udpVars, clientVars>>

\* The session sends its last packet again.
ServerRetransmit(s) ==
  /\ s \in alive /\ faults < MaxFaults
  /\ Reply(s, srv[s]) \notin net
  /\ net' = net \cup {Reply(s, srv[s])}
  /\ faults' = faults + 1
  /\ UNCHANGED <<udpVars, clientVars, serverVars>>

\* The session gives up, with or without an ERROR packet.
ServerGiveUp(s) ==
  /\ ~Reliable /\ s \in alive
  /\ alive' = alive \ {s}
  /\ \/ net' = net \cup {Pkt("ERROR", s, 0)}
     \/ UNCHANGED net
  /\ UNCHANGED <<udpVars, clientVars, srv, faults>>

ServerAnswer == \E s \in Sessions : ServerAccept(s) \/ ServerAck(s)

Server ==
  \/ ServerAnswer
  \/ \E s \in Sessions : ServerRetransmit(s) \/ ServerGiveUp(s)

\* Nothing is left to do once the function has returned.
Terminated == pc = "end" /\ UNCHANGED vars

Next ==
  \/ Client \/ OpenFails \/ Escape \/ Tick 
  \/ Arrive \/ Stray \/ Server \/ Terminated

Spec == Init /\ [][Next]_vars

\* The program never stops polling and the clock never stops; the user, the
\* network and the server owe nothing.
ClientFairness == WF_vars(Client) /\ WF_vars(Tick)
FairSpec == Spec /\ ClientFairness

\* Moreover every datagram arrives and the server answers each.
PerfectSpec == FairSpec /\ WF_vars(Arrive) /\ WF_vars(ServerAnswer)

----------------------------------------------------------------------------
(* Properties.                                                            *)

TypeOK ==
  /\ pc \in {"start", "sent", "rebind", "loop", "end"}
  /\ handle \in HandleKinds
  /\ rbuf \in Seq(FromServer) /\ Len(rbuf) <= RbufMax
  /\ peer \in Sessions \cup {"stray"}
  /\ rpkt \in {"none", "DATA", "OACK", "ERROR", "UNKNOWN"}
  /\ blknum \in 0..NBlocks \cup {OptText}
  /\ small \in BOOLEAN
  /\ retry \in 0..(RetryMax + 1)
  /\ elapsed \in BOOLEAN /\ cut \in {"no", "runt", "stale"}
  /\ file \in Seq(Blocks \cup {OptText})
  /\ result \in {-1, 0}
  /\ net \subseteq FromServer \cup ToServer
  /\ srv \in [Sessions -> -1..(NBlocks + 1)]
  /\ alive \subseteq Sessions /\ \A s \in alive : srv[s] \in 0..NBlocks
  /\ faults \in 0..MaxFaults

\* The local file never has a hole: a block is written only when the block
\* before it has been, though duplicates make blocks appear again later.
\* tftp_recv never compares a block number with the one it expects; this rests
\* on the lock step between its ACKs and the server.
NoGap ==
  \A i \in 1..Len(file) :
    file[i] \in Blocks /\ file[i] > 1 => \E j \in 1..(i - 1) : file[j] = file[i] - 1

\* What a server counts as delivered is in the local file: no ACK, sent again
\* after a timeout or delayed in the network, vouches for a block the client
\* has not stored, not even when two sessions answer one request.
AckedIsStored ==
  \A s \in Sessions : \A b \in Blocks : b < srv[s] => b \in Written

\* Loss alone never duplicates or reorders data: as long as nothing was
\* duplicated or retransmitted, the blocks in the file are 1, 2, 3, ...
CleanNetworkExactBlocks ==
  faults = 0 =>
    \A i \in 1..Len(file) : file[i] \in Blocks => file[i] = CountIn(file, Blocks, i)

\* A transfer that has begun ends, whatever the server and the network do: the
\* retries run out.
BegunTransferEnds == (pc = "loop" /\ blknum # 0) ~> (pc = "end")

\* The transfer as seen by the caller: tftp_recv reports success only with every
\* block stored, each after the ones before it, unless it was cut short by a runt
\* or by a packet looked at twice.
Fetch == INSTANCE FileFetch WITH
  have   <- Written \ {OptText},
  status <- IF pc # "end" THEN "running"
            ELSE IF result = 0 /\ cut = "no" THEN "complete" ELSE "failed"

ImplementsFetch == Fetch!FetchSpec

\* "-r receives a file" (tftp.xx:40): what a successful transfer leaves on disk
\* is the remote file, block for block.  The code also writes the options the
\* server acknowledged into it.
SavedFileIsRemoteFile ==
  pc = "end" /\ result = 0 /\ cut = "no" => file = [i \in Blocks |-> i]

\* "If the server does not respond for this time, the transfer ends"
\* (tftp.xx:52, option -T).  The code never looks at the timeout before the
\* first packet.
TransferEnds == <>(pc = "end")
=============================================================================
