------------------------------- MODULE Ping --------------------------------
(***************************************************************************)
(* teen/ping/ping.c: an echo request every second, a look for an ICMP      *)
(* message in every turn of the loop, and the account at the end.          *)
(*                                                                         *)
(* The stack keeps the last ICMP message received and no other: one that   *)
(* is not taken before the next arrives is lost (teenapi.doc, 65h).        *)
(***************************************************************************)
EXTENDS Integers, Sequences, FiniteSets

CONSTANTS
  Interval,       \* time between requests (1000)
  UintMod,        \* values of a uint (2^16)
  Hundred,        \* what a whole is, in percent (100)
  MaxTime,        \* bound: the time
  MaxReplies      \* bound: ICMP messages that arrive

ASSUME PingAssumption ==
  /\ Interval \in Nat \ {0} /\ UintMod \in Nat \ {0} /\ Hundred \in Nat \ {0}
  /\ MaxTime \in Nat /\ MaxReplies \in Nat

VARIABLES
  ppc,            \* "turn", "look" or "end"
  mtime,          \* teen_mtime()
  pnow,           \* now
  last,           \* last
  sentcount, receivedcount,
  requests,       \* requests sent: seq, and the time that is their data
  slot,           \* the last ICMP message received: an answer, "other" or "none"
  arrived,        \* ICMP messages so far
  printed,        \* answers printed: seq, and when they were sent by their delay
  loss            \* the loss printed, -1 for none

pingVars == <<ppc, mtime, pnow, last, sentcount, receivedcount, requests, slot,
              arrived, printed, loss>>

NoMessage == [type |-> "none", seq |-> 0, ts |-> 0]

PingInit ==
  /\ ppc = "turn" /\ mtime = 0 /\ pnow = 0 /\ last = 0
  /\ sentcount = 0 /\ receivedcount = 0
  /\ requests = {} /\ slot = NoMessage /\ arrived = 0 /\ printed = <<>> /\ loss = -1

\* A request, when its second is over; a failure of icmp_send goes unnoticed.
PingSend ==
  /\ mtime - last >= Interval
  /\ requests' = requests \cup {[seq |-> sentcount, ts |-> mtime]}
  /\ last' = mtime
  /\ sentcount' = (sentcount + 1) % UintMod

\* The first half of a turn, up to the look at the clock.
PingTurn ==
  /\ ppc = "turn"
  /\ \/ PingSend
     \/ /\ mtime - last < Interval
        /\ UNCHANGED <<requests, last, sentcount>>
  /\ ppc' = "look"
  /\ pnow' = mtime
  /\ UNCHANGED <<mtime, receivedcount, slot, arrived, printed, loss>>

\* A slip: measured from the last request, whichever was answered.
DelayFromLast(m) == pnow - last

\* now - *(unsigned long *)buf
Delay(m) == pnow - m.ts

\* An echo reply, type and code 0; of any other message only these are printed.
Counts(m) == m.type = "reply"

\* A slip: the share that was answered.
PercentAnswered(sent, received) == ((received * Hundred) % UintMod) \div sent

\* (sentcount-receivedcount)*100/sentcount, all of it in uints.
Percent(sent, received) == (((sent - received) * Hundred) % UintMod) \div sent

\* The second half of a turn: icmp_recv, and the account if a key was pressed.
\* Without a request sent the account divides by zero.
PingTake ==
  /\ ppc = "look"
  /\ slot' = NoMessage
  /\ IF Counts(slot)
     THEN /\ receivedcount' = (receivedcount + 1) % UintMod
          /\ printed' = Append(printed, [seq |-> slot.seq, start |-> pnow - Delay(slot)])
     ELSE UNCHANGED <<receivedcount, printed>>
  /\ \E kbhit \in BOOLEAN :
       IF kbhit
       THEN IF sentcount = 0
            THEN ppc' = "fault" /\ UNCHANGED loss
            ELSE ppc' = "end" /\ loss' = Percent(sentcount, receivedcount')
       ELSE ppc' = "turn" /\ UNCHANGED loss
  /\ UNCHANGED <<mtime, pnow, last, sentcount, requests, arrived>>

----------------------------------------------------------------------------
(* The network: a request is answered at any time, twice or never, and an  *)
(* answer takes the place of what was not taken in time.                   *)

Running == ppc \in {"turn", "look"}

PingReply ==
  /\ Running /\ arrived < MaxReplies
  /\ \E r \in requests : slot' = [type |-> "reply", seq |-> r.seq, ts |-> r.ts]
  /\ arrived' = arrived + 1
  /\ UNCHANGED <<ppc, mtime, pnow, last, sentcount, receivedcount, requests, printed,
                 loss>>

\* "Unreachable" and the like.
PingOther ==
  /\ Running /\ arrived < MaxReplies
  /\ slot' = [NoMessage EXCEPT !.type = "other"]
  /\ arrived' = arrived + 1
  /\ UNCHANGED <<ppc, mtime, pnow, last, sentcount, receivedcount, requests, printed,
                 loss>>

PingTick ==
  /\ Running /\ mtime < MaxTime
  /\ mtime' = mtime + 1
  /\ UNCHANGED <<ppc, pnow, last, sentcount, receivedcount, requests, slot, arrived,
                 printed, loss>>

PingNext == PingTurn \/ PingTake \/ PingReply \/ PingOther \/ PingTick

PingSpec == PingInit /\ [][PingNext]_pingVars

----------------------------------------------------------------------------

PingTypeOK ==
  /\ ppc \in {"turn", "look", "end", "fault"}
  /\ mtime \in 0..MaxTime /\ pnow \in 0..mtime /\ last \in 0..mtime
  /\ sentcount \in 0..UintMod - 1 /\ receivedcount \in 0..UintMod - 1
  /\ requests \subseteq [seq : 0..UintMod - 1, ts : 0..mtime]
  /\ slot \in [type : {"none", "other", "reply"}, seq : 0..UintMod - 1, ts : 0..mtime]
  /\ arrived \in 0..MaxReplies
  /\ Len(printed) <= arrived
  /\ \A k \in 1..Len(printed) : printed[k] \in [seq : 0..UintMod - 1, start : Int]
  /\ loss \in -1..UintMod - 1
  /\ ppc = "end" => sentcount > 0

\* The delay printed counts from the moment the request with that number was sent,
\* for answers out of order and later than a second too, which the comment at the
\* end of ping.c still lists as a defect of version 0.1.
DelayFromItsRequest ==
  \A k \in 1..Len(printed) :
    [seq |-> printed[k].seq, ts |-> printed[k].start] \in requests

AnsweredSeqs == {printed[k].seq : k \in 1..Len(printed)}

\* The loss printed is the share of the requests whose answer was not printed,
\* unless an answer came twice or a uint is too narrow for the product.
LossIsShare ==
  LET n == Cardinality(requests)
      lost == n - Cardinality(AnsweredSeqs)
  IN (/\ ppc = "end" /\ n < UintMod /\ Cardinality(AnsweredSeqs) = Len(printed)
      /\ lost * Hundred < UintMod)
     => loss = (lost * Hundred) \div n
=============================================================================
