-------------------------- MODULE SmallToolsProofs --------------------------
(***************************************************************************)
(* Theorems about the small programs, one part for each.                   *)
(***************************************************************************)
EXTENDS SmallTools, FiniteSetTheorems, SequenceTheorems, TLAPS

Lemmas == INSTANCE StreamLemmas

----------------------------------------------------------------------------
(* sntpget: how right the clock is set, for seconds, days and ints of any *)
(* size, any number of requests and any clock.                            *)
----------------------------------------------------------------------------
(* Arithmetic.                                                            *)

\* A moment lies in its second.
LEMMA SecondBounds ==
  ASSUME NEW t \in Int
  PROVE  /\ Second(t) \in Int
         /\ Second(t) * H <= t /\ t < Second(t) * H + H
  BY ClockAssumption DEF Second

\* Any number is its day and what is left of it.
LEMMA DayParts ==
  ASSUME NEW c \in Int
  PROVE  /\ c \div Day \in Int /\ c % Day \in 0..(Day - 1)
         /\ c = (c \div Day) * Day + (c % Day)
  BY ClockAssumption

\* Only one day holds a number.
LEMMA DayUnique ==
  ASSUME NEW q \in Int, NEW r \in 0..(Day - 1), NEW p \in Int, NEW m \in 0..(Day - 1),
         q * Day + r = p * Day + m
  PROVE  q = p /\ r = m
<1>1. Day \in Int /\ Day > 0
  BY ClockAssumption
<1>2. (q - p) * Day = m - r
  BY <1>1
<1>3. ~(q - p >= 1)
  <2>1. ASSUME q - p >= 1 PROVE (q - p) * Day >= Day
    BY <2>1, <1>1
  <2> QED
    BY <2>1, <1>1, <1>2
<1>4. ~(p - q >= 1)
  <2>1. ASSUME p - q >= 1 PROVE (p - q) * Day >= Day
    BY <2>1, <1>1
  <2>2. (p - q) * Day = r - m
    BY <1>1
  <2> QED
    BY <2>1, <2>2, <1>1
<1> QED
  BY <1>1, <1>2, <1>3, <1>4

\* A date and a time of day that are read with at most a tick between, and again when
\* the time is 0:00:00, are of the same moment.
LEMMA DateThenTimeExact ==
  ASSUME NEW c \in Int, NEW d \in 0..1
  PROVE  DateThenTime(c, d) = c + d
<1> DEFINE q == c \div Day
           r == c % Day
           t == (c + d) % Day
<1>1. Day \in Int /\ Day > 0 /\ H \in Int /\ H > 0 /\ d \in Int /\ c + d \in Int
  BY ClockAssumption
<1>2. q \in Int /\ r \in 0..(Day - 1) /\ c = q * Day + r
  BY DayParts
<1>3. /\ (c + d) \div Day \in Int /\ t \in 0..(Day - 1)
      /\ c + d = ((c + d) \div Day) * Day + t
  BY <1>1, DayParts
<1>4. CASE r + d <= Day - 1
  <2>1. c + d = q * Day + (r + d) /\ r + d \in 0..(Day - 1)
    BY <1>1, <1>2, <1>4
  <2>2. t = r + d
    BY <2>1, <1>2, <1>3, DayUnique
  <2>3. Joined(c, c + d) = c + d
    BY <2>1, <2>2 DEF Joined
  <2> QED
    BY <2>3 DEF DateThenTime
<1>5. CASE r + d > Day - 1
  <2>1. c + d = (q + 1) * Day + 0 /\ 0 \in 0..(Day - 1) /\ q + 1 \in Int
    BY <1>1, <1>2, <1>5
  <2>2. t = 0
    BY <2>1, <1>3, DayUnique
  <2>3. Second(t) = 0
    BY <2>2, <1>1 DEF Second
  <2> QED
    BY <2>3 DEF DateThenTime
<1> QED
  BY <1>1, <1>2, <1>4, <1>5

\* The whole seconds, the half one and the carry move the clock by half of what
\* calc_time gives, and lose nothing.
LEMMA MovedExact ==
  ASSUME NEW c \in Int, NEW n \in Int
  PROVE  /\ Moved(c, n) \in Int
         /\ 2 * Moved(c, n) = 2 * c + n * H
<1> DEFINE w == Whole(n)
           k == H \div 2
           h == (c % H) + HalfTicks(n)
           s == IF h < 0 THEN -1 ELSE IF h >= H THEN 1 ELSE 0
<1>1. H \in Int /\ H > 0 /\ k \in Int /\ 2 * k = H
  BY ClockAssumption
<1>2. w \in Int
  BY DEF Whole
<1>3. c % H \in Int /\ Second(c) \in Int /\ c = Second(c) * H + (c % H)
  BY ClockAssumption DEF Second
<1>4. HalfTicks(n) = (n - 2 * w) * k
  BY DEF HalfTicks
<1>5. h \in Int /\ s \in Int
  BY <1>1, <1>2, <1>3, <1>4
<1>6. Moved(c, n) = (Second(c) + w + s) * H + h - s * H
  BY DEF Moved
<1>7. (Second(c) + w + s) * H = Second(c) * H + w * H + s * H
  <2> HIDE DEF w, s, h, k
  <2> QED
    BY <1>1, <1>2, <1>3, <1>5
<1>8. Moved(c, n) = c + w * H + (n - 2 * w) * k
  <2>1. h = (c % H) + (n - 2 * w) * k
    BY <1>4
  <2> HIDE DEF w, s, h, k
  <2>2. /\ Second(c) * H \in Int /\ w * H \in Int /\ s * H \in Int
        /\ (n - 2 * w) * k \in Int
    BY <1>1, <1>2, <1>3, <1>5
  <2> QED
    BY <2>1, <2>2, <1>3, <1>5, <1>6, <1>7
<1> HIDE DEF w, k
<1>9. (n - 2 * w) * k = n * k - w * H
  BY <1>1, <1>2
<1>10. 2 * (n * k) = n * H
  BY <1>1
<1> QED
  BY <1>1, <1>2, <1>8, <1>9, <1>10

\* The offset of three stamps, each cut to its second, moves a clock that is ahead by
\* `ahead' to within half the round trip and a second.
LEMMA StampsSuffice ==
  ASSUME NEW sent \in Int, NEW served \in Int, NEW got \in Int, sent <= served, served <= got,
         NEW ahead \in Int, NEW after \in Int,
         2 * after = 2 * ahead
           + (Second(served) - Second(sent + ahead) + Second(served) - Second(got + ahead)) * H
  PROVE  2 * Magnitude(after) <= got - sent + 2 * H
<1> DEFINE a == Second(sent + ahead)
           b == Second(served)
           c == Second(got + ahead)
<1>1. H \in Int /\ H > 0
  BY ClockAssumption
<1>2. /\ a \in Int /\ a * H <= sent + ahead /\ sent + ahead < a * H + H
      /\ b \in Int /\ b * H <= served /\ served < b * H + H
      /\ c \in Int /\ c * H <= got + ahead /\ got + ahead < c * H + H
  BY SecondBounds
<1> HIDE DEF a, b, c
<1>3. (b - a + b - c) * H = 2 * (b * H) - a * H - c * H
  BY <1>1, <1>2
<1>4. 2 * after = 2 * ahead + (b - a + b - c) * H
  BY DEF a, b, c
<1>5. a * H \in Int /\ b * H \in Int /\ c * H \in Int
  BY <1>1, <1>2
<1> QED
  BY <1>1, <1>2, <1>3, <1>4, <1>5 DEF Magnitude

----------------------------------------------------------------------------
(* The invariant: every stamp in a datagram is that of a moment that has   *)
(* been, and the clock is not touched before an answer is chosen.          *)

\* Asked by time n, with the clock `ahead' ahead of it.
SntpStamped(r, n, ahead) == r.at \in Start..n /\ r.org = Second(r.at + ahead)

\* Answered no earlier than asked and no later than n.
SntpAnswered(a, n, ahead) == SntpStamped(a, n, ahead) /\ \E t \in a.at..n : a.rcv = Second(t)

SntpKept ==
  /\ now \in Int /\ Start <= now /\ skew \in Int /\ sum \in Int /\ torn \in BOOLEAN
  /\ rbuf \in Seq(SntpAnswers)
  /\ asked \subseteq SntpRequests /\ answers \subseteq SntpAnswers
  /\ spc \in {"search", "send", "recv", "set", "close", "end"}

OnTheirWay ==
  /\ \A r \in asked : SntpStamped(r, now, skew)
  /\ \A a \in answers : SntpAnswered(a, now, skew)
  /\ \A k \in 1..Len(rbuf) : SntpAnswered(rbuf[k], now, skew)

WhileAsking == spc \in {"search", "send", "recv"} => chosen = <<>> /\ OnTheirWay

WhenChosen ==
  spc = "set" =>
    /\ chosenAt \in Start..now
    /\ chosen \in SntpAnswers /\ SntpAnswered(chosen, chosenAt, skew)
    /\ ~torn => sum = Offset(chosen, Second(chosenAt + skew))

SntpInv == SntpKept /\ WhileAsking /\ WhenChosen /\ ClockSetRight

\* Nothing is asked or chosen when main() begins.
LEMMA SntpInitInv == ASSUME SntpInit PROVE SntpInv
<1>1. Start \in Int /\ Clocks \subseteq Int
  BY TimesAssumption
<1>2. now \in Int /\ Start <= now /\ skew \in Int /\ sum \in Int
  BY <1>1 DEF SntpInit
<1>3. rbuf \in Seq(SntpAnswers) /\ Len(rbuf) = 0
  BY DEF SntpInit
<1>4. torn = FALSE /\ spc = "search" /\ chosen = <<>> /\ asked = {} /\ answers = {}
  BY DEF SntpInit
<1>5. SntpKept
  BY <1>2, <1>3, <1>4 DEF SntpKept
<1>6. WhileAsking /\ WhenChosen
  BY <1>3, <1>4 DEF WhileAsking, OnTheirWay, WhenChosen
<1>7. ClockSetRight
  BY <1>4 DEF ClockSetRight
<1> QED
  BY <1>5, <1>6, <1>7 DEF SntpInv

\* A stamp stays true as time passes, and so does that of an answer.
LEMMA StampStays ==
  ASSUME NEW a, NEW n \in Int, NEW m \in Int, n <= m, NEW ahead, SntpStamped(a, n, ahead)
  PROVE  SntpStamped(a, m, ahead)
  BY TimesAssumption DEF SntpStamped

LEMMA AnswerStays ==
  ASSUME NEW a, NEW n \in Int, NEW m \in Int, n <= m, NEW ahead, SntpAnswered(a, n, ahead)
  PROVE  SntpAnswered(a, m, ahead)
<1>1. PICK t \in a.at..n : a.rcv = Second(t)
  BY DEF SntpAnswered
<1>2. a.at \in Int
  BY TimesAssumption DEF SntpAnswered, SntpStamped
<1>3. t \in a.at..m
  BY <1>1, <1>2
<1>4. SntpStamped(a, m, ahead)
  BY StampStays DEF SntpAnswered
<1> QED
  BY <1>1, <1>3, <1>4 DEF SntpAnswered

\* What only lets time pass keeps what is known of the datagrams.
LEMMA PassingKeeps ==
  ASSUME SntpKept, OnTheirWay, now' \in Int, now <= now', skew' = skew,
         UNCHANGED <<rbuf, asked, answers>>
  PROVE  OnTheirWay'
<1>1. now \in Int
  BY DEF SntpKept
<1>2. \A r \in asked : SntpStamped(r, now', skew)
  BY <1>1, StampStays DEF OnTheirWay
<1>3. \A a \in answers : SntpAnswered(a, now', skew)
  BY <1>1, AnswerStays DEF OnTheirWay
<1>4. \A k \in 1..Len(rbuf) : SntpAnswered(rbuf[k], now', skew)
  BY <1>1, AnswerStays DEF OnTheirWay
<1> QED
  BY <1>2, <1>3, <1>4 DEF OnTheirWay

\* Time passes by no tick or by one.
LEMMA PassesOn ==
  ASSUME now \in Int, NEW d \in Int, 0 <= d, Passes(d)
  PROVE  now' = now + d /\ now' \in Int /\ now <= now' /\ now + d <= MaxNow
  BY DEF Passes

----------------------------------------------------------------------------
(* The steps.                                                             *)

\* The look-up, a look that finds nothing, and the end of the tries.
LEMMA SntpWaitingKeepsInv ==
  ASSUME SntpInv, SntpFound \/ SntpNotFound \/ SntpGiveUp \/ SntpNoData
  PROVE  SntpInv'
<1>1. UNCHANGED <<now, skew, asked, answers, sum, chosen, chosenAt, torn>>
  BY DEF SntpFound, SntpNotFound, SntpGiveUp, SntpNoData
<1>2. rbuf' = <<>> \/ rbuf' = rbuf
  BY DEF SntpFound, SntpNotFound, SntpGiveUp, SntpNoData, NetUdpOpen, udpVars
<1>3. spc \in {"search", "send", "recv"} /\ spc' \in {"send", "close"}
  BY DEF SntpFound, SntpNotFound, SntpGiveUp, SntpNoData
<1>4. SntpKept /\ chosen = <<>> /\ OnTheirWay
  BY <1>3 DEF SntpInv, WhileAsking
<1>5. <<>> \in Seq(SntpAnswers) /\ Len(<<>>) = 0
  OBVIOUS
<1>6. SntpKept'
  BY <1>1, <1>2, <1>3, <1>4, <1>5 DEF SntpKept
<1>7. OnTheirWay'
  <2>1. CASE rbuf' = rbuf
    BY <1>1, <1>4, <2>1 DEF OnTheirWay
  <2>2. CASE rbuf' = <<>>
    <3>1. \A k \in 1..Len(rbuf') : SntpAnswered((rbuf')[k], now, skew)
      BY <2>2, <1>5
    <3> QED
      BY <1>1, <1>4, <3>1 DEF OnTheirWay
  <2> QED
    BY <1>2, <2>1, <2>2
<1> QED
  BY <1>1, <1>3, <1>4, <1>6, <1>7 DEF SntpInv, WhileAsking, WhenChosen, ClockSetRight

\* A request carries the second the clock shows.
LEMMA SntpSendKeepsInv == ASSUME SntpInv, SntpSend PROVE SntpInv'
<1>1. spc = "send" /\ spc' = "recv"
  BY DEF SntpSend
<1>2. SntpKept /\ chosen = <<>> /\ OnTheirWay
  BY <1>1 DEF SntpInv, WhileAsking
<1>3. UNCHANGED <<rbuf, skew, answers, sum, chosen, chosenAt, torn>>
  BY DEF SntpSend, udpVars
<1>4. PICK d \in 0..1, sent \in BOOLEAN :
        /\ Passes(d)
        /\ asked' = IF sent
                    THEN asked \cup {[at |-> now + d,
                                      org |-> Second(DateThenTime(Clock, d))]}
                    ELSE asked
  BY DEF SntpSend
<1>5. now \in Int /\ Start \in Int /\ Start <= now /\ skew \in Int /\ d \in Int /\ 0 <= d
  BY <1>2, TimesAssumption DEF SntpKept
<1>6. now' = now + d /\ now' \in Int /\ now <= now' /\ now + d <= MaxNow
  BY <1>4, <1>5 DEF Passes
<1>7. Clock \in Int /\ Clock + d = (now + d) + skew
  BY <1>5 DEF Clock
<1>8. DateThenTime(Clock, d) = (now + d) + skew
  BY <1>7, DateThenTimeExact
<1> DEFINE new == [at |-> now + d, org |-> Second(DateThenTime(Clock, d))]
<1>9. Second((now + d) + skew) \in Int
  BY <1>5, SecondBounds
<1>10. now + d \in Start..MaxNow /\ now + d \in Start..now'
  BY <1>5, <1>6, TimesAssumption
<1>11. new \in SntpRequests /\ SntpStamped(new, now', skew)
  BY <1>8, <1>9, <1>10 DEF SntpRequests, SntpStamped
<1> HIDE DEF new
<1>12. asked' \subseteq asked \cup {new}
  BY <1>4 DEF new
<1>13. SntpKept'
  BY <1>1, <1>2, <1>3, <1>5, <1>6, <1>11, <1>12 DEF SntpKept
<1>14. \A r \in asked : SntpStamped(r, now', skew)
  BY <1>2, <1>5, <1>6, StampStays DEF OnTheirWay
<1>15. \A a \in answers : SntpAnswered(a, now', skew)
  BY <1>2, <1>5, <1>6, AnswerStays DEF OnTheirWay
<1>16. \A k \in 1..Len(rbuf) : SntpAnswered(rbuf[k], now', skew)
  BY <1>2, <1>5, <1>6, AnswerStays DEF OnTheirWay
<1>17. OnTheirWay'
  BY <1>3, <1>11, <1>12, <1>14, <1>15, <1>16 DEF OnTheirWay
<1> QED
  BY <1>1, <1>2, <1>3, <1>13, <1>17 DEF SntpInv, WhileAsking, WhenChosen, ClockSetRight

\* The answer that is taken is one of those that came.
LEMMA SntpRecvKeepsInv == ASSUME SntpInv, SntpRecv PROVE SntpInv'
<1>1. spc = "recv" /\ spc' = "set" /\ rbuf # <<>> /\ rbuf' = Tail(rbuf) /\ chosen' = Head(rbuf)
  BY DEF SntpRecv, NetUdpRecvfrom
<1>2. SntpKept /\ OnTheirWay
  BY <1>1 DEF SntpInv, WhileAsking
<1>3. UNCHANGED <<skew, asked, answers>>
  BY DEF SntpRecv
<1>4. PICK d \in 0..1 :
        /\ Passes(d)
        /\ chosenAt' = now + d
        /\ sum' = Offset(Head(rbuf), Second(TimeThenDate(Clock, d)))
        /\ torn' = (TimeThenDate(Clock, d) # Clock + d)
  BY DEF SntpRecv
<1>5. now \in Int /\ Start \in Int /\ Start <= now /\ skew \in Int /\ d \in Int /\ 0 <= d
  BY <1>2, TimesAssumption DEF SntpKept
<1>6. now' = now + d /\ now' \in Int /\ now <= now'
  BY <1>4, <1>5 DEF Passes
<1>7. Head(rbuf) \in SntpAnswers /\ Tail(rbuf) \in Seq(SntpAnswers)
      /\ 1 \in 1..Len(rbuf) /\ rbuf[1] = Head(rbuf)
  BY <1>1, <1>2 DEF SntpKept
<1>8. SntpAnswered(Head(rbuf), now, skew)
  BY <1>2, <1>7 DEF OnTheirWay
<1>9. SntpAnswered(Head(rbuf), chosenAt', skew)
  BY <1>4, <1>5, <1>6, <1>8, AnswerStays
<1>10. Clock \in Int /\ Clock + d = chosenAt' + skew
  BY <1>4, <1>5 DEF Clock
<1>11. ~torn' => sum' = Offset(Head(rbuf), Second(chosenAt' + skew))
  BY <1>4, <1>10
<1>12. sum' \in Int
  <2>1. TimeThenDate(Clock, d) \in Int
    BY <1>5, <1>10, ClockAssumption DEF TimeThenDate, Joined
  <2>2. Second(TimeThenDate(Clock, d)) \in Int
    BY <2>1, SecondBounds
  <2>3. Head(rbuf).org \in Int /\ Head(rbuf).rcv \in Int
    BY <1>7 DEF SntpAnswers
  <2> QED
    BY <1>4, <2>2, <2>3 DEF Offset
<1>13. torn' \in BOOLEAN
  BY <1>4
<1>14. SntpKept'
  BY <1>1, <1>2, <1>3, <1>5, <1>6, <1>7, <1>12, <1>13 DEF SntpKept
<1>15. chosenAt' \in Start..now'
  BY <1>4, <1>5, <1>6
<1>16. WhenChosen'
  BY <1>1, <1>3, <1>7, <1>9, <1>11, <1>15 DEF WhenChosen
<1> QED
  BY <1>1, <1>14, <1>16 DEF SntpInv, WhileAsking, ClockSetRight

\* The clock is set: the step that ClockSetRight is about.
LEMMA SntpSetKeepsInv == ASSUME SntpInv, SntpSet PROVE SntpInv'
<1>1. spc = "set" /\ spc' = "close"
  BY DEF SntpSet
<1>2. /\ SntpKept /\ chosenAt \in Start..now
      /\ chosen \in SntpAnswers /\ SntpAnswered(chosen, chosenAt, skew)
      /\ ~torn => sum = Offset(chosen, Second(chosenAt + skew))
  BY <1>1 DEF SntpInv, WhenChosen
<1>3. UNCHANGED <<rbuf, asked, answers, sum, chosen, chosenAt>>
  BY DEF SntpSet, udpVars
<1> DEFINE Set(c, d) == TimeThenDateSet(Moved(DateThenTime(Clock, c), ToInt(sum)), d)
<1>4. PICK d1 \in 0..1, d2 \in 0..1 :
        /\ Passes(d1 + d2)
        /\ skew' = Set(d1, d2) - now'
        /\ torn' = (torn \/ Set(d1, d2) # Moved(DateThenTime(Clock, d1), ToInt(sum)) + d2)
  BY DEF SntpSet
<1>5. /\ now \in Int /\ Start \in Int /\ Start <= now /\ skew \in Int /\ sum \in Int
      /\ d1 \in Int /\ 0 <= d1 /\ d2 \in Int /\ 0 <= d2 /\ torn \in BOOLEAN
  BY <1>2, TimesAssumption DEF SntpKept
<1>6. now' = now + d1 + d2 /\ now' \in Int /\ now <= now'
  BY <1>4, <1>5 DEF Passes
<1>7. Clock \in Int /\ Clock = now + skew /\ DateThenTime(Clock, d1) = Clock + d1
  BY <1>5, DateThenTimeExact DEF Clock
<1>8. ToInt(sum) \in Int
  BY <1>5, ClockAssumption DEF ToInt
<1> DEFINE c == Moved(DateThenTime(Clock, d1), ToInt(sum))
<1>9. c \in Int /\ 2 * c = 2 * (Clock + d1) + ToInt(sum) * H
  BY <1>5, <1>7, <1>8, MovedExact
<1> HIDE DEF c
<1>10. Set(d1, d2) \in Int
  <2>1. TimeThenDateSet(c, d2) \in Int
    BY <1>5, <1>9, ClockAssumption DEF TimeThenDateSet, Joined
  <2> QED
    BY <2>1 DEF c
<1> HIDE DEF Set
<1>11. skew' \in Int
  BY <1>4, <1>6, <1>10
<1>12. torn' \in BOOLEAN
  BY <1>4
<1>13. SntpKept'
  BY <1>1, <1>2, <1>3, <1>5, <1>6, <1>11, <1>12 DEF SntpKept
<1>14. ASSUME ToInt(sum) = sum, ~torn'
       PROVE  2 * Magnitude(skew') <= chosenAt - chosen.at + 2 * H
  <2>1. ~torn /\ Set(d1, d2) = c + d2
    BY <1>4, <1>14 DEF c
  <2>2. skew' = (c + d2) - now'
    BY <1>4, <2>1, Zenon
  <2>3. 2 * skew' = 2 * skew + sum * H
    <3>1. H \in Int /\ sum * H \in Int
      BY <1>5, ClockAssumption
    <3>2. 2 * c = 2 * (Clock + d1) + sum * H
      BY <1>9, <1>14
    <3> QED
      BY <1>5, <1>6, <1>7, <1>9, <2>2, <3>1, <3>2
  <2>4. PICK t \in chosen.at..chosenAt : chosen.rcv = Second(t)
    BY <1>2 DEF SntpAnswered
  <2>5. chosen.org = Second(chosen.at + skew) /\ chosen.at \in Int /\ chosenAt \in Int
    BY <1>2, <1>5, TimesAssumption DEF SntpAnswered, SntpStamped
  <2>6. t \in Int /\ chosen.at <= t /\ t <= chosenAt
    BY <2>4, <2>5
  <2>7. sum = Second(t) - Second(chosen.at + skew) + Second(t) - Second(chosenAt + skew)
    BY <1>2, <2>1, <2>4, <2>5 DEF Offset
  <2>8. 2 * skew' = 2 * skew + (Second(t) - Second(chosen.at + skew) + Second(t)
                                - Second(chosenAt + skew)) * H
    BY <2>3, <2>7
  <2> QED
    BY <1>5, <1>11, <2>5, <2>6, <2>8, StampsSuffice
<1>15. ClockSetRight'
  BY <1>3, <1>14 DEF ClockSetRight
<1> QED
  BY <1>1, <1>13, <1>15 DEF SntpInv, WhileAsking, WhenChosen

\* udp_close, and the time after it.
LEMMA SntpCloseKeepsInv == ASSUME SntpInv, SntpClose PROVE SntpInv'
<1>1. spc = "close" /\ spc' = "end" /\ rbuf' = <<>>
  BY DEF SntpClose, NetUdpClose
<1>2. UNCHANGED <<now, skew, asked, answers, sum, chosen, chosenAt, torn>>
  BY DEF SntpClose
<1>3. rbuf' \in Seq(SntpAnswers)
  BY <1>1
<1>4. SntpKept'
  BY <1>1, <1>2, <1>3 DEF SntpInv, SntpKept
<1> QED
  BY <1>1, <1>2, <1>4 DEF SntpInv, WhileAsking, WhenChosen, ClockSetRight

\* The server answers a request in the second it is in, whichever request it is.
LEMMA SntpServeKeepsInv == ASSUME SntpInv, SntpServe PROVE SntpInv'
<1>1. spc \in {"send", "recv"} /\ UNCHANGED <<rbuf, spc, now, skew, asked, sum, chosen,
                                              chosenAt, torn>>
  BY DEF SntpServe, udpVars
<1>2. SntpKept /\ chosen = <<>> /\ OnTheirWay
  BY <1>1 DEF SntpInv, WhileAsking
<1>3. PICK r \in asked :
        answers' = answers \cup {[tid |-> Service, at |-> r.at, org |-> r.org,
                                  rcv |-> Second(now)]}
  BY DEF SntpServe
<1> DEFINE new == [tid |-> Service, at |-> r.at, org |-> r.org, rcv |-> Second(now)]
<1>4. r \in SntpRequests /\ SntpStamped(r, now, skew)
  BY <1>2, <1>3 DEF SntpKept, OnTheirWay
<1>5. Second(now) \in Int /\ now \in Int
  BY <1>2, SecondBounds DEF SntpKept
<1>6. new \in SntpAnswers
  BY <1>4, <1>5 DEF SntpRequests, SntpAnswers
<1>7. r.at \in Int /\ now \in r.at..now
  BY <1>4, <1>5, TimesAssumption DEF SntpStamped
<1>8. SntpAnswered(new, now, skew)
  BY <1>4, <1>7 DEF SntpAnswered, SntpStamped
<1> HIDE DEF new
<1>9. answers' = answers \cup {new}
  BY <1>3 DEF new
<1>10. SntpKept'
  BY <1>1, <1>2, <1>6, <1>9 DEF SntpKept
<1>11. OnTheirWay'
  BY <1>1, <1>2, <1>8, <1>9 DEF OnTheirWay
<1> QED
  BY <1>1, <1>2, <1>10, <1>11 DEF SntpInv, WhileAsking, WhenChosen, ClockSetRight

\* An answer arrives, or is dropped, and stays on its way: it may come again.
LEMMA SntpArriveKeepsInv == ASSUME SntpInv, SntpArrive PROVE SntpInv'
<1>1. spc \in {"send", "recv"} /\ UNCHANGED <<spc, now, skew, asked, answers, sum, chosen,
                                              chosenAt, torn>>
  BY DEF SntpArrive
<1>2. SntpKept /\ chosen = <<>> /\ OnTheirWay
  BY <1>1 DEF SntpInv, WhileAsking
<1>3. PICK a \in answers : UdpArrive(a)
  BY DEF SntpArrive
<1>4. rbuf' = Append(rbuf, a) \/ rbuf' = rbuf
  BY <1>3 DEF UdpArrive
<1>5. a \in SntpAnswers /\ SntpAnswered(a, now, skew) /\ rbuf \in Seq(SntpAnswers)
  BY <1>2, <1>3 DEF SntpKept, OnTheirWay
<1>6. rbuf' \in Seq(SntpAnswers)
  BY <1>4, <1>5
<1>7. \A k \in 1..Len(rbuf') : (rbuf')[k] = a \/ (k \in 1..Len(rbuf) /\ (rbuf')[k] = rbuf[k])
  BY <1>4, <1>5
<1>8. \A k \in 1..Len(rbuf') : SntpAnswered((rbuf')[k], now, skew)
  BY <1>2, <1>5, <1>7 DEF OnTheirWay
<1>9. SntpKept'
  BY <1>1, <1>2, <1>6 DEF SntpKept
<1>10. OnTheirWay'
  BY <1>1, <1>2, <1>8 DEF OnTheirWay
<1> QED
  BY <1>1, <1>2, <1>9, <1>10 DEF SntpInv, WhileAsking, WhenChosen, ClockSetRight

\* Time passes.
LEMMA SntpTickKeepsInv == ASSUME SntpInv, SntpTick PROVE SntpInv'
<1>1. UNCHANGED <<rbuf, spc, skew, asked, answers, sum, chosen, chosenAt, torn>>
  BY DEF SntpTick, udpVars
<1>2. SntpKept /\ now \in Int /\ now' = now + 1 /\ Start \in Int
  BY TimesAssumption DEF SntpInv, SntpKept, SntpTick, Passes
<1>3. now' \in Int /\ now <= now'
  BY <1>2
<1>4. SntpKept'
  BY <1>1, <1>2, <1>3 DEF SntpKept
<1>5. OnTheirWay => OnTheirWay'
  BY <1>1, <1>2, <1>3, PassingKeeps
<1>6. chosenAt \in Start..now => chosenAt' \in Start..now'
  BY <1>1, <1>2, <1>3
<1> QED
  BY <1>1, <1>4, <1>5, <1>6 DEF SntpInv, WhileAsking, WhenChosen, ClockSetRight

LEMMA SntpKeepsInv == ASSUME SntpInv, [SntpNext]_sntpVars PROVE SntpInv'
<1>1. CASE SntpNext
  BY <1>1, SntpWaitingKeepsInv, SntpSendKeepsInv, SntpRecvKeepsInv, SntpSetKeepsInv, SntpCloseKeepsInv,
     SntpServeKeepsInv, SntpArriveKeepsInv, SntpTickKeepsInv, Zenon
  DEF SntpNext, SntpClient
<1>2. CASE UNCHANGED sntpVars
  BY <1>2 DEF sntpVars, udpVars, SntpInv, SntpKept, WhileAsking, OnTheirWay, WhenChosen,
              ClockSetRight
<1> QED
  BY <1>1, <1>2

\* However many requests there are, whichever is answered, and however late: the
\* clock is off by at most half the round trip and a second (calc_time, line 188, and
\* the carry of udptime), for any length of a second, a day and an int.
THEOREM ClockSetRightHolds == SntpSpec => []ClockSetRight
<1>1. SntpInit => SntpInv
  BY SntpInitInv
<1>2. SntpInv /\ [SntpNext]_sntpVars => SntpInv'
  BY SntpKeepsInv
<1>3. SntpInv => ClockSetRight
  BY DEF SntpInv
<1> QED
  BY <1>1, <1>2, <1>3, PTL DEF SntpSpec

----------------------------------------------------------------------------
(* udpecho: how far an answer shown lags behind its string, for any       *)
(* number of strings, any receive buffer, either way of opening the       *)
(* handle and any losses.                                                 *)
\* An answer that is shown, one that waits in the buffer and one on its way each
\* belong to a string of their own: the place of an answer in the line of all that
\* are left is no greater than the number of its string.

EchoDatagrams == [tid : {Service, "other"}, num : Int]
EchoShown == [num : Int, wait : Int]

EchoTyped ==
  /\ rbuf \in Seq(EchoDatagrams) /\ wire \in Seq(Int) /\ shown \in Seq(EchoShown)
  /\ question \in Int /\ aborts \in Int

\* A wait ends with an answer or with a key.
EchoAccount == question = Len(shown) + aborts + (IF epc = "wait" THEN 1 ELSE 0)

EchoPlaces ==
  /\ Len(shown) + Len(rbuf) + Len(wire) <= question
  /\ \A k \in 1..Len(shown) :
       /\ k <= shown[k].num /\ shown[k].num <= shown[k].wait
       /\ shown[k].wait <= k + aborts
  /\ \A k \in 1..Len(rbuf) :
       Len(shown) + k <= rbuf[k].num /\ rbuf[k].num <= question
  /\ \A k \in 1..Len(wire) :
       Len(shown) + Len(rbuf) + k <= wire[k] /\ wire[k] <= question

\* A handle that names the host is given no other's datagrams.
HandleNamesHost == connected => handle \in {"closed", "service"}

EchoInv == HandleNamesHost /\ (~disturbed => EchoTyped /\ EchoAccount /\ EchoPlaces)

\* Nothing is asked or shown when main() begins.
LEMMA EchoInitInv == ASSUME EchoInit PROVE EchoInv
  BY DEF EchoInit, EchoInv, HandleNamesHost, EchoTyped, EchoAccount, EchoPlaces

\* What leaves the answers alone and only begins or ends no wait.
LEMMA AnswersAlone ==
  ASSUME EchoInv, UNCHANGED <<handle, rbuf, connected, question, wire, shown, aborts>>,
         ~disturbed' => ~disturbed, (epc' = "wait") <=> (epc = "wait")
  PROVE  EchoInv'
<1>1. HandleNamesHost'
  BY DEF EchoInv, HandleNamesHost
<1>2. ASSUME ~disturbed' PROVE EchoTyped' /\ EchoAccount' /\ EchoPlaces'
  BY <1>2 DEF EchoInv, EchoTyped, EchoAccount, EchoPlaces
<1> QED
  BY <1>1, <1>2 DEF EchoInv

\* The handle is opened or closed: what waits in the buffer is lost.
LEMMA EchoHandleKeepsInv == ASSUME EchoInv, EchoFound \/ EchoClose PROVE EchoInv'
<1>1. /\ UNCHANGED <<connected, question, wire, shown, aborts, disturbed>>
      /\ rbuf' = <<>> /\ epc # "wait" /\ epc' # "wait"
  BY DEF EchoFound, EchoClose, NetUdpOpen, NetUdpClose, EchoStart
<1>2. HandleNamesHost'
  BY DEF EchoFound, EchoClose, NetUdpOpen, NetUdpClose, HandleNamesHost, HandleKind
<1>3. ASSUME ~disturbed' PROVE EchoTyped' /\ EchoAccount' /\ EchoPlaces'
  <2>1. EchoTyped /\ EchoAccount /\ EchoPlaces
    BY <1>1, <1>3 DEF EchoInv
  <2>2. <<>> \in Seq(EchoDatagrams) /\ Len(<<>>) = 0
    OBVIOUS
  <2>3. EchoTyped' /\ EchoAccount'
    BY <1>1, <2>1, <2>2 DEF EchoTyped, EchoAccount
  <2>4. Len(rbuf) \in Int /\ Len(rbuf) >= 0 /\ Len(shown) \in Int /\ Len(wire) \in Int
    BY <2>1 DEF EchoTyped
  <2>5. \A k \in 1..Len(wire) : wire[k] \in Int
    BY <2>1 DEF EchoTyped
  <2>6. EchoPlaces'
    BY <1>1, <2>1, <2>2, <2>4, <2>5 DEF EchoPlaces, EchoTyped
  <2> QED
    BY <2>3, <2>6
<1> QED
  BY <1>2, <1>3 DEF EchoInv

\* The types of the places, once the streams are typed.
LEMMA PlaceTypes ==
  ASSUME EchoTyped
  PROVE  /\ Len(shown) \in Nat /\ Len(rbuf) \in Nat /\ Len(wire) \in Nat
         /\ \A k \in 1..Len(shown) : shown[k].num \in Int /\ shown[k].wait \in Int
         /\ \A k \in 1..Len(rbuf) : rbuf[k].num \in Int
         /\ \A k \in 1..Len(wire) : wire[k] \in Int
         /\ question \in Int /\ aborts \in Int
<1>1. \A k \in 1..Len(shown) : shown[k] \in EchoShown
  BY DEF EchoTyped
<1>2. \A k \in 1..Len(rbuf) : rbuf[k] \in EchoDatagrams
  BY DEF EchoTyped
<1>3. \A k \in 1..Len(wire) : wire[k] \in Int
  BY DEF EchoTyped
<1>4. Len(shown) \in Nat /\ Len(rbuf) \in Nat /\ Len(wire) \in Nat
  BY DEF EchoTyped
<1> QED
  BY <1>1, <1>2, <1>3, <1>4 DEF EchoTyped, EchoShown, EchoDatagrams

\* A string is sent, or the program ends.
LEMMA EchoAskKeepsInv == ASSUME EchoInv, EchoAsk PROVE EchoInv'
<1>1. /\ UNCHANGED <<handle, rbuf, connected, shown, aborts, disturbed>>
      /\ epc = "ask"
  BY DEF EchoAsk, udpVars
<1>2. HandleNamesHost'
  BY <1>1 DEF EchoInv, HandleNamesHost
<1>3. CASE epc' = "close" /\ UNCHANGED <<question, wire>>
  BY <1>1, <1>3, AnswersAlone
<1>4. CASE /\ epc' = "wait" /\ question' = question + 1
           /\ (wire' = Append(wire, question + 1) \/ wire' = wire)
  <2>1. ASSUME ~disturbed' PROVE EchoTyped' /\ EchoAccount' /\ EchoPlaces'
    <3>1. EchoTyped /\ EchoAccount /\ EchoPlaces
      BY <1>1, <2>1 DEF EchoInv
    <3>2. EchoTyped'
      <4>1. question' \in Int /\ wire \in Seq(Int) /\ Append(wire, question + 1) \in Seq(Int)
        BY <1>4, <3>1 DEF EchoTyped
      <4>2. wire' \in Seq(Int)
        BY <1>4, <4>1
      <4> QED
        BY <1>1, <3>1, <4>1, <4>2 DEF EchoTyped
    <3>3. EchoAccount'
      BY <1>1, <1>4, <3>1, PlaceTypes DEF EchoAccount
    <3>4. Len(wire') <= Len(wire) + 1 /\ Len(wire') \in Int /\ Len(wire) \in Int
      BY <1>4, <3>1, <3>2 DEF EchoTyped
    <3>5. Len(shown') + Len(rbuf') + Len(wire') <= question'
      BY <1>1, <1>4, <3>1, <3>4, PlaceTypes DEF EchoPlaces
    <3>6. \A k \in 1..Len(rbuf') :
            Len(shown') + k <= (rbuf')[k].num /\ (rbuf')[k].num <= question'
      BY <1>1, <1>4, <3>1, PlaceTypes DEF EchoPlaces
    <3>7. \A k \in 1..Len(wire') :
            Len(shown') + Len(rbuf') + k <= (wire')[k] /\ (wire')[k] <= question'
      <4> TAKE k \in 1..Len(wire')
      <4>1. CASE k \in 1..Len(wire) /\ (wire')[k] = wire[k]
        BY <1>1, <1>4, <3>1, <4>1, PlaceTypes DEF EchoPlaces
      <4>2. CASE k = Len(wire) + 1 /\ (wire')[k] = question + 1
        BY <1>1, <1>4, <3>1, <4>2, PlaceTypes DEF EchoPlaces
      <4>3. wire \in Seq(Int) /\ question + 1 \in Int
        BY <3>1 DEF EchoTyped
      <4> QED
        BY <1>4, <4>1, <4>2, <4>3, SMTT(40)
    <3>8. EchoPlaces'
      BY <1>1, <3>1, <3>5, <3>6, <3>7 DEF EchoPlaces
    <3> QED
      BY <3>2, <3>3, <3>8
  <2> QED
    BY <1>2, <2>1 DEF EchoInv
<1> QED
  BY <1>3, <1>4 DEF EchoAsk

\* An answer is shown: the first of the line takes the first place.
LEMMA EchoRecvKeepsInv == ASSUME EchoInv, EchoRecv PROVE EchoInv'
<1>1. /\ UNCHANGED <<handle, connected, question, wire, aborts, disturbed>>
      /\ epc = "wait" /\ epc' # "wait" /\ rbuf # <<>> /\ rbuf' = Tail(rbuf)
      /\ shown' = Append(shown, [num |-> Head(rbuf).num, wait |-> question])
  BY DEF EchoRecv, NetUdpRecvfrom, EchoStart
<1>2. HandleNamesHost'
  BY <1>1 DEF EchoInv, HandleNamesHost
<1>3. ASSUME ~disturbed' PROVE EchoTyped' /\ EchoAccount' /\ EchoPlaces'
  <2>1. EchoTyped /\ EchoAccount /\ EchoPlaces
    BY <1>1, <1>3 DEF EchoInv
  <2> DEFINE new == [num |-> Head(rbuf).num, wait |-> question]
  <2>2. /\ rbuf \in Seq(EchoDatagrams) /\ shown \in Seq(EchoShown)
        /\ 1 \in 1..Len(rbuf) /\ Head(rbuf) = rbuf[1]
        /\ Tail(rbuf) \in Seq(EchoDatagrams) /\ Len(Tail(rbuf)) = Len(rbuf) - 1
        /\ \A k \in 1..Len(Tail(rbuf)) : Tail(rbuf)[k] = rbuf[k + 1]
    BY <1>1, <2>1 DEF EchoTyped
  <2>3. new \in EchoShown /\ new.num = rbuf[1].num /\ new.wait = question
    BY <2>1, <2>2, PlaceTypes DEF EchoShown
  <2> HIDE DEF new
  <2>4. shown' = Append(shown, new)
    BY <1>1 DEF new
  <2>5. /\ shown' \in Seq(EchoShown) /\ Len(shown') = Len(shown) + 1
        /\ \A k \in 1..Len(shown) : (shown')[k] = shown[k]
        /\ (shown')[Len(shown) + 1] = new
    BY <2>2, <2>3, <2>4
  <2>6. EchoTyped'
    BY <1>1, <2>1, <2>2, <2>5 DEF EchoTyped
  <2>7. EchoAccount'
    BY <1>1, <2>1, <2>5, PlaceTypes DEF EchoAccount
  <2>8. Len(shown') + Len(rbuf') + Len(wire') <= question'
    BY <1>1, <2>1, <2>2, <2>5, PlaceTypes DEF EchoPlaces
  <2>9. \A k \in 1..Len(shown') :
          /\ k <= (shown')[k].num /\ (shown')[k].num <= (shown')[k].wait
          /\ (shown')[k].wait <= k + aborts'
    <3> TAKE k \in 1..Len(shown')
    <3>1. CASE k \in 1..Len(shown)
      BY <1>1, <2>1, <2>5, <3>1 DEF EchoPlaces
    <3>2. CASE k = Len(shown) + 1
      <4>1. k <= new.num /\ new.num <= question
        BY <2>1, <2>2, <2>3, <3>2, PlaceTypes DEF EchoPlaces
      <4>2. question = k + aborts
        BY <1>1, <2>1, <3>2, PlaceTypes DEF EchoAccount
      <4>3. (shown')[k] = new /\ aborts' = aborts /\ question \in Int
        BY <1>1, <2>1, <2>5, <3>2, PlaceTypes
      <4> QED
        BY <4>1, <4>2, <4>3, <2>3
    <3> QED
      BY <2>1, <2>5, <3>1, <3>2, PlaceTypes
  <2>10. \A k \in 1..Len(rbuf') :
           Len(shown') + k <= (rbuf')[k].num /\ (rbuf')[k].num <= question'
    <3> TAKE k \in 1..Len(rbuf')
    <3>1. k + 1 \in 1..Len(rbuf) /\ (rbuf')[k] = rbuf[k + 1] /\ k \in Int
      BY <1>1, <2>1, <2>2, PlaceTypes
    <3>2. Len(shown) + (k + 1) <= rbuf[k + 1].num /\ rbuf[k + 1].num <= question
      BY <2>1, <3>1 DEF EchoPlaces
    <3> QED
      BY <1>1, <2>1, <2>5, <3>1, <3>2, PlaceTypes
  <2>11. \A k \in 1..Len(wire') :
           Len(shown') + Len(rbuf') + k <= (wire')[k] /\ (wire')[k] <= question'
    BY <1>1, <2>1, <2>2, <2>5, PlaceTypes DEF EchoPlaces
  <2> QED
    BY <2>6, <2>7, <2>8, <2>9, <2>10, <2>11 DEF EchoPlaces
<1> QED
  BY <1>2, <1>3 DEF EchoInv

\* A key ends the wait.
LEMMA EchoAbortKeepsInv == ASSUME EchoInv, EchoAbort PROVE EchoInv'
<1>1. /\ UNCHANGED <<handle, rbuf, connected, question, wire, shown, disturbed>>
      /\ epc = "wait" /\ epc' # "wait" /\ aborts' = aborts + 1
  BY DEF EchoAbort, Interrupted, udpVars, EchoStart
<1>2. HandleNamesHost'
  BY <1>1 DEF EchoInv, HandleNamesHost
<1>3. ASSUME ~disturbed' PROVE EchoTyped' /\ EchoAccount' /\ EchoPlaces'
  <2>1. EchoTyped /\ EchoAccount /\ EchoPlaces
    BY <1>1, <1>3 DEF EchoInv
  <2>2. EchoTyped'
    BY <1>1, <2>1 DEF EchoTyped
  <2>3. EchoAccount'
    BY <1>1, <2>1, PlaceTypes DEF EchoAccount
  <2>4. \A k \in 1..Len(shown) : shown[k].wait <= k + (aborts + 1)
    BY <2>1, PlaceTypes DEF EchoPlaces
  <2>5. EchoPlaces'
    BY <1>1, <2>1, <2>4 DEF EchoPlaces
  <2> QED
    BY <2>2, <2>3, <2>5
<1> QED
  BY <1>2, <1>3 DEF EchoInv

\* The oldest answer arrives behind those that wait, or is dropped.
LEMMA EchoArriveKeepsInv == ASSUME EchoInv, EchoArrive PROVE EchoInv'
<1>1. /\ UNCHANGED <<handle, connected, question, shown, aborts, disturbed, epc>>
      /\ wire # <<>> /\ wire' = Tail(wire)
      /\ (rbuf' = Append(rbuf, Echo(Head(wire))) \/ rbuf' = rbuf)
  BY DEF EchoArrive, UdpArrive
<1>2. HandleNamesHost'
  BY <1>1 DEF EchoInv, HandleNamesHost
<1>3. ASSUME ~disturbed' PROVE EchoTyped' /\ EchoAccount' /\ EchoPlaces'
  <2>1. EchoTyped /\ EchoAccount /\ EchoPlaces
    BY <1>1, <1>3 DEF EchoInv
  <2>2. /\ wire \in Seq(Int) /\ rbuf \in Seq(EchoDatagrams)
        /\ 1 \in 1..Len(wire) /\ Head(wire) = wire[1]
        /\ Tail(wire) \in Seq(Int) /\ Len(Tail(wire)) = Len(wire) - 1
        /\ \A k \in 1..Len(Tail(wire)) : Tail(wire)[k] = wire[k + 1]
    BY <1>1, <2>1 DEF EchoTyped
  <2> DEFINE new == Echo(Head(wire))
  <2>3. new \in EchoDatagrams /\ new.num = wire[1]
    BY <2>2 DEF Echo, EchoDatagrams
  <2> HIDE DEF new
  <2>4. rbuf' = Append(rbuf, new) \/ rbuf' = rbuf
    BY <1>1 DEF new
  <2>5. /\ rbuf' \in Seq(EchoDatagrams) /\ Len(rbuf') \in Int
        /\ Len(rbuf') >= Len(rbuf) /\ Len(rbuf') <= Len(rbuf) + 1
    BY <2>2, <2>3, <2>4, SMTT(40)
  <2>6. EchoTyped'
    BY <1>1, <2>1, <2>2, <2>5 DEF EchoTyped
  <2>7. EchoAccount'
    BY <1>1, <2>1 DEF EchoAccount
  <2>8. Len(shown') + Len(rbuf') + Len(wire') <= question'
    BY <1>1, <2>1, <2>2, <2>5, PlaceTypes DEF EchoPlaces
  <2>9. \A k \in 1..Len(rbuf') :
          Len(shown') + k <= (rbuf')[k].num /\ (rbuf')[k].num <= question'
    <3> TAKE k \in 1..Len(rbuf')
    <3>1. \/ k \in 1..Len(rbuf) /\ (rbuf')[k] = rbuf[k]
          \/ k = Len(rbuf) + 1 /\ (rbuf')[k] = new
      BY <2>2, <2>3, <2>4
    <3>2. CASE k \in 1..Len(rbuf) /\ (rbuf')[k] = rbuf[k]
      BY <1>1, <2>1, <3>2 DEF EchoPlaces
    <3>3. CASE k = Len(rbuf) + 1 /\ (rbuf')[k] = new
      <4>1. Len(shown) + Len(rbuf) + 1 <= wire[1] /\ wire[1] <= question
        BY <2>1, <2>2 DEF EchoPlaces
      <4> QED
        BY <1>1, <2>1, <2>3, <3>3, <4>1, PlaceTypes
    <3> QED
      BY <3>1, <3>2, <3>3
  <2>10. \A k \in 1..Len(wire') :
           Len(shown') + Len(rbuf') + k <= (wire')[k] /\ (wire')[k] <= question'
    <3> TAKE k \in 1..Len(wire')
    <3>1. k + 1 \in 1..Len(wire) /\ (wire')[k] = wire[k + 1] /\ k \in Int
      BY <1>1, <2>1, <2>2, PlaceTypes
    <3>2. Len(shown) + Len(rbuf) + (k + 1) <= wire[k + 1] /\ wire[k + 1] <= question
      BY <2>1, <3>1 DEF EchoPlaces
    <3> QED
      BY <1>1, <2>1, <2>5, <3>1, <3>2, PlaceTypes
  <2>11. EchoPlaces'
    BY <1>1, <2>1, <2>8, <2>9, <2>10 DEF EchoPlaces
  <2> QED
    BY <2>6, <2>7, <2>11
<1> QED
  BY <1>2, <1>3 DEF EchoInv

\* What disturbs the line is noted; a handle that names the host lets nobody else in.
LEMMA EchoOthersKeepInv == ASSUME EchoInv, EchoDisturb \/ EchoForeign PROVE EchoInv'
<1>1. UNCHANGED <<handle, connected, question, wire, shown, aborts, epc>>
  BY DEF EchoDisturb, EchoForeign, UdpArrive
<1>2. HandleNamesHost'
  BY <1>1 DEF EchoInv, HandleNamesHost
<1>3. CASE EchoDisturb
  BY <1>2, <1>3 DEF EchoDisturb, EchoInv
<1>4. CASE EchoForeign
  <2>1. CASE connected
    <3>1. ~Accepts(handle, "other")
      BY <2>1 DEF EchoInv, HandleNamesHost, Accepts, Service
    <3>2. rbuf' = rbuf
      BY <1>4, <3>1 DEF EchoForeign, UdpArrive, Foreign
    <3>3. ~disturbed' => ~disturbed
      BY <1>4 DEF EchoForeign
    <3> QED
      BY <1>1, <3>2, <3>3, AnswersAlone
  <2>2. CASE ~connected
    BY <1>2, <1>4, <2>2 DEF EchoForeign, EchoInv
  <2> QED
    BY <2>1, <2>2
<1> QED
  BY <1>3, <1>4

\* Keys, addresses and a search that fails.
LEMMA EchoKeysKeepInv == ASSUME EchoInv, EchoNotFound \/ EchoHost \/ EchoKey PROVE EchoInv'
<1>1. UNCHANGED <<handle, rbuf, connected, question, wire, shown, aborts, disturbed>>
  BY DEF EchoNotFound, EchoHost, EchoKey, udpVars
<1>2. (epc' = "wait") <=> (epc = "wait")
  BY DEF EchoNotFound, EchoHost, EchoKey
<1> QED
  BY <1>1, <1>2, AnswersAlone

LEMMA EchoKeepsInv == ASSUME EchoInv, [EchoNext]_echoVars PROVE EchoInv'
<1>1. CASE EchoNext
  BY <1>1, EchoHandleKeepsInv, EchoAskKeepsInv, EchoRecvKeepsInv, EchoAbortKeepsInv, EchoArriveKeepsInv,
     EchoOthersKeepInv, EchoKeysKeepInv, Zenon
  DEF EchoNext
<1>2. CASE UNCHANGED echoVars
  <2>1. UNCHANGED <<handle, rbuf, connected, question, wire, shown, aborts, disturbed, epc>>
    BY <1>2 DEF echoVars, udpVars
  <2> QED
    BY <2>1, AnswersAlone
<1> QED
  BY <1>1, <1>2

\* What the invariant is for.
LEMMA EchoInvLags == ASSUME EchoInv PROVE AnswerLag
<1> SUFFICES ASSUME ~disturbed, NEW k \in 1..Len(shown)
             PROVE  shown[k].num \in shown[k].wait - aborts..shown[k].wait
  BY DEF AnswerLag
<1>1. EchoTyped /\ EchoPlaces
  BY DEF EchoInv
<1>2. /\ shown[k].num \in Int /\ shown[k].wait \in Int /\ aborts \in Int /\ k \in Int
      /\ k <= shown[k].num /\ shown[k].num <= shown[k].wait
      /\ shown[k].wait <= k + aborts
  BY <1>1, PlaceTypes DEF EchoPlaces
<1> QED
  BY <1>2

\* What a wait shows is the answer to its own string or to one at most as many strings
\* earlier as waits were aborted (udpecho and udpecho_noconnection), as long as the
\* network keeps order and nobody else is heard.
THEOREM AnswerLagHolds == EchoSpec => []AnswerLag
<1>1. EchoInit => EchoInv
  BY EchoInitInv
<1>2. EchoInv /\ [EchoNext]_echoVars => EchoInv'
  BY EchoKeepsInv
<1>3. EchoInv => AnswerLag
  BY EchoInvLags
<1> QED
  BY <1>1, <1>2, <1>3, PTL DEF EchoSpec

----------------------------------------------------------------------------
(* ping: the delays and the loss it prints, for any interval, width of a  *)
(* uint, number of requests and of answers.                               *)
PingRequests == [seq : Nat, ts : Int]
PingLines == [seq : Int, start : Int]

\* No two requests carry the same time: each is at least an interval after the last.
PingSent ==
  /\ mtime \in Int /\ last \in Int /\ pnow \in Int /\ last <= mtime
  /\ IsFiniteSet(requests) /\ requests \subseteq PingRequests
  /\ \A r \in requests : r.ts <= last
  /\ requests = {} => last = 0
  /\ requests # {} => last > 0
  /\ mtime >= 0
  /\ sentcount = Cardinality(requests) % UintMod

\* An answer that waits is one to a request.
PingWaiting ==
  slot.type = "reply" => [seq |-> slot.seq, ts |-> slot.ts] \in requests

PingPrinted ==
  /\ printed \in Seq(PingLines)
  /\ receivedcount = Len(printed) % UintMod
  /\ DelayFromItsRequest

PingAccount == ppc = "end" => sentcount # 0 /\ loss = Percent(sentcount, receivedcount)

PingInv == PingSent /\ PingWaiting /\ PingPrinted /\ PingAccount

\* Nothing is sent or printed when ping() begins.
LEMMA PingInitInv == ASSUME PingInit PROVE PingInv
<1>1. 0 % UintMod = 0
  BY PingAssumption
<1>2. IsFiniteSet({}) /\ Cardinality({}) = 0
  BY FS_EmptySet
<1>3. PingSent
  BY <1>1, <1>2 DEF PingInit, PingSent
<1>4. PingWaiting /\ PingAccount
  BY DEF PingInit, NoMessage, PingWaiting, PingAccount
<1>5. PingPrinted
  <2>1. printed \in Seq(PingLines) /\ Len(printed) = 0
    BY DEF PingInit
  <2> QED
    BY <1>1, <2>1 DEF PingInit, PingPrinted, DelayFromItsRequest
<1> QED
  BY <1>3, <1>4, <1>5 DEF PingInv

\* A request more keeps those before it.
LEMMA PrintedStays ==
  ASSUME PingPrinted, UNCHANGED <<printed, receivedcount>>, requests \subseteq requests'
  PROVE  PingPrinted'
  BY DEF PingPrinted, DelayFromItsRequest

\* A number's quotient and remainder by the width of a uint.
LEMMA UintParts ==
  ASSUME NEW c \in Int
  PROVE  /\ c \div UintMod \in Int /\ c % UintMod \in 0..(UintMod - 1)
         /\ c = (c \div UintMod) * UintMod + (c % UintMod)
  BY PingAssumption

\* They are the only ones.
LEMMA RemainderIs ==
  ASSUME NEW c \in Int, NEW q \in Int, NEW r \in 0..(UintMod - 1), c = q * UintMod + r
  PROVE  c % UintMod = r
<1> DEFINE p == c \div UintMod
           m == c % UintMod
<1>1. UintMod \in Int /\ UintMod > 0
  BY PingAssumption
<1>2. p \in Int /\ m \in 0..(UintMod - 1) /\ c = p * UintMod + m
  BY UintParts
<1> HIDE DEF p, m
<1>3. (q - p) * UintMod = m - r /\ (p - q) * UintMod = r - m
  BY <1>1, <1>2
<1>4. ~(q - p >= 1)
  <2>1. ASSUME q - p >= 1 PROVE (q - p) * UintMod >= UintMod
    BY <2>1, <1>1, <1>2
  <2> QED
    BY <2>1, <1>1, <1>2, <1>3
<1>5. ~(p - q >= 1)
  <2>1. ASSUME p - q >= 1 PROVE (p - q) * UintMod >= UintMod
    BY <2>1, <1>1, <1>2
  <2> QED
    BY <2>1, <1>1, <1>2, <1>3
<1>6. m = r
  BY <1>1, <1>2, <1>3, <1>4, <1>5
<1> QED
  BY <1>6 DEF m

\* A number that a uint holds is what the uint holds.
LEMMA SmallStays ==
  ASSUME NEW n \in Nat, n < UintMod
  PROVE  n % UintMod = n
<1>1. UintMod \in Int /\ n = 0 * UintMod + n /\ n \in 0..(UintMod - 1)
  BY PingAssumption
<1> QED
  BY <1>1, RemainderIs

\* One more than a number of requests, counted in a uint.
LEMMA CountsOn ==
  ASSUME NEW n \in Nat
  PROVE  ((n % UintMod) + 1) % UintMod = (n + 1) % UintMod
<1> DEFINE q == n \div UintMod
           r == n % UintMod
<1>1. UintMod \in Int /\ UintMod > 0
  BY PingAssumption
<1>2. q \in Int /\ r \in 0..(UintMod - 1) /\ n = q * UintMod + r
  BY UintParts
<1> HIDE DEF q, r
<1>3. CASE r + 1 < UintMod
  <2>1. /\ n + 1 \in Int /\ r + 1 \in Int /\ r + 1 \in 0..(UintMod - 1)
        /\ n + 1 = q * UintMod + (r + 1) /\ r + 1 = 0 * UintMod + (r + 1)
    BY <1>1, <1>2, <1>3
  <2>2. (n + 1) % UintMod = r + 1 /\ (r + 1) % UintMod = r + 1
    BY <1>2, <2>1, RemainderIs
  <2> QED
    BY <2>2 DEF r
<1>4. CASE r + 1 = UintMod
  <2>1. /\ n + 1 \in Int /\ r + 1 \in Int /\ 0 \in 0..(UintMod - 1) /\ q + 1 \in Int
        /\ n + 1 = (q + 1) * UintMod + 0 /\ r + 1 = 1 * UintMod + 0
    BY <1>1, <1>2, <1>4
  <2>2. (n + 1) % UintMod = 0 /\ (r + 1) % UintMod = 0
    BY <2>1, RemainderIs
  <2> QED
    BY <2>2 DEF r
<1> QED
  BY <1>1, <1>2, <1>3, <1>4

\* A turn of the loop: a request is sent when its second is over.
LEMMA PingTurnKeepsInv == ASSUME PingInv, PingTurn PROVE PingInv'
<1>1. /\ ppc = "turn" /\ ppc' = "look" /\ pnow' = mtime
      /\ UNCHANGED <<mtime, receivedcount, slot, arrived, printed, loss>>
  BY DEF PingTurn
<1>2. PingSent /\ PingWaiting /\ PingPrinted
  BY DEF PingInv
<1>3. CASE UNCHANGED <<requests, last, sentcount>>
  <2>1. PingSent' /\ PingWaiting'
    BY <1>1, <1>2, <1>3 DEF PingSent, PingWaiting
  <2>2. PingPrinted'
    BY <1>1, <1>2, <1>3, PrintedStays
  <2> QED
    BY <1>1, <2>1, <2>2 DEF PingInv, PingAccount
<1>4. CASE PingSend
  <2> DEFINE new == [seq |-> sentcount, ts |-> mtime]
  <2>1. /\ mtime - last >= Interval /\ requests' = requests \cup {new}
        /\ last' = mtime /\ sentcount' = (sentcount + 1) % UintMod
    BY <1>4 DEF PingSend
  <2>2. Cardinality(requests) \in Nat
    BY <1>2, FS_CardinalityType DEF PingSent
  <2>3. sentcount \in Nat
    BY <1>2, <2>2, PingAssumption DEF PingSent
  <2>4. mtime \in Int /\ last \in Int /\ last < mtime /\ last >= 0
    <3>1. last >= 0 /\ mtime \in Int /\ last \in Int
      BY <1>2 DEF PingSent
    <3> QED
      BY <2>1, <3>1, PingAssumption
  <2>5. new \notin requests
    BY <1>2, <2>4 DEF PingSent
  <2>6. new \in PingRequests /\ new.ts = mtime
    BY <2>3, <2>4 DEF PingRequests
  <2> HIDE DEF new
  <2>7. IsFiniteSet(requests') /\ Cardinality(requests') = Cardinality(requests) + 1
    BY <1>2, <2>1, <2>5, FS_AddElement DEF PingSent
  <2>8. sentcount' = Cardinality(requests') % UintMod
    BY <1>2, <2>1, <2>2, <2>7, CountsOn DEF PingSent
  <2>9. \A r \in requests' : r.ts <= last'
    <3> TAKE r \in requests'
    <3>1. CASE r = new
      BY <2>1, <2>4, <2>6, <3>1
    <3>2. CASE r \in requests
      <4>1. r.ts <= last /\ r.ts \in Int
        BY <1>2, <3>2 DEF PingSent, PingRequests
      <4> QED
        BY <2>1, <2>4, <4>1
    <3> QED
      BY <2>1, <3>1, <3>2
  <2>10. PingSent'
    BY <1>1, <1>2, <2>1, <2>4, <2>6, <2>7, <2>8, <2>9 DEF PingSent
  <2>11. PingWaiting'
    BY <1>1, <1>2, <2>1 DEF PingWaiting
  <2>12. PingPrinted'
    BY <1>1, <1>2, <2>1, PrintedStays
  <2> QED
    BY <1>1, <2>10, <2>11, <2>12 DEF PingInv, PingAccount
<1> QED
  BY <1>3, <1>4 DEF PingTurn

\* The message that waits is taken, and the account made if a key was pressed.
LEMMA PingTakeKeepsInv == ASSUME PingInv, PingTake PROVE PingInv'
<1>1. /\ ppc = "look" /\ slot' = NoMessage
      /\ UNCHANGED <<mtime, pnow, last, sentcount, requests, arrived>>
  BY DEF PingTake
<1>2. PingSent /\ PingWaiting /\ PingPrinted
  BY DEF PingInv
<1>3. PingSent'
  BY <1>1, <1>2 DEF PingSent
<1>4. PingWaiting'
  BY <1>1 DEF PingWaiting, NoMessage
<1>5. PingAccount'
  BY <1>1 DEF PingTake, PingAccount
<1>6. CASE ~Counts(slot)
  <2>1. UNCHANGED <<receivedcount, printed>>
    BY <1>6 DEF PingTake
  <2>2. PingPrinted'
    BY <1>1, <1>2, <2>1, PrintedStays
  <2> QED
    BY <1>3, <1>4, <1>5, <2>2 DEF PingInv
<1>7. CASE Counts(slot)
  <2> DEFINE new == [seq |-> slot.seq, start |-> pnow - Delay(slot)]
  <2>1. receivedcount' = (receivedcount + 1) % UintMod /\ printed' = Append(printed, new)
    BY <1>7 DEF PingTake
  <2>2. [seq |-> slot.seq, ts |-> slot.ts] \in requests
    BY <1>2, <1>7 DEF Counts, PingWaiting
  <2>3. slot.seq \in Nat /\ slot.ts \in Int /\ pnow \in Int
    BY <1>2, <2>2 DEF PingSent, PingRequests
  <2>4. pnow - Delay(slot) = slot.ts
    BY <2>3 DEF Delay
  <2>5. new \in PingLines /\ new.seq = slot.seq /\ new.start = slot.ts
    BY <2>3, <2>4 DEF PingLines
  <2> HIDE DEF new
  <2>6. printed \in Seq(PingLines) /\ receivedcount = Len(printed) % UintMod
    BY <1>2 DEF PingPrinted
  <2>7. /\ printed' \in Seq(PingLines) /\ Len(printed') = Len(printed) + 1 /\ Len(printed) \in Nat
        /\ \A k \in 1..Len(printed') :
             \/ k \in 1..Len(printed) /\ (printed')[k] = printed[k]
             \/ (printed')[k] = new
    BY <2>1, <2>5, <2>6
  <2>8. receivedcount' = Len(printed') % UintMod
    BY <2>1, <2>6, <2>7, CountsOn
  <2>9. DelayFromItsRequest'
    <3>1. \A k \in 1..Len(printed) :
            [seq |-> printed[k].seq, ts |-> printed[k].start] \in requests
      BY <1>2 DEF PingPrinted, DelayFromItsRequest
    <3>2. [seq |-> new.seq, ts |-> new.start] \in requests
      BY <2>2, <2>5
    <3>3. ASSUME NEW k \in 1..Len(printed')
          PROVE  [seq |-> (printed')[k].seq, ts |-> (printed')[k].start] \in requests
      BY <2>7, <3>1, <3>2
    <3> QED
      BY <1>1, <3>3 DEF DelayFromItsRequest
  <2>10. PingPrinted'
    BY <2>7, <2>8, <2>9 DEF PingPrinted
  <2> QED
    BY <1>3, <1>4, <1>5, <2>10 DEF PingInv
<1> QED
  BY <1>6, <1>7

\* An ICMP message arrives, or time passes.
LEMMA PingNetworkKeepsInv == ASSUME PingInv, PingReply \/ PingOther \/ PingTick PROVE PingInv'
<1>1. UNCHANGED <<ppc, pnow, last, sentcount, receivedcount, requests, printed, loss>>
  BY DEF PingReply, PingOther, PingTick
<1>2. ppc # "end"
  BY DEF PingReply, PingOther, PingTick, Running
<1>3. PingSent /\ PingWaiting /\ PingPrinted
  BY DEF PingInv
<1>4. mtime' = mtime \/ mtime' = mtime + 1
  BY DEF PingReply, PingOther, PingTick
<1>5. PingSent'
  <2>1. mtime' \in Int /\ mtime' >= 0 /\ last <= mtime'
    BY <1>3, <1>4 DEF PingSent
  <2> QED
    BY <1>1, <1>3, <2>1 DEF PingSent
<1>6. PingWaiting'
  <2>1. CASE PingReply
    <3>1. PICK r \in requests : slot' = [type |-> "reply", seq |-> r.seq, ts |-> r.ts]
      BY <2>1 DEF PingReply
    <3>2. r \in PingRequests
      BY <1>3 DEF PingSent
    <3>3. [seq |-> slot'.seq, ts |-> slot'.ts] = r
      BY <3>1, <3>2 DEF PingRequests
    <3> QED
      BY <1>1, <3>3 DEF PingWaiting
  <2>2. CASE PingOther
    BY <2>2 DEF PingOther, NoMessage, PingWaiting
  <2>3. CASE PingTick
    BY <1>1, <1>3, <2>3 DEF PingTick, PingWaiting
  <2> QED
    BY <2>1, <2>2, <2>3
<1>7. PingPrinted'
  BY <1>1, <1>3, PrintedStays
<1> QED
  BY <1>1, <1>2, <1>5, <1>6, <1>7 DEF PingInv, PingAccount

LEMMA PingKeepsInv == ASSUME PingInv, [PingNext]_pingVars PROVE PingInv'
<1>1. CASE PingNext
  BY <1>1, PingTurnKeepsInv, PingTakeKeepsInv, PingNetworkKeepsInv, Zenon DEF PingNext
<1>2. CASE UNCHANGED pingVars
  BY <1>2 DEF pingVars, PingInv, PingSent, PingWaiting, PingPrinted, DelayFromItsRequest, PingAccount
<1> QED
  BY <1>1, <1>2

\* The invariant holds in every state of every run.
THEOREM PingInvHolds == PingSpec => []PingInv
<1>1. PingInit => PingInv
  BY PingInitInv
<1>2. PingInv /\ [PingNext]_pingVars => PingInv'
  BY PingKeepsInv
<1> QED
  BY <1>1, <1>2, PTL DEF PingSpec

\* Each delay printed counts from the moment the request with its number was sent,
\* in whatever order the answers come and however late.
THEOREM DelayHolds == PingSpec => []DelayFromItsRequest
<1>1. PingInv => DelayFromItsRequest
  BY DEF PingInv, PingPrinted
<1> QED
  BY <1>1, PingInvHolds, PTL

\* The numbers of the answers printed are among those of the requests.
LEMMA AnswersFewer ==
  ASSUME PingInv
  PROVE  /\ Cardinality(requests) \in Nat /\ Cardinality(AnsweredSeqs) \in Nat
         /\ Cardinality(AnsweredSeqs) <= Cardinality(requests)
<1> DEFINE seqs == {r.seq : r \in requests}
           f == [r \in requests |-> r.seq]
<1>1. IsFiniteSet(requests)
  BY DEF PingInv, PingSent
<1>2. f \in Surjection(requests, seqs)
  BY DEF Surjection
<1> HIDE DEF f
<1>3. IsFiniteSet(seqs) /\ Cardinality(seqs) <= Cardinality(requests)
  BY <1>1, <1>2, FS_Surjection
<1>4. AnsweredSeqs \subseteq seqs
  <2>1. ASSUME NEW k \in 1..Len(printed) PROVE printed[k].seq \in seqs
    <3> DEFINE r == [seq |-> printed[k].seq, ts |-> printed[k].start]
    <3>1. r \in requests
      BY DEF PingInv, PingPrinted, DelayFromItsRequest
    <3>2. r.seq = printed[k].seq
      OBVIOUS
    <3> QED
      BY <3>1, <3>2
  <2> HIDE DEF seqs
  <2> QED
    BY <2>1 DEF AnsweredSeqs
<1> HIDE DEF seqs
<1>5. IsFiniteSet(AnsweredSeqs) /\ Cardinality(AnsweredSeqs) <= Cardinality(seqs)
  BY <1>3, <1>4, FS_Subset
<1>6. /\ Cardinality(requests) \in Nat /\ Cardinality(seqs) \in Nat
      /\ Cardinality(AnsweredSeqs) \in Nat
  BY <1>1, <1>3, <1>5, FS_CardinalityType
<1> QED
  BY <1>3, <1>5, <1>6

LEMMA PingInvShares == ASSUME PingInv PROVE LossIsShare
<1> DEFINE n == Cardinality(requests)
           c == Cardinality(AnsweredSeqs)
<1> SUFFICES ASSUME ppc = "end", n < UintMod, c = Len(printed), (n - c) * Hundred < UintMod
             PROVE  loss = ((n - c) * Hundred) \div n
  BY DEF LossIsShare
<1>1. n \in Nat /\ c \in Nat /\ c <= n
  BY AnswersFewer
<1>2. /\ sentcount = n % UintMod /\ receivedcount = c % UintMod
      /\ loss = (((sentcount - receivedcount) * Hundred) % UintMod) \div sentcount
  BY DEF PingInv, PingSent, PingPrinted, PingAccount, Percent
<1> HIDE DEF n, c
<1>3. UintMod \in Int /\ Hundred \in Nat
  BY PingAssumption
<1>4. sentcount = n
  BY <1>1, <1>2, SmallStays
<1>5. receivedcount = c
  BY <1>1, <1>2, <1>3, SmallStays
<1>6. n - c \in Nat
  BY <1>1
<1>7. (n - c) * Hundred \in Nat
  BY <1>3, <1>6
<1>8. ((n - c) * Hundred) % UintMod = (n - c) * Hundred
  BY <1>7, SmallStays
<1> QED
  BY <1>2, <1>4, <1>5, <1>8

\* The loss printed is the share of the requests whose answer was not printed, as long
\* as no answer came twice and uints hold the counts and the product.
THEOREM LossIsShareHolds == PingSpec => []LossIsShare
<1>1. PingInv => LossIsShare
  BY PingInvShares
<1> QED
  BY <1>1, PingInvHolds, PTL

----------------------------------------------------------------------------
(* esenet: the handle is given back, for any command line and any handles *)
(* of the stack.                                                          *)
Reasons == {"notdown", "nohost", "reject", "timeout", "hisdown", "mydown"}

\* The handle goes with the place in telnet(): none before tcp_activeopen, the one it
\* gave until tcp_close, none after.
HandlePhase ==
  /\ ahandle \in 0..(CharMod - 1)
  /\ opc \in {"args", "start", "end"} => given = {}
  /\ opc \in {"open", "connect", "main", "wait"} => given \in {{}, {ahandle}}

\* The connection goes with it: main() waits for "open", and tcp_shutdown leaves no
\* state in which the host can still send.
TcpPhase ==
  /\ opc \in {"args", "start", "end"} => tcp = "error"
  /\ opc = "main" => tcp \in {"open", "hisclosing", "myclosing", "closing", "closed"}
  /\ opc = "wait" => tcp \in {"myclosing", "closing", "closed"}

\* A connection that is going has a reason to.
ReasonKnown ==
  /\ downstate \in Reasons
  /\ tcp \in {"hisclosing", "myclosing", "closing", "closed"} => downstate # "notdown"
  /\ opc = "wait" => downstate # "notdown"

\* What is known at the end of the connection.
EndKnown ==
  /\ opc # "end" => left = "none" /\ told \in {"nothing", "connected"}
  /\ left \notin {"none", "closed"} => byKey
  /\ told = "disconnected" => downstate # "notdown"

OpenIInv ==
  /\ opc \in {"args", "start", "open", "connect", "main", "wait", "end"}
  /\ HandlePhase /\ TcpPhase /\ ReasonKnown /\ EndKnown

----------------------------------------------------------------------------
\* -1 read back from an unsigned char is not negative, so that the test of telnet()
\* for a failed tcp_activeopen (line 814) never holds.
LEMMA MinusOneIsPositive == (-1) % CharMod \in 0..(CharMod - 1)
  BY HandlesAssumption

\* main() starts with no handle and nothing told.
LEMMA OpenInitIInv == ASSUME NEW lines, OpenInit(lines) PROVE OpenIInv
  BY MinusOneIsPositive
  DEF OpenInit, OpenIInv, HandlePhase, TcpPhase, ReasonKnown, EndKnown, Reasons

\* A tcp_close in any wait gives back the one handle the program has.
LEMMA CloseGivesBack ==
  ASSUME OpenIInv, opc \in {"connect", "wait"}, TcpClose
  PROVE  given' = {} /\ tcp' = "error" /\ left' = tcp
  BY DEF OpenIInv, HandlePhase, TcpClose

\* The program's steps keep the invariant.
LEMMA OpenClientKeepsIInv == ASSUME OpenIInv, OpenClient PROVE OpenIInv'
<1> USE DEF OpenIInv, HandlePhase, TcpPhase, ReasonKnown, EndKnown, Reasons
<1>1. CASE Argument
  BY <1>1 DEF Argument
<1>2. CASE WrongLine
  BY <1>2 DEF WrongLine, Ends
<1>3. CASE SetTarget
  BY <1>3 DEF SetTarget
<1>4. CASE NoStart
  BY <1>4 DEF NoStart, Ends
<1>5. CASE ActiveOpen
  <2>1. ahandle' \in 0..(CharMod - 1)
    BY <1>5, HandlesAssumption, MinusOneIsPositive DEF ActiveOpen
  <2>2. given' \in {{}, {ahandle'}}
    BY <1>5 DEF ActiveOpen
  <2>3. tcp' \in {"search", "error"}
    BY <1>5 DEF ActiveOpen
  <2> QED
    BY <1>5, <2>1, <2>2, <2>3 DEF ActiveOpen
<1>6. CASE Opened
  <2>1. ~(ahandle < 0)
    BY HandlesAssumption
  <2> QED
    BY <1>6, <2>1 DEF Opened
<1>7. CASE Cancel
  BY <1>7, CloseGivesBack DEF Cancel, Ends
<1>8. CASE Refused
  BY <1>8, CloseGivesBack DEF Refused, Ends
<1>9. CASE Connected
  BY <1>9 DEF Connected
<1>10. CASE MainLoopEnds
  BY <1>10 DEF MainLoopEnds
<1>11. CASE Disconnected
  BY <1>11, CloseGivesBack DEF Disconnected, Closed, Ends
<1> QED
  BY <1>1, <1>2, <1>3, <1>4, <1>5, <1>6, <1>7, <1>8, <1>9, <1>10, <1>11 DEF OpenClient

\* So do the stack's: it moves a connection only while the program has one, and gives
\* a reason with the first step towards its end.
LEMMA OpenStackKeepsIInv == ASSUME OpenIInv, OpenStack PROVE OpenIInv'
<1> USE DEF OpenIInv, HandlePhase, TcpPhase, ReasonKnown, EndKnown, Reasons, TcpGoes
<1>1. CASE Found
  BY <1>1 DEF Found
<1>2. CASE Unknown
  BY <1>2 DEF Unknown
<1>3. CASE Accepted
  BY <1>3 DEF Accepted
<1>4. CASE Failed
  BY <1>4 DEF Failed
<1>5. CASE HisClose
  BY <1>5 DEF HisClose
<1>6. CASE Gone
  BY <1>6 DEF Gone
<1>7. CASE Cut
  BY <1>7 DEF Cut
<1> QED
  BY <1>1, <1>2, <1>3, <1>4, <1>5, <1>6, <1>7 DEF OpenStack

\* What the invariant is for: the end of the program finds its handle given back.
LEMMA IInvReleases == ASSUME OpenIInv PROVE ConnectionReleased
  BY DEF OpenIInv, HandlePhase, TcpPhase, ReasonKnown, EndKnown, ConnectionReleased

LEMMA OpenKeepsIInv == ASSUME OpenIInv, [OpenNext]_openVars PROVE OpenIInv'
<1>1. CASE OpenNext
  BY <1>1, OpenClientKeepsIInv, OpenStackKeepsIInv DEF OpenNext
<1>2. CASE UNCHANGED openVars
  BY <1>2 DEF openVars, OpenIInv, HandlePhase, TcpPhase, ReasonKnown, EndKnown, Reasons
<1> QED
  BY <1>1, <1>2

\* Whatever the command line, the handles of the stack and the steps of the
\* connection: main() ends with its handle given back, a connection is left unfinished
\* only by a key, and one that was disconnected has a reason.
THEOREM ReleasedHolds == OpenSpec => []ConnectionReleased
<1>1. OpenIInv /\ [OpenNext]_openVars => OpenIInv'
  BY OpenKeepsIInv
<1>2. OpenInit(OpenLines) => OpenIInv
  BY OpenInitIInv
<1>3. OpenIInv => ConnectionReleased
  BY IInvReleases
<1> QED
  BY <1>1, <1>2, <1>3, PTL DEF OpenSpec

----------------------------------------------------------------------------
(* fmtest: each channel of the FM chip as if it were alone, for any        *)
(* channels, frequencies and number of calls.                              *)
----------------------------------------------------------------------------
(* Where the registers are.                                                *)

\* The operators of a channel are where the chip has them.
LEMMA OperatorsAt ==
  ASSUME NEW ch \in 0..8
  PROVE  /\ ModulatorAt(ch) \in 0..18 /\ CarrierAt(ch) \in 3..21
         /\ \A base \in Int : /\ OpReg(base, ch, 0) = base + ModulatorAt(ch)
                              /\ OpReg(base, ch, 1) = base + CarrierAt(ch)
<1>1. ModulatorAt(ch) = ch + (IF ch > 2 THEN 5 ELSE 0) + (IF ch > 5 THEN 5 ELSE 0)
  BY DEF ModulatorAt
<1>2. CarrierAt(ch) = ModulatorAt(ch) + 3
  BY DEF CarrierAt
<1> QED
  BY <1>1, <1>2 DEF OpReg

\* Two channels share none.
LEMMA OperatorsApart ==
  ASSUME NEW c \in 0..8, NEW d \in 0..8, c # d
  PROVE  /\ ModulatorAt(c) # ModulatorAt(d) /\ ModulatorAt(c) # CarrierAt(d)
         /\ CarrierAt(c) # ModulatorAt(d) /\ CarrierAt(c) # CarrierAt(d)
<1>1. /\ ModulatorAt(c) = c + (IF c > 2 THEN 5 ELSE 0) + (IF c > 5 THEN 5 ELSE 0)
      /\ ModulatorAt(d) = d + (IF d > 2 THEN 5 ELSE 0) + (IF d > 5 THEN 5 ELSE 0)
  BY DEF ModulatorAt
<1> QED
  BY <1>1 DEF CarrierAt

\* All the registers of a channel.
Registers(ch) ==
  {base + ModulatorAt(ch) : base \in {32, 64, 96, 128, 224}}
  \cup {base + CarrierAt(ch) : base \in {32, 64, 96, 128, 224}}
  \cup {160 + ch, 176 + ch, 192 + ch}

LEMMA RegistersApart ==
  ASSUME NEW c \in 0..8, NEW d \in 0..8, c # d
  PROVE  Registers(c) \cap Registers(d) = {} /\ Registers(c) \subseteq 1..245
<1> DEFINE m == ModulatorAt(c)  k == CarrierAt(c)  n == ModulatorAt(d)  l == CarrierAt(d)
<1>1. m \in 0..18 /\ k \in 3..21 /\ n \in 0..18 /\ l \in 3..21
  BY OperatorsAt
<1>2. m # n /\ m # l /\ k # n /\ k # l
  BY OperatorsApart
<1> HIDE DEF m, k, n, l
<1>3. Registers(c) = {base + m : base \in {32, 64, 96, 128, 224}}
                     \cup {base + k : base \in {32, 64, 96, 128, 224}}
                     \cup {160 + c, 176 + c, 192 + c}
  BY Zenon DEF Registers, m, k
<1>4. Registers(d) = {base + n : base \in {32, 64, 96, 128, 224}}
                     \cup {base + l : base \in {32, 64, 96, 128, 224}}
                     \cup {160 + d, 176 + d, 192 + d}
  BY Zenon DEF Registers, n, l
<1> QED
  BY <1>1, <1>2, <1>3, <1>4

----------------------------------------------------------------------------
(* Registers written one after another.                                    *)

\* A register keeps what was written to it last ...
LEMMA LastWritten ==
  ASSUME NEW writes, NEW k \in 1..Len(writes), Len(writes) \in Nat,
         writes[k][1] \in 1..245,
         \A j \in k + 1..Len(writes) : writes[j][1] # writes[k][1]
  PROVE  SetRegs(writes)[writes[k][1]] = writes[k][2]
<1> DEFINE r == writes[k][1]
           lasts == {i \in 1..Len(writes) :
                      writes[i][1] = r /\ \A j \in i + 1..Len(writes) : writes[j][1] # r}
<1>1. lasts = {k}
  <2>1. \A i \in lasts : i = k
    OBVIOUS
  <2>2. k \in lasts
    OBVIOUS
  <2> QED
    BY <2>1, <2>2
<1>2. SetRegs(writes)[r] = IF lasts = {} THEN freg[r] ELSE writes[CHOOSE i \in lasts : TRUE][2]
  BY DEF SetRegs
<1>3. (CHOOSE i \in {k} : TRUE) = k
  OBVIOUS
<1> HIDE DEF lasts, r
<1> QED
  BY <1>1, <1>2, <1>3 DEF r

\* ... and one that is not written what it had.
LEMMA NotWritten ==
  ASSUME NEW writes, NEW r \in 1..245, \A k \in 1..Len(writes) : writes[k][1] # r
  PROVE  SetRegs(writes)[r] = freg[r]
<1> DEFINE lasts == {i \in 1..Len(writes) :
                      writes[i][1] = r /\ \A j \in i + 1..Len(writes) : writes[j][1] # r}
<1>1. lasts = {}
  BY Zenon
<1>2. SetRegs(writes)[r] = IF lasts = {} THEN freg[r] ELSE writes[CHOOSE i \in lasts : TRUE][2]
  BY DEF SetRegs
<1> HIDE DEF lasts
<1> QED
  BY <1>1, <1>2

\* The registers are bytes before and after.
LEMMA SetRegsType ==
  ASSUME NEW V, freg \in [1..245 -> V], NEW writes,
         \A k \in 1..Len(writes) : writes[k][2] \in V
  PROVE  SetRegs(writes) \in [1..245 -> V]
<1> SUFFICES ASSUME NEW r \in 1..245
             PROVE  SetRegs(writes)[r] \in V
  BY ZenonT(60) DEF SetRegs
<1> DEFINE lasts == {i \in 1..Len(writes) :
                      writes[i][1] = r /\ \A j \in i + 1..Len(writes) : writes[j][1] # r}
<1>1. SetRegs(writes)[r] = IF lasts = {} THEN freg[r] ELSE writes[CHOOSE i \in lasts : TRUE][2]
  BY DEF SetRegs
<1>2. lasts # {} => (CHOOSE i \in lasts : TRUE) \in 1..Len(writes)
  OBVIOUS
<1> HIDE DEF lasts
<1> QED
  BY <1>1, <1>2

----------------------------------------------------------------------------
(* The pitch.                                                              *)

LEMMA PowersOfTwo ==
  ASSUME NEW b \in 0..7
  PROVE  2 ^ b \in Nat \ {0}
<1>1. b = 0 \/ b = 1 \/ b = 2 \/ b = 3 \/ b = 4 \/ b = 5 \/ b = 6 \/ b = 7
  OBVIOUS
<1>2. CASE b = 0
  BY <1>2
<1>3. CASE b = 1
  BY <1>3
<1>4. CASE b = 2
  BY <1>4
<1>5. CASE b = 3
  BY <1>5
<1>6. CASE b = 4
  BY <1>6
<1>7. CASE b = 5
  BY <1>7
<1>8. CASE b = 6
  BY <1>8
<1>9. CASE b = 7
  BY <1>9
<1> QED
  BY <1>1, <1>2, <1>3, <1>4, <1>5, <1>6, <1>7, <1>8, <1>9, Zenon

\* Halved so often a number has ten bits.
LEMMA HalvingsFit ==
  ASSUME NEW n \in Nat, Halvings(n) < 8
  PROVE  Halvings(n) \in 0..7 /\ n \div 2 ^ Halvings(n) <= 1023
<1> DEFINE fits == {b \in 0..7 : n \div 2 ^ b <= 1023}
<1>1. Halvings(n) = IF fits = {} THEN 8 ELSE CHOOSE b \in fits : \A c \in fits : b <= c
  BY DEF Halvings
<1>2. fits # {}
  BY <1>1
<1>3. \E b \in fits : \A c \in fits : b <= c
  <2>1. fits \in SUBSET Nat
    OBVIOUS
  <2> HIDE DEF fits
  <2> QED
    BY <1>2, <2>1, Lemmas!Smallest
<1>4. (CHOOSE b \in fits : \A c \in fits : b <= c) \in fits
  BY <1>3
<1>5. Halvings(n) \in fits
  BY <1>1, <1>2, <1>4
<1> QED
  BY <1>5

\* A tone that can be played has a multiple that makes it fit.
LEMMA MultFits ==
  ASSUME NEW freq \in Nat, Mult(freq) # 15
  PROVE  /\ Mult(freq) \in {1, 2, 4, 8}
         /\ Halvings(FreqNum(freq, Mult(freq))) < 8
<1> DEFINE fit == {m \in {1, 2, 4, 8} : Halvings(FreqNum(freq, m)) < 8}
<1>1. Mult(freq) = IF fit = {} THEN 15 ELSE CHOOSE m \in fit : \A k \in fit : m <= k
  BY DEF Mult
<1>2. fit # {}
  BY <1>1
<1>3. \E m \in fit : \A k \in fit : m <= k
  <2>1. fit \in SUBSET Nat
    OBVIOUS
  <2> HIDE DEF fit
  <2> QED
    BY <1>2, <2>1, Lemmas!Smallest
<1>4. (CHOOSE m \in fit : \A k \in fit : m <= k) \in fit
  <2> HIDE DEF fit
  <2> QED
    BY <1>3
<1>5. Mult(freq) \in fit
  BY <1>1, <1>2, <1>4
<1> QED
  BY <1>5

\* What is left of a division.
LEMMA Quotient ==
  ASSUME NEW n \in Nat, NEW w \in Nat \ {0}
  PROVE  /\ n \div w \in Nat
         /\ (n \div w) * w <= n /\ n < (n \div w + 1) * w
  OBVIOUS

\* A number of ten bits and a block are read back from the two registers they are
\* put in, with the key on or off.
ReadsBack(e, rB0, number, block) ==
  e + 256 * (rB0 % 4) = number /\ (rB0 \div 4) % 8 = block

LEMMA NumberReadBack ==
  ASSUME NEW f \in 0..1023, NEW b \in 0..7, NEW rB0, rB0 = 32 + 4 * b + f \div 256
  PROVE  /\ rB0 \in 32..63 /\ f % 256 \in 0..255
         /\ ReadsBack(f % 256, rB0, f, b)
<1> DEFINE h == f \div 256
<1>1. h \in 0..3 /\ f % 256 \in 0..255 /\ f = 256 * h + (f % 256)
  OBVIOUS
<1> HIDE DEF h
<1>2. rB0 = 32 + 4 * b + h
  BY DEF h
<1>3. rB0 % 4 = h /\ rB0 \div 4 = 8 + b
  BY <1>1, <1>2
<1>4. (8 + b) % 8 = b
  OBVIOUS
<1> QED
  BY <1>1, <1>2, <1>3, <1>4 DEF ReadsBack

\* The key's bit is not among those of the pitch.
LEMMA KeyOff ==
  ASSUME NEW r \in 32..63
  PROVE  /\ (r - 32) % 4 = r % 4 /\ ((r - 32) \div 4) % 8 = (r \div 4) % 8
         /\ r - 32 * ((r \div 32) % 2) = r - 32
<1>1. r \div 32 = 1
  OBVIOUS
<1>2. (r - 32) % 4 = r % 4
  OBVIOUS
<1>3. (r - 32) \div 4 = r \div 4 - 8 /\ r \div 4 \in 8..15
  OBVIOUS
<1>4. \A q \in 8..15 : (q - 8) % 8 = q % 8
  OBVIOUS
<1> QED
  BY <1>1, <1>2, <1>3, <1>4

----------------------------------------------------------------------------
(* The invariant: what the shadow of a channel remembers is what was       *)
(* loaded for it, and the key's register is its shadow with the key on or  *)
(* off.                                                                    *)

Val == 0..255
Shadows == {"car_ksl", "mod_chars", "car_chars", "rB0"}
Patches == {Sine, Piano, Bell}
Multiples == {1, 2, 4, 8}
Volumes == {0, 63}

FmShape ==
  /\ caller \in {"fmtest", "any"} /\ fpc \in {"detect", "reset", "calls", "end"}
  /\ layout \in {"packed", "apart"} /\ calls \in Nat
  /\ freg \in [1..245 -> Val] /\ shadow \in [Shadows \X (0..8) -> Val]
  /\ patches \in [FmChannels -> {NoPatch} \cup Patches]
  /\ tones \in [FmChannels -> [freq : Nat, vol : Volumes, on : BOOLEAN]]

FmBegun ==
  /\ fpc \in {"detect", "reset"} =>
       /\ calls = 0 /\ \A c \in DOMAIN shadow : shadow[c] = 0
       /\ \A ch \in FmChannels : patches[ch] = NoPatch /\ tones[ch] = Silent
  /\ caller = "fmtest" /\ calls > 0 => patches[0] # NoPatch

\* The arrays hold what is written to them: not when channel 8 is used and they lie
\* one behind the other.
Roomy == ~(layout = "packed" /\ 8 \in FmChannels /\ patches[8] # NoPatch)

KeyShadowed(ch) ==
  LET rB0 == shadow[<<"rB0", ch>>]
  IN  /\ rB0 = 0 \/ rB0 \in 32..63
      /\ tones[ch].on => rB0 # 0
      /\ freg[176 + ch] = IF tones[ch].on \/ rB0 = 0 THEN rB0 ELSE rB0 - 32

Loaded(ch) ==
  /\ shadow[<<"car_ksl", ch>>] = patches[ch].ksl_lev[2]
  /\ shadow[<<"mod_chars", ch>>] = patches[ch].chars[1]
  /\ shadow[<<"car_chars", ch>>] = patches[ch].chars[2]

ChannelKept(ch) ==
  /\ KeyShadowed(ch)
  /\ patches[ch] # NoPatch =>
       FixedAsLoaded(ch) /\ Loaded(ch) /\ (tones[ch].freq > 0 => Played(ch))

FmInv ==
  /\ FmShape /\ FmBegun
  /\ Roomy => \A ch \in FmChannels : ChannelKept(ch)

\* The driver's own patches are of bytes.
LEMMA PatchBytes ==
  ASSUME NEW p \in Patches
  PROVE  /\ p # NoPatch /\ p.fb_conn \in Val
         /\ p.chars[1] \in Val /\ p.chars[2] \in Val
         /\ p.ksl_lev[1] \in Val /\ p.ksl_lev[2] \in Val
         /\ p.att_dec[1] \in Val /\ p.att_dec[2] \in Val
         /\ p.sus_rel[1] \in Val /\ p.sus_rel[2] \in Val
         /\ p.wav_sel[1] \in Val /\ p.wav_sel[2] \in Val
  BY DEF Patches, Sine, Piano, Bell, NoPatch, Val

\* Where an element of an array is, when there is room for it.
LEMMA CellThere ==
  ASSUME NEW ch \in 0..8, ch < 8 \/ layout = "apart", NEW a
  PROVE  Cell(a, ch) = <<a, ch>>
  BY DEF Cell

LEMMA CellType ==
  ASSUME NEW ch \in 0..8, NEW a \in Shadows
  PROVE  Cell(a, ch) \in Shadows \X (0..8)
<1>1. CASE ch < 8 \/ layout = "apart"
  BY <1>1 DEF Cell
<1>2. CASE ~(ch < 8 \/ layout = "apart")
  BY <1>2 DEF Cell, Shadows
<1> QED
  BY <1>1, <1>2

\* The pitch, by the number and the block that are read from the registers.
PitchIs(number, block, freq, mult) ==
  LET n == FreqNum(freq, mult)
  IN  number * 2 ^ block <= n /\ n < (number + 1) * 2 ^ block

\* A channel is as it was when nothing of its own is touched.
LEMMA ChannelUntouched ==
  ASSUME NEW d \in FmChannels, FmShape, ChannelKept(d),
         \A r \in Registers(d) : freg'[r] = freg[r],
         \A a \in Shadows : shadow'[<<a, d>>] = shadow[<<a, d>>],
         patches'[d] = patches[d], tones'[d] = tones[d]
  PROVE  ChannelKept(d)'
<1> DEFINE m == ModulatorAt(d)  k == CarrierAt(d)
<1>1. d \in 0..8 /\ d' = d
  BY FmAssumption
<1>2. m \in 0..18 /\ k \in 3..21
  BY <1>1, OperatorsAt
<1>3. \A base \in {32, 64, 96, 128, 224} : base + m \in Registers(d) /\ base + k \in Registers(d)
  BY DEF Registers, m, k
<1>4. 160 + d \in Registers(d) /\ 176 + d \in Registers(d) /\ 192 + d \in Registers(d)
  BY DEF Registers
<1> HIDE DEF m, k
<1>5. /\ freg'[32 + m] = freg[32 + m] /\ freg'[32 + k] = freg[32 + k]
      /\ freg'[64 + m] = freg[64 + m] /\ freg'[64 + k] = freg[64 + k]
      /\ freg'[96 + m] = freg[96 + m] /\ freg'[96 + k] = freg[96 + k]
      /\ freg'[128 + m] = freg[128 + m] /\ freg'[128 + k] = freg[128 + k]
      /\ freg'[224 + m] = freg[224 + m] /\ freg'[224 + k] = freg[224 + k]
      /\ freg'[160 + d] = freg[160 + d] /\ freg'[176 + d] = freg[176 + d]
      /\ freg'[192 + d] = freg[192 + d]
  BY <1>3, <1>4
<1>6. KeyShadowed(d)'
  BY <1>5 DEF ChannelKept, KeyShadowed, Shadows
<1>7. FixedAsLoaded(d) => FixedAsLoaded(d)'
  BY <1>5 DEF FixedAsLoaded, m, k
<1>8. Loaded(d) => Loaded(d)'
  BY DEF Loaded, Shadows
<1>9. Played(d) => Played(d)'
  BY <1>5 DEF Played, PitchOf, Pitch, Block, m, k
<1> QED
  BY <1>6, <1>7, <1>8, <1>9 DEF ChannelKept

----------------------------------------------------------------------------
(* Loading a patch.                                                        *)

\* What fm_load_patch writes.
LoadWrites(ch, p) ==
  << <<OpReg(32, ch, 0), p.chars[1]>>,    <<OpReg(32, ch, 1), p.chars[2]>>,
     <<OpReg(64, ch, 0), p.ksl_lev[1]>>,  <<OpReg(64, ch, 1), p.ksl_lev[2]>>,
     <<OpReg(96, ch, 0), p.att_dec[1]>>,  <<OpReg(96, ch, 1), p.att_dec[2]>>,
     <<OpReg(128, ch, 0), p.sus_rel[1]>>, <<OpReg(128, ch, 1), p.sus_rel[2]>>,
     <<OpReg(224, ch, 0), p.wav_sel[1]>>, <<OpReg(224, ch, 1), p.wav_sel[2]>>,
     <<ChReg(192, ch), p.fb_conn>> >>

\* Its registers hold the patch, and the others what they held.
LEMMA PatchWritten ==
  ASSUME NEW ch \in 0..8, NEW p \in Patches
  PROVE  LET m == ModulatorAt(ch)  k == CarrierAt(ch)  after == SetRegs(LoadWrites(ch, p))
         IN  /\ after[32 + m] = p.chars[1] /\ after[32 + k] = p.chars[2]
             /\ after[64 + m] = p.ksl_lev[1] /\ after[64 + k] = p.ksl_lev[2]
             /\ after[96 + m] = p.att_dec[1] /\ after[96 + k] = p.att_dec[2]
             /\ after[128 + m] = p.sus_rel[1] /\ after[128 + k] = p.sus_rel[2]
             /\ after[224 + m] = p.wav_sel[1] /\ after[224 + k] = p.wav_sel[2]
             /\ after[192 + ch] = p.fb_conn
             /\ \A r \in 1..245 \ Registers(ch) : after[r] = freg[r]
             /\ after[176 + ch] = freg[176 + ch]
             /\ freg \in [1..245 -> Val] => after \in [1..245 -> Val]
<1> DEFINE m == ModulatorAt(ch)  k == CarrierAt(ch)
           w == LoadWrites(ch, p)  after == SetRegs(w)
<1>1. m \in 0..18 /\ k \in 3..21 /\ k = m + 3
  BY OperatorsAt DEF CarrierAt
<1>2. /\ OpReg(32, ch, 0) = 32 + m /\ OpReg(32, ch, 1) = 32 + k
      /\ OpReg(64, ch, 0) = 64 + m /\ OpReg(64, ch, 1) = 64 + k
      /\ OpReg(96, ch, 0) = 96 + m /\ OpReg(96, ch, 1) = 96 + k
      /\ OpReg(128, ch, 0) = 128 + m /\ OpReg(128, ch, 1) = 128 + k
      /\ OpReg(224, ch, 0) = 224 + m /\ OpReg(224, ch, 1) = 224 + k
      /\ ChReg(192, ch) = 192 + ch
  BY OperatorsAt DEF ChReg
<1>3. \A base \in {32, 64, 96, 128, 224} : base + m \in Registers(ch) /\ base + k \in Registers(ch)
  BY DEF Registers, m, k
<1>4. 176 + ch \in 1..245 /\ 192 + ch \in Registers(ch)
  BY DEF Registers
<1> HIDE DEF m, k
<1>5. /\ Len(w) = 11
      /\ w[1] = <<32 + m, p.chars[1]>> /\ w[2] = <<32 + k, p.chars[2]>>
      /\ w[3] = <<64 + m, p.ksl_lev[1]>> /\ w[4] = <<64 + k, p.ksl_lev[2]>>
      /\ w[5] = <<96 + m, p.att_dec[1]>> /\ w[6] = <<96 + k, p.att_dec[2]>>
      /\ w[7] = <<128 + m, p.sus_rel[1]>> /\ w[8] = <<128 + k, p.sus_rel[2]>>
      /\ w[9] = <<224 + m, p.wav_sel[1]>> /\ w[10] = <<224 + k, p.wav_sel[2]>>
      /\ w[11] = <<192 + ch, p.fb_conn>>
  BY <1>2 DEF LoadWrites
<1> HIDE DEF w
<1>6. \A i \in 1..11 : i \in {1, 2, 3, 4, 5, 6, 7, 8, 9, 10, 11}
  OBVIOUS
<1>7. \A i \in 1..11 : w[i][1] \in 1..245 /\ \A j \in i + 1..11 : w[j][1] # w[i][1]
  BY <1>1, <1>5, <1>6
<1>8. \A i \in 1..11 : after[w[i][1]] = w[i][2]
  <2> TAKE i \in 1..11
  <2>1. /\ Len(w) \in Nat /\ i \in 1..Len(w) /\ w[i][1] \in 1..245
        /\ \A j \in i + 1..Len(w) : w[j][1] # w[i][1]
    BY <1>5, <1>7
  <2> QED
    BY <2>1, LastWritten, Zenon
<1>9. \A i \in 1..11 : w[i][1] \in Registers(ch) /\ w[i][1] # 176 + ch
  BY <1>1, <1>3, <1>4, <1>5, <1>6
<1>10. \A r \in 1..245 \ Registers(ch) : after[r] = freg[r]
  <2> TAKE r \in 1..245 \ Registers(ch)
  <2>1. r \in 1..245 /\ \A i \in 1..Len(w) : w[i][1] # r
    BY <1>5, <1>9
  <2> QED
    BY <2>1, NotWritten, Zenon
<1>11. after[176 + ch] = freg[176 + ch]
  <2>1. \A i \in 1..Len(w) : w[i][1] # 176 + ch
    BY <1>5, <1>9
  <2> QED
    BY <1>4, <2>1, NotWritten, Zenon
<1>12. \A i \in 1..Len(w) : w[i][2] \in Val
  BY <1>5, <1>6, PatchBytes
<1>13. freg \in [1..245 -> Val] => after \in [1..245 -> Val]
  BY <1>12, SetRegsType
<1>14. /\ after[32 + m] = p.chars[1] /\ after[32 + k] = p.chars[2]
       /\ after[64 + m] = p.ksl_lev[1] /\ after[64 + k] = p.ksl_lev[2]
       /\ after[96 + m] = p.att_dec[1] /\ after[96 + k] = p.att_dec[2]
       /\ after[128 + m] = p.sus_rel[1] /\ after[128 + k] = p.sus_rel[2]
       /\ after[224 + m] = p.wav_sel[1] /\ after[224 + k] = p.wav_sel[2]
       /\ after[192 + ch] = p.fb_conn
  <2> HIDE DEF after
  <2> QED
    BY <1>5, <1>8
<1> QED
  BY <1>10, <1>11, <1>13, <1>14 DEF m, k, w

\* fm_load_patch keeps the invariant.
LEMMA LoadPatchKeeps ==
  ASSUME FmInv, NEW ch \in FmChannels, NEW p \in Patches, LoadPatch(ch, p),
         caller = "fmtest" => ch = 0,
         UNCHANGED <<caller, layout>>, fpc = "calls", fpc' = fpc, calls' = calls + 1
  PROVE  FmInv'
<1>1. ch \in 0..8 /\ \A d \in FmChannels : d \in 0..8
  BY FmAssumption
<1>2. freg' = SetRegs(LoadWrites(ch, p))
  BY DEF LoadPatch, LoadWrites
<1>3. /\ shadow' = [shadow EXCEPT ![Cell("car_ksl", ch)] = p.ksl_lev[2],
                                  ![Cell("mod_chars", ch)] = p.chars[1],
                                  ![Cell("car_chars", ch)] = p.chars[2]]
      /\ patches' = [patches EXCEPT ![ch] = p]
      /\ tones' = [tones EXCEPT ![ch].freq = 0]
  BY DEF LoadPatch
<1>4. /\ p.ksl_lev[2] \in Val /\ p.chars[1] \in Val /\ p.chars[2] \in Val /\ p # NoPatch
  BY PatchBytes
<1>5. FmShape'
  <2>1. freg' \in [1..245 -> Val]
    BY <1>1, <1>2, PatchWritten DEF FmInv, FmShape
  <2>2. shadow' \in [Shadows \X (0..8) -> Val]
    <3> HIDE DEF Val
    <3> QED
      BY <1>1, <1>3, <1>4 DEF FmInv, FmShape
  <2>3. patches' \in [FmChannels -> {NoPatch} \cup Patches]
    BY <1>3 DEF FmInv, FmShape
  <2>4. tones' \in [FmChannels -> [freq : Nat, vol : Volumes, on : BOOLEAN]]
    BY <1>3 DEF FmInv, FmShape
  <2> QED
    BY SMTT(40), <2>4, <2>3, <2>2, <2>1 DEF FmInv, FmShape
<1>6. FmBegun'
  <2>1. caller = "fmtest" => patches'[0] = p
    BY <1>3, FmAssumption DEF FmInv, FmShape
  <2> QED
    BY <1>4, <2>1 DEF FmBegun
<1>7. ASSUME Roomy', NEW d \in FmChannels
      PROVE  ChannelKept(d)'
  <2>1. Roomy /\ (ch < 8 \/ layout = "apart")
    BY <1>1, <1>3, <1>4, <1>7 DEF Roomy, FmInv, FmShape
  <2>2. ChannelKept(d) /\ ChannelKept(ch) /\ FmShape
    BY <2>1 DEF FmInv
  <2>3. /\ Cell("car_ksl", ch) = <<"car_ksl", ch>>
        /\ Cell("mod_chars", ch) = <<"mod_chars", ch>>
        /\ Cell("car_chars", ch) = <<"car_chars", ch>>
    BY <1>1, <2>1, CellThere
  <2>4. shadow' = [shadow EXCEPT ![<<"car_ksl", ch>>] = p.ksl_lev[2],
                                 ![<<"mod_chars", ch>>] = p.chars[1],
                                 ![<<"car_chars", ch>>] = p.chars[2]]
    BY <1>3, <2>3
  <2>5. CASE d = ch
    <3>1. /\ shadow'[<<"car_ksl", ch>>] = p.ksl_lev[2]
          /\ shadow'[<<"mod_chars", ch>>] = p.chars[1]
          /\ shadow'[<<"car_chars", ch>>] = p.chars[2]
          /\ shadow'[<<"rB0", ch>>] = shadow[<<"rB0", ch>>]
      BY <1>1, <2>2, <2>4 DEF FmShape, Shadows
    <3>2. patches'[ch] = p /\ tones'[ch].freq = 0 /\ tones'[ch].on = tones[ch].on
      BY <1>3, <2>2 DEF FmShape
    <3>3. freg'[176 + ch] = freg[176 + ch]
      BY <1>1, <1>2, PatchWritten
    <3>4. KeyShadowed(ch)'
      BY <2>2, <3>1, <3>2, <3>3 DEF ChannelKept, KeyShadowed
    <3>5. FixedAsLoaded(ch)'
      <4> DEFINE m == ModulatorAt(ch)  k == CarrierAt(ch)
      <4>1. /\ freg'[96 + m] = p.att_dec[1] /\ freg'[96 + k] = p.att_dec[2]
            /\ freg'[128 + m] = p.sus_rel[1] /\ freg'[128 + k] = p.sus_rel[2]
            /\ freg'[224 + m] = p.wav_sel[1] /\ freg'[224 + k] = p.wav_sel[2]
            /\ freg'[64 + m] = p.ksl_lev[1] /\ freg'[192 + ch] = p.fb_conn
        BY <1>1, <1>2, PatchWritten
      <4> HIDE DEF m, k
      <4> QED
        BY <3>2, <4>1 DEF FixedAsLoaded, m, k
    <3>6. Loaded(ch)'
      BY <3>1, <3>2 DEF Loaded
    <3> QED
      BY <2>5, <3>2, <3>4, <3>5, <3>6 DEF ChannelKept
  <2>6. CASE d # ch
    <3>1. \A r \in Registers(d) : freg'[r] = freg[r]
      <4>1. Registers(d) \cap Registers(ch) = {} /\ Registers(d) \subseteq 1..245
        BY <1>1, <2>6, RegistersApart, SMTT(40)
      <4>2. \A r \in 1..245 \ Registers(ch) : freg'[r] = freg[r]
        BY <1>1, <1>2, PatchWritten
      <4> QED
        BY <4>1, <4>2
    <3>2. \A a \in Shadows : shadow'[<<a, d>>] = shadow[<<a, d>>]
      BY <1>1, <2>2, <2>4, <2>6 DEF FmShape
    <3>3. patches'[d] = patches[d] /\ tones'[d] = tones[d]
      BY <1>3, <2>2, <2>6 DEF FmShape
    <3> QED
      BY <2>2, <3>1, <3>2, <3>3, ChannelUntouched
  <2> QED
    BY <2>5, <2>6
<1> QED
  BY <1>5, <1>6, <1>7 DEF FmInv

----------------------------------------------------------------------------
(* Playing and stopping.                                                   *)

\* What fm_play_tone writes.
PlayWrites(ch, a, b, c, e, rB0) ==
  << <<OpReg(32, ch, 0), a>>, <<OpReg(32, ch, 1), b>>, <<OpReg(64, ch, 1), c>>,
     <<ChReg(160, ch), e>>, <<ChReg(176, ch), rB0>> >>

\* Five of a channel's registers are set, and no others.
ToneSet(after, ch, a, b, c, e, rB0) ==
  LET m == ModulatorAt(ch)  k == CarrierAt(ch)
  IN  /\ after[32 + m] = a /\ after[32 + k] = b /\ after[64 + k] = c
      /\ after[160 + ch] = e /\ after[176 + ch] = rB0
      /\ \A r \in 1..245 \ {32 + m, 32 + k, 64 + k, 160 + ch, 176 + ch} : after[r] = freg[r]

LEMMA ToneWritten ==
  ASSUME NEW ch \in 0..8, NEW a, NEW b, NEW c, NEW e, NEW rB0
  PROVE  /\ ToneSet(SetRegs(PlayWrites(ch, a, b, c, e, rB0)), ch, a, b, c, e, rB0)
         /\ freg \in [1..245 -> Val] /\ {a, b, c, e, rB0} \in SUBSET Val
              => SetRegs(PlayWrites(ch, a, b, c, e, rB0)) \in [1..245 -> Val]
<1> DEFINE m == ModulatorAt(ch)  k == CarrierAt(ch)
           w == PlayWrites(ch, a, b, c, e, rB0)
           after == SetRegs(w)
<1>1. m \in 0..18 /\ k \in 3..21 /\ k = m + 3
  BY OperatorsAt DEF CarrierAt
<1>2. /\ OpReg(32, ch, 0) = 32 + m /\ OpReg(32, ch, 1) = 32 + k
      /\ OpReg(64, ch, 1) = 64 + k
      /\ ChReg(160, ch) = 160 + ch /\ ChReg(176, ch) = 176 + ch
  BY OperatorsAt DEF ChReg
<1> HIDE DEF m, k
<1>3. w = << <<32 + m, a>>, <<32 + k, b>>, <<64 + k, c>>, <<160 + ch, e>>, <<176 + ch, rB0>> >>
  BY <1>2, Zenon DEF PlayWrites
<1> HIDE DEF w
<1>4. /\ Len(w) = 5
      /\ w[1] = <<32 + m, a>> /\ w[2] = <<32 + k, b>> /\ w[3] = <<64 + k, c>>
      /\ w[4] = <<160 + ch, e>> /\ w[5] = <<176 + ch, rB0>>
  BY <1>3
<1>5. \A i \in 1..5 : i \in {1, 2, 3, 4, 5}
  OBVIOUS
<1>6. \A i \in 1..5 : w[i][1] \in 1..245 /\ \A j \in i + 1..5 : w[j][1] # w[i][1]
  BY <1>1, <1>4, <1>5
<1>7. \A i \in 1..5 : after[w[i][1]] = w[i][2]
  <2> TAKE i \in 1..5
  <2>1. /\ Len(w) \in Nat /\ i \in 1..Len(w) /\ w[i][1] \in 1..245
        /\ \A j \in i + 1..Len(w) : w[j][1] # w[i][1]
    BY <1>4, <1>6
  <2> QED
    BY <2>1, LastWritten, Zenon
<1>8. \A r \in 1..245 \ {32 + m, 32 + k, 64 + k, 160 + ch, 176 + ch} : after[r] = freg[r]
  <2> TAKE r \in 1..245 \ {32 + m, 32 + k, 64 + k, 160 + ch, 176 + ch}
  <2>1. r \in 1..245 /\ \A i \in 1..Len(w) : w[i][1] # r
    BY <1>4, <1>5
  <2> QED
    BY <2>1, NotWritten, Zenon
<1>9. /\ after[32 + m] = a /\ after[32 + k] = b /\ after[64 + k] = c
      /\ after[160 + ch] = e /\ after[176 + ch] = rB0
  <2> HIDE DEF after
  <2> QED
    BY <1>4, <1>7
<1>10. ASSUME freg \in [1..245 -> Val], {a, b, c, e, rB0} \in SUBSET Val
       PROVE  after \in [1..245 -> Val]
  <2>1. a \in Val /\ b \in Val /\ c \in Val /\ e \in Val /\ rB0 \in Val
    BY <1>10, Zenon
  <2> HIDE DEF Val
  <2>2. \A i \in 1..Len(w) : w[i][2] \in Val
    BY <1>4, <1>5, <2>1
  <2> QED
    BY <1>10, <2>2, SetRegsType, Zenon
<1> QED
  BY <1>8, <1>9, <1>10, Zenon DEF ToneSet, m, k, w

\* The multiple's effect on an operator's byte, and the volume's on the carrier's.
Multiplied(v, mult) == v + (v % 16) * (mult - 1)
Level(ksl, vol) == ksl - (ksl % 64) + 63 - vol

\* They are bytes, when the harmonics are not too high.
LEMMA ToneBytes ==
  ASSUME NEW v \in Val, NEW mult \in Multiples, (v % 16) * mult <= 15
  PROVE  /\ Multiplied(v, mult) \in Val
         /\ v - (v % 16) + (v % 16) * mult = Multiplied(v, mult)
<1> DEFINE h == v \div 16  l == v % 16
<1>1. h \in 0..15 /\ l \in 0..15 /\ v = 16 * h + l
  BY DEF Val
<1>2. l * mult <= 15
  OBVIOUS
<1> HIDE DEF h, l
<1>3. l * mult \in Nat /\ l * (mult - 1) = l * mult - l
  BY <1>1 DEF Multiples
<1>4. v - l + l * mult \in Val /\ v - l + l * mult = v + l * (mult - 1)
  BY <1>1, <1>2, <1>3 DEF Val
<1> QED
  BY <1>4, Zenon DEF l, Multiplied

LEMMA VolumeBytes ==
  ASSUME NEW ksl \in Val, NEW vol \in Volumes
  PROVE  Level(ksl, vol) \in Val
  BY DEF Level, Val, Volumes

LEMMA KeyBytes ==
  ASSUME NEW r \in 32..63
  PROVE  r \in Val
  BY DEF Val

\* A channel that has a patch has its elements in the arrays.
LEMMA RoomForChannel ==
  ASSUME NEW ch \in FmChannels, FmShape, patches[ch] # NoPatch, Roomy
  PROVE  ch < 8 \/ layout = "apart"
<1>1. ch \in 0..8
  BY FmAssumption
<1>2. CASE ch = 8
  BY <1>2 DEF Roomy, FmShape
<1> QED
  BY <1>1, <1>2

\* A channel of which some registers are written, none of them its own.
LEMMA OtherChannel ==
  ASSUME FmShape, NEW ch \in FmChannels, NEW d \in FmChannels, d # ch, ChannelKept(d),
         NEW W \in SUBSET Registers(ch), \A r \in 1..245 \ W : freg'[r] = freg[r],
         \A a \in Shadows : shadow'[<<a, d>>] = shadow[<<a, d>>],
         patches'[d] = patches[d], tones'[d] = tones[d]
  PROVE  ChannelKept(d)'
<1>1. ch \in 0..8 /\ d \in 0..8
  BY FmAssumption
<1>2. Registers(d) \cap Registers(ch) = {} /\ Registers(d) \subseteq 1..245
  BY <1>1, RegistersApart
<1>3. \A r \in Registers(d) : freg'[r] = freg[r]
  BY <1>2
<1> QED
  BY <1>3, ChannelUntouched

\* A channel whose registers say a tone, and whose patch is still there.
LEMMA ChannelPlays ==
  ASSUME FmShape, NEW ch \in FmChannels, patches[ch] # NoPatch, ChannelKept(ch), patches' = patches,
         NEW freq, NEW vol, NEW mult \in Multiples, NEW block, NEW fnum,
         PitchIs(fnum, block, freq, mult),
         NEW e, NEW rB0 \in 32..63, ReadsBack(e, rB0, fnum, block),
         shadow' = [shadow EXCEPT ![<<"rB0", ch>>] = rB0],
         ToneSet(freg', ch, Multiplied(shadow[<<"mod_chars", ch>>], mult),
                 Multiplied(shadow[<<"car_chars", ch>>], mult),
                 Level(shadow[<<"car_ksl", ch>>], vol), e, rB0),
         tones'[ch].freq = freq, tones'[ch].vol = vol, tones'[ch].on
  PROVE  ChannelKept(ch)'
<1> DEFINE m == ModulatorAt(ch)  k == CarrierAt(ch)
           mod == shadow[<<"mod_chars", ch>>]  car == shadow[<<"car_chars", ch>>]
           ksl == shadow[<<"car_ksl", ch>>]
           a == Multiplied(mod, mult)  b == Multiplied(car, mult)  c == Level(ksl, vol)
<1>1. ch \in 0..8
  BY FmAssumption
<1>2. m \in 0..18 /\ k \in 3..21 /\ k = m + 3
  BY <1>1, OperatorsAt, Zenon DEF CarrierAt
<1>3. /\ freg'[32 + m] = a /\ freg'[32 + k] = b /\ freg'[64 + k] = c
      /\ freg'[160 + ch] = e /\ freg'[176 + ch] = rB0
      /\ \A r \in 1..245 \ {32 + m, 32 + k, 64 + k, 160 + ch, 176 + ch} : freg'[r] = freg[r]
  BY Zenon DEF ToneSet
<1> HIDE DEF m, k, a, b, c
<1>4. /\ shadow'[<<"car_ksl", ch>>] = ksl /\ shadow'[<<"mod_chars", ch>>] = mod
      /\ shadow'[<<"car_chars", ch>>] = car /\ shadow'[<<"rB0", ch>>] = rB0
  BY <1>1 DEF FmShape, Shadows
<1>5. FixedAsLoaded(ch) /\ Loaded(ch)
  BY DEF ChannelKept
<1>6. ksl = patches[ch].ksl_lev[2] /\ mod = patches[ch].chars[1] /\ car = patches[ch].chars[2]
  BY <1>5, Zenon DEF Loaded
<1>7. KeyShadowed(ch)'
  <2>1. rB0 # 0
    OBVIOUS
  <2> QED
    BY <1>3, <1>4, <2>1, Zenon DEF KeyShadowed
<1>8. FixedAsLoaded(ch)'
  <2>1. /\ freg'[96 + m] = freg[96 + m] /\ freg'[96 + k] = freg[96 + k]
        /\ freg'[128 + m] = freg[128 + m] /\ freg'[128 + k] = freg[128 + k]
        /\ freg'[224 + m] = freg[224 + m] /\ freg'[224 + k] = freg[224 + k]
        /\ freg'[64 + m] = freg[64 + m] /\ freg'[192 + ch] = freg[192 + ch]
    BY <1>1, <1>2, <1>3
  <2> QED
    BY <1>5, <2>1 DEF FixedAsLoaded, m, k
<1>9. Loaded(ch)'
  BY <1>4, <1>6, Zenon DEF Loaded
<1>10. Played(ch)'
  <2>1. Pitch(ch)' = fnum /\ Block(ch)' = block
    BY <1>3 DEF Pitch, Block, ReadsBack
  <2>2. PitchIs(Pitch(ch)', Block(ch)', tones'[ch].freq, mult)
    BY <2>1, Zenon
  <2>3. PitchOf(ch, tones[ch].freq, mult)'
    BY <2>2, SMTT(30) DEF PitchOf, PitchIs, FreqNum
  <2>4. /\ freg'[32 + CarrierAt(ch)] = Multiplied(patches'[ch].chars[2], mult)
        /\ freg'[32 + ModulatorAt(ch)] = Multiplied(patches'[ch].chars[1], mult)
        /\ freg'[64 + CarrierAt(ch)] = Level(patches'[ch].ksl_lev[2], tones'[ch].vol)
    BY <1>3, <1>6, Zenon DEF m, k, a, b, c
  <2> QED
    BY <2>3, <2>4, Zenon DEF Played, Multiples, Multiplied, Level
<1> QED
  BY <1>7, <1>8, <1>9, <1>10 DEF ChannelKept

\* The tone is of the right shape.
LEMMA ToneShape ==
  ASSUME FmShape, NEW ch \in FmChannels, NEW freq \in Nat, NEW vol \in Volumes,
         UNCHANGED <<caller, layout, patches>>, fpc' = "calls", calls' = calls + 1,
         NEW rB0 \in Val, NEW c \in Shadows \X (0..8), shadow' = [shadow EXCEPT ![c] = rB0],
         freg' \in [1..245 -> Val],
         tones' = [tones EXCEPT ![ch] = [freq |-> freq, vol |-> vol, on |-> TRUE]]
  PROVE  FmShape'
<1>1. shadow' \in [Shadows \X (0..8) -> Val]
  BY DEF FmShape
<1>2. [freq |-> freq, vol |-> vol, on |-> TRUE] \in [freq : Nat, vol : Volumes, on : BOOLEAN]
  OBVIOUS
<1>3. tones' \in [FmChannels -> [freq : Nat, vol : Volumes, on : BOOLEAN]]
  <2> DEFINE T == [freq : Nat, vol : Volumes, on : BOOLEAN]
             t == [freq |-> freq, vol |-> vol, on |-> TRUE]
  <2>1. tones \in [FmChannels -> T] /\ t \in T /\ tones' = [tones EXCEPT ![ch] = t]
    BY <1>2, Zenon DEF FmShape
  <2> HIDE DEF T, t
  <2>2. tones' \in [FmChannels -> T]
    BY <2>1
  <2> QED
    BY <2>2, Zenon DEF T
<1> QED
  BY <1>1, <1>3 DEF FmShape

\* A tone that is played: the registers say it, and the other channels' stay.
LEMMA TonePlayed ==
  ASSUME FmInv, NEW ch \in FmChannels, patches[ch] # NoPatch,
         NEW freq \in Nat, NEW vol \in Volumes,
         UNCHANGED <<caller, layout, patches>>, fpc' = "calls", calls' = calls + 1,
         caller = "fmtest" => patches[0] # NoPatch,
         NEW mult \in Multiples, NEW block, NEW fnum, PitchIs(fnum, block, freq, mult),
         NEW e \in Val, NEW rB0 \in 32..63, ReadsBack(e, rB0, fnum, block),
         shadow' = [shadow EXCEPT ![Cell("rB0", ch)] = rB0],
         ToneSet(freg', ch, Multiplied(shadow[Cell("mod_chars", ch)], mult),
                 Multiplied(shadow[Cell("car_chars", ch)], mult),
                 Level(shadow[Cell("car_ksl", ch)], vol), e, rB0),
         freg' \in [1..245 -> Val],
         tones' = [tones EXCEPT ![ch] = [freq |-> freq, vol |-> vol, on |-> TRUE]]
  PROVE  FmInv'
<1>1. ch \in 0..8 /\ \A d \in FmChannels : d \in 0..8
  BY FmAssumption
<1>2. FmShape /\ FmBegun
  BY DEF FmInv
<1>3. FmBegun'
  BY <1>2 DEF FmBegun, FmShape
<1>4. rB0 \in Val
  BY KeyBytes, Zenon
<1>7. FmShape'
  <2>1. Cell("rB0", ch) \in Shadows \X (0..8)
    BY <1>1, CellType DEF Shadows
  <2> QED
    BY <1>2, <1>4, <2>1, ToneShape, Zenon
<1>8. ASSUME Roomy', NEW d \in FmChannels
      PROVE  ChannelKept(d)'
  <2>1. Roomy /\ (ch < 8 \/ layout = "apart")
    <3>1. Roomy
      BY <1>8, Zenon DEF Roomy
    <3> QED
      BY <1>2, <3>1, RoomForChannel, Zenon
  <2>2. ChannelKept(d) /\ ChannelKept(ch)
    BY <2>1, Zenon DEF FmInv
  <2>3. /\ Cell("rB0", ch) = <<"rB0", ch>>
        /\ Cell("mod_chars", ch) = <<"mod_chars", ch>>
        /\ Cell("car_chars", ch) = <<"car_chars", ch>>
        /\ Cell("car_ksl", ch) = <<"car_ksl", ch>>
    BY <1>1, <2>1, CellThere, Zenon
  <2>4. shadow' = [shadow EXCEPT ![<<"rB0", ch>>] = rB0]
    BY <2>3, Zenon
  <2>5. ToneSet(freg', ch, Multiplied(shadow[<<"mod_chars", ch>>], mult),
                Multiplied(shadow[<<"car_chars", ch>>], mult),
                Level(shadow[<<"car_ksl", ch>>], vol), e, rB0)
    BY <2>3, Zenon
  <2>6. CASE d = ch
    <3> DEFINE t == [freq |-> freq, vol |-> vol, on |-> TRUE]
    <3>1. t.freq = freq /\ t.vol = vol /\ t.on
      BY Zenon
    <3>2. tones'[ch] = t
      <4>1. tones' = [tones EXCEPT ![ch] = t]
        BY Zenon
      <4> HIDE DEF t
      <4> QED
        BY <1>2, <4>1 DEF FmShape
    <3> HIDE DEF t
    <3>3. tones'[ch].freq = freq /\ tones'[ch].vol = vol /\ tones'[ch].on /\ patches' = patches
      BY <3>1, <3>2, Zenon
    <3>5. ChannelKept(ch)'
      BY <1>2, <2>2, <2>4, <2>5, <3>3, ChannelPlays, Zenon
    <3> QED
      BY <2>6, <3>5
  <2>7. CASE d # ch
    <3> DEFINE m == ModulatorAt(ch)  k == CarrierAt(ch)
    <3>1. {32 + m, 32 + k, 64 + k, 160 + ch, 176 + ch} \in SUBSET Registers(ch)
      BY DEF Registers, m, k
    <3>2. \A r \in 1..245 \ {32 + m, 32 + k, 64 + k, 160 + ch, 176 + ch} : freg'[r] = freg[r]
      BY <2>5, Zenon DEF ToneSet
    <3>3. \A s \in Shadows : shadow'[<<s, d>>] = shadow[<<s, d>>]
      BY <1>1, <1>2, <2>4, <2>7 DEF FmShape
    <3>4. patches'[d] = patches[d] /\ tones'[d] = tones[d]
      BY <1>2, <2>7 DEF FmShape
    <3> HIDE DEF m, k
    <3> QED
      BY <1>2, <2>2, <2>7, <3>1, <3>2, <3>3, <3>4, OtherChannel, Zenon
  <2> QED
    BY <2>6, <2>7, Zenon
<1> QED
  BY <1>3, <1>7, <1>8 DEF FmInv

\* What fm_get_block_fnum finds for a frequency, and what fm_rB0 is set to.
NumberFor(freq) == FreqNum(freq, Mult(freq))
BlockFor(freq) == Halvings(NumberFor(freq))
FnumFor(freq) == NumberFor(freq) \div 2 ^ BlockFor(freq)
Keyed(freq) == 32 + 4 * BlockFor(freq) + FnumFor(freq) \div 256

\* They are the pitch of the tone, and can be read back.
LEMMA NumbersFit ==
  ASSUME NEW freq \in Nat, Mult(freq) # 15
  PROVE  /\ Mult(freq) \in Multiples
         /\ PitchIs(FnumFor(freq), BlockFor(freq), freq, Mult(freq))
         /\ Keyed(freq) \in 32..63 /\ FnumFor(freq) % 256 \in Val
         /\ ReadsBack(FnumFor(freq) % 256, Keyed(freq), FnumFor(freq), BlockFor(freq))
<1> DEFINE mult == Mult(freq)  n == NumberFor(freq)  b == BlockFor(freq)  f == FnumFor(freq)
           w == 2 ^ b
<1>1. mult \in {1, 2, 4, 8} /\ b < 8
  BY MultFits, Zenon DEF BlockFor, NumberFor
<1>2. n \in Nat
  <2> DEFINE q == freq \div mult
  <2>1. q \in Nat
    <3> HIDE DEF mult
    <3> QED
      BY <1>1
  <2>2. \A i \in Nat : (65536 * i) \div 3125 \in Nat
    OBVIOUS
  <2>3. n = FreqNum(freq, mult)
    BY Zenon DEF NumberFor
  <2> HIDE DEF n, mult
  <2> QED
    BY <2>1, <2>2, <2>3 DEF FreqNum
<1>3. b \in 0..7 /\ n \div w <= 1023
  <2>1. Halvings(n) < 8
    BY <1>1, Zenon DEF BlockFor
  <2>2. b = Halvings(n)
    BY Zenon DEF BlockFor
  <2> HIDE DEF n, b
  <2> QED
    BY <1>2, <2>1, <2>2, HalvingsFit, ZenonT(40)
<1>4. w \in Nat \ {0}
  <2> HIDE DEF b
  <2> QED
    BY <1>3, PowersOfTwo, Zenon
<1>5. f = n \div w
  BY Zenon DEF FnumFor
<1> HIDE DEF w, n
<1>6. f \in Nat /\ f * w <= n /\ n < (f + 1) * w
  BY <1>2, <1>4, <1>5, Quotient, Zenon
<1>7. f \in 0..1023
  BY <1>3, <1>5, <1>6
<1>8. PitchIs(f, b, freq, mult)
  <2>1. n = FreqNum(freq, mult)
    BY Zenon DEF n, NumberFor
  <2> HIDE DEF f, b, mult
  <2>2. f * 2 ^ b <= n /\ n < (f + 1) * 2 ^ b
    BY <1>6, Zenon DEF w
  <2> QED
    BY <2>1, <2>2, Zenon DEF PitchIs
<1>9. Keyed(freq) = 32 + 4 * b + f \div 256
  BY Zenon DEF Keyed
<1> HIDE DEF f, b, mult
<1>10. Keyed(freq) \in 32..63 /\ f % 256 \in 0..255 /\ ReadsBack(f % 256, Keyed(freq), f, b)
  BY <1>3, <1>7, <1>9, NumberReadBack, ZenonT(40)
<1> QED
  BY <1>1, <1>8, <1>10, Zenon DEF Multiples, Val, f, b, mult

\* Nothing the channels are described by changes.
LEMMA FmStutters ==
  ASSUME FmInv, UNCHANGED <<caller, layout, freg, shadow, patches, tones>>,
         fpc' = fpc \/ (fpc = "calls" /\ fpc' = "end"),
         calls' = calls \/ (fpc = "calls" /\ calls' = calls + 1),
         caller = "fmtest" /\ calls' > 0 => patches[0] # NoPatch
  PROVE  FmInv'
<1>1. FmShape' /\ FmBegun'
  BY DEF FmInv, FmShape, FmBegun
<1>2. ASSUME Roomy', NEW d \in FmChannels
      PROVE  ChannelKept(d)'
  <2>1. Roomy
    BY <1>2, Zenon DEF Roomy
  <2>2. FmShape /\ ChannelKept(d)
    BY <2>1, Zenon DEF FmInv
  <2>3. /\ \A r \in Registers(d) : freg'[r] = freg[r]
        /\ \A a \in Shadows : shadow'[<<a, d>>] = shadow[<<a, d>>]
        /\ patches'[d] = patches[d] /\ tones'[d] = tones[d]
    BY Zenon
  <2> QED
    BY <2>2, <2>3, ChannelUntouched, Zenon
<1> QED
  BY <1>1, <1>2, Zenon DEF FmInv

\* fm_play_tone keeps the invariant.
LEMMA PlayToneKeeps ==
  ASSUME FmInv, NEW ch \in FmChannels, patches[ch] # NoPatch,
         NEW freq \in Nat, NEW vol \in Volumes, PlayTone(ch, freq, vol),
         UNCHANGED <<caller, layout, patches>>, fpc = "calls", fpc' = fpc,
         calls' = calls + 1, caller = "fmtest" => patches[0] # NoPatch
  PROVE  FmInv'
<1> DEFINE mult == Mult(freq)  e == FnumFor(freq) % 256  rB0 == Keyed(freq)
           mod == shadow[Cell("mod_chars", ch)]
           car == shadow[Cell("car_chars", ch)]
           ksl == shadow[Cell("car_ksl", ch)]
           high == mult = 15 \/ (mod % 16) * mult > 15 \/ (car % 16) * mult > 15
<1>1. IF high THEN UNCHANGED <<freg, shadow, tones>>
      ELSE /\ shadow' = [shadow EXCEPT ![Cell("rB0", ch)] = rB0]
           /\ freg' = SetRegs(PlayWrites(ch, mod - (mod % 16) + (mod % 16) * mult,
                                         car - (car % 16) + (car % 16) * mult,
                                         ksl - (ksl % 64) + 63 - vol, e, rB0))
           /\ tones' = [tones EXCEPT ![ch] = [freq |-> freq, vol |-> vol, on |-> TRUE]]
  BY Zenon DEF PlayTone, PlayWrites, NumberFor, BlockFor, FnumFor, Keyed
<1>2. FmShape /\ ch \in 0..8
  BY FmAssumption DEF FmInv
<1>3. mod \in Val /\ car \in Val /\ ksl \in Val
  BY <1>2, CellType DEF FmShape, Shadows
<1>4. CASE high
  <2>1. fpc' = fpc /\ UNCHANGED <<caller, layout, freg, shadow, patches, tones>>
        /\ calls' = calls + 1
    BY <1>1, <1>4, Zenon
  <2> QED
    BY <2>1, FmStutters, Zenon
<1>5. CASE ~high
  <2>1. mult # 15
    BY <1>5, Zenon
  <2>2. mult \in Multiples /\ PitchIs(FnumFor(freq), BlockFor(freq), freq, mult)
        /\ rB0 \in 32..63 /\ e \in Val /\ ReadsBack(e, rB0, FnumFor(freq), BlockFor(freq))
    BY <2>1, NumbersFit, Zenon
  <2>3. mult \in Nat
    <3> HIDE DEF mult
    <3> QED
      BY <2>2 DEF Multiples
  <2>4. (mod % 16) * mult <= 15 /\ (car % 16) * mult <= 15
    <3> HIDE DEF mult, mod, car
    <3>1. mod % 16 \in Nat /\ car % 16 \in Nat
      BY <1>3 DEF Val
    <3>2. mult = 1 \/ mult = 2 \/ mult = 4 \/ mult = 8
      BY <2>2 DEF Multiples
    <3>3. (mod % 16) * mult \in Nat /\ (car % 16) * mult \in Nat
      BY <3>1, <3>2
    <3>4. ~((mod % 16) * mult > 15) /\ ~((car % 16) * mult > 15)
      BY <1>5, Zenon
    <3> QED
      BY <3>3, <3>4
  <2> HIDE DEF mult, mod, car, ksl, rB0, e
  <2> DEFINE a == Multiplied(mod, mult)  b == Multiplied(car, mult)  c == Level(ksl, vol)
  <2>5. /\ a \in Val /\ mod - (mod % 16) + (mod % 16) * mult = a
        /\ b \in Val /\ car - (car % 16) + (car % 16) * mult = b
    BY <1>3, <2>2, <2>4, ToneBytes, Zenon
  <2>6. c \in Val /\ ksl - (ksl % 64) + 63 - vol = c
    BY <1>3, VolumeBytes, Zenon DEF Level
  <2>7. rB0 \in Val
    BY <2>2, KeyBytes, Zenon
  <2> HIDE DEF a, b, c
  <2>8. /\ freg' = SetRegs(PlayWrites(ch, a, b, c, e, rB0))
        /\ shadow' = [shadow EXCEPT ![Cell("rB0", ch)] = rB0]
        /\ tones' = [tones EXCEPT ![ch] = [freq |-> freq, vol |-> vol, on |-> TRUE]]
    BY <1>1, <1>5, <2>5, <2>6, Zenon
  <2>9. freg \in [1..245 -> Val] /\ {a, b, c, e, rB0} \in SUBSET Val
    <3>1. freg \in [1..245 -> Val]
      BY <1>2, Zenon DEF FmShape
    <3>2. {a, b, c, e, rB0} \in SUBSET Val
      BY <2>2, <2>5, <2>6, <2>7, Zenon
    <3> QED
      BY <3>1, <3>2
  <2>10. /\ ToneSet(SetRegs(PlayWrites(ch, a, b, c, e, rB0)), ch, a, b, c, e, rB0)
         /\ SetRegs(PlayWrites(ch, a, b, c, e, rB0)) \in [1..245 -> Val]
    BY <1>2, <2>9, ToneWritten, Zenon
  <2>11. ToneSet(freg', ch, a, b, c, e, rB0) /\ freg' \in [1..245 -> Val]
    BY <2>8, <2>10, Zenon
  <2>12. ToneSet(freg', ch, Multiplied(shadow[Cell("mod_chars", ch)], mult),
                 Multiplied(shadow[Cell("car_chars", ch)], mult),
                 Level(shadow[Cell("car_ksl", ch)], vol), e, rB0)
    BY <2>11, Zenon DEF a, b, c, mod, car, ksl
  <2>13. fpc' = "calls"
    BY Zenon
  <2> HIDE DEF high
  <2> QED
    BY <2>2, <2>8, <2>11, <2>12, <2>13, TonePlayed, Zenon
<1> QED
  BY <1>4, <1>5, Zenon

\* The key's register with its bit gone.
Muted(rB0) == rB0 - 32 * ((rB0 \div 32) % 2)

LEMMA MutedBytes ==
  ASSUME NEW r \in Val
  PROVE  Muted(r) \in Val
<1>1. (r \div 32) % 2 = 0 \/ (r \div 32) % 2 = 1
  BY DEF Val
<1>2. (r \div 32) % 2 = 1 => r >= 32
  BY DEF Val
<1> QED
  BY <1>1, <1>2 DEF Val, Muted

\* Without its bit the key's register has the same pitch.
LEMMA MutedPitch ==
  ASSUME NEW r, r = 0 \/ r \in 32..63, NEW v, v = r \/ (r # 0 /\ v = r - 32)
  PROVE  /\ Muted(r) = IF r = 0 THEN 0 ELSE r - 32
         /\ Muted(r) % 4 = v % 4 /\ (Muted(r) \div 4) % 8 = (v \div 4) % 8
<1>1. CASE r = 0
  BY <1>1 DEF Muted
<1>2. CASE r \in 32..63
  <2>1. Muted(r) = r - 32
    BY <1>2, KeyOff DEF Muted
  <2>2. (r - 32) % 4 = r % 4 /\ ((r - 32) \div 4) % 8 = (r \div 4) % 8
    BY <1>2, KeyOff
  <2>3. r # 0
    BY <1>2
  <2> QED
    BY <2>1, <2>2, <2>3
<1> QED
  BY <1>1, <1>2

\* A channel whose tone is stopped has it still, with the key off.
LEMMA ChannelStops ==
  ASSUME FmShape, NEW ch \in FmChannels, ChannelKept(ch), patches' = patches, shadow' = shadow,
         freg'[176 + ch] = Muted(shadow[<<"rB0", ch>>]),
         \A r \in 1..245 \ {176 + ch} : freg'[r] = freg[r],
         tones'[ch].freq = tones[ch].freq, tones'[ch].vol = tones[ch].vol, ~tones'[ch].on
  PROVE  ChannelKept(ch)'
<1> DEFINE r == shadow[<<"rB0", ch>>]
           m == ModulatorAt(ch)
           k == CarrierAt(ch)
<1>1. ch \in 0..8
  BY FmAssumption
<1>2. m \in 0..18 /\ k \in 3..21
  BY <1>1, OperatorsAt, Zenon
<1>3. /\ r = 0 \/ r \in 32..63
      /\ tones[ch].on => r # 0
      /\ freg[176 + ch] = IF tones[ch].on \/ r = 0 THEN r ELSE r - 32
  BY Zenon DEF ChannelKept, KeyShadowed
<1>4. freg'[176 + ch] = Muted(r) /\ shadow'[<<"rB0", ch>>] = r
  BY Zenon
<1> HIDE DEF r, m, k
<1>5. freg[176 + ch] = r \/ (r # 0 /\ freg[176 + ch] = r - 32)
  BY <1>3, Zenon
<1>6. /\ freg'[176 + ch] = IF r = 0 THEN 0 ELSE r - 32
      /\ freg'[176 + ch] % 4 = freg[176 + ch] % 4
      /\ (freg'[176 + ch] \div 4) % 8 = (freg[176 + ch] \div 4) % 8
  <2> DEFINE v == freg[176 + ch]
  <2>1. (r = 0 \/ r \in 32..63) /\ (v = r \/ (r # 0 /\ v = r - 32))
    BY <1>3, <1>5, Zenon
  <2> HIDE DEF v
  <2>2. /\ Muted(r) = IF r = 0 THEN 0 ELSE r - 32
        /\ Muted(r) % 4 = v % 4 /\ (Muted(r) \div 4) % 8 = (v \div 4) % 8
    BY <2>1, MutedPitch
  <2> QED
    BY <1>4, <2>2, Zenon DEF v
<1>7. KeyShadowed(ch)'
  BY <1>3, <1>4, <1>6, Zenon DEF KeyShadowed
<1>8. /\ freg'[96 + m] = freg[96 + m] /\ freg'[96 + k] = freg[96 + k]
      /\ freg'[128 + m] = freg[128 + m] /\ freg'[128 + k] = freg[128 + k]
      /\ freg'[224 + m] = freg[224 + m] /\ freg'[224 + k] = freg[224 + k]
      /\ freg'[64 + m] = freg[64 + m] /\ freg'[192 + ch] = freg[192 + ch]
      /\ freg'[32 + m] = freg[32 + m] /\ freg'[32 + k] = freg[32 + k]
      /\ freg'[64 + k] = freg[64 + k] /\ freg'[160 + ch] = freg[160 + ch]
  BY <1>1, <1>2
<1>9. FixedAsLoaded(ch) => FixedAsLoaded(ch)'
  BY <1>8, ZenonT(40) DEF FixedAsLoaded, m, k
<1>10. Loaded(ch) => Loaded(ch)'
  BY Zenon DEF Loaded
<1>11. ASSUME Played(ch)
       PROVE  Played(ch)'
  <2>1. PICK mult \in {1, 2, 4, 8} :
          /\ freg[32 + k] = Multiplied(patches[ch].chars[2], mult)
          /\ freg[32 + m] = Multiplied(patches[ch].chars[1], mult)
          /\ freg[64 + k] = Level(patches[ch].ksl_lev[2], tones[ch].vol)
          /\ PitchOf(ch, tones[ch].freq, mult)
    BY <1>11, Zenon DEF Played, Multiplied, Level, m, k
  <2>2. Pitch(ch)' = Pitch(ch) /\ Block(ch)' = Block(ch)
    BY <1>6, <1>8, Zenon DEF Pitch, Block
  <2>3. PitchIs(Pitch(ch), Block(ch), tones[ch].freq, mult)
    BY <2>1, SMTT(30) DEF PitchOf, PitchIs, FreqNum
  <2>4. PitchIs(Pitch(ch)', Block(ch)', tones'[ch].freq, mult)
    BY <2>2, <2>3, Zenon
  <2>5. PitchOf(ch, tones[ch].freq, mult)'
    BY <2>4, SMTT(30) DEF PitchOf, PitchIs, FreqNum
  <2>6. /\ freg'[32 + k] = Multiplied(patches'[ch].chars[2], mult)
        /\ freg'[32 + m] = Multiplied(patches'[ch].chars[1], mult)
        /\ freg'[64 + k] = Level(patches'[ch].ksl_lev[2], tones'[ch].vol)
    BY <1>8, <2>1, ZenonT(40)
  <2> QED
    BY <2>5, <2>6, Zenon DEF Played, Multiplied, Level, m, k
<1>12. patches'[ch] = patches[ch] /\ (tones'[ch].freq > 0 => tones[ch].freq > 0)
  BY Zenon
<1> QED
  BY <1>7, <1>9, <1>10, <1>11, <1>12, Zenon DEF ChannelKept

\* fm_stop_tone keeps the invariant: the key's bit is the only thing that changes.
LEMMA StopToneKeeps ==
  ASSUME FmInv, NEW ch \in FmChannels, patches[ch] # NoPatch, StopTone(ch),
         UNCHANGED <<caller, layout, patches>>, fpc = "calls", fpc' \in {"calls", "end"},
         calls' = calls + 1, caller = "fmtest" => patches[0] # NoPatch
  PROVE  FmInv'
<1> DEFINE off == Muted(shadow[Cell("rB0", ch)])
           w == << <<ChReg(176, ch), off>> >>
           T == [freq : Nat, vol : Volumes, on : BOOLEAN]
<1>1. ch \in 0..8 /\ \A d \in FmChannels : d \in 0..8
  BY FmAssumption
<1>2. FmShape /\ FmBegun
  BY DEF FmInv
<1>3. FmBegun'
  BY <1>2 DEF FmBegun, FmShape
<1>4. freg' = SetRegs(w) /\ tones' = [tones EXCEPT ![ch].on = FALSE] /\ shadow' = shadow
  BY Zenon DEF StopTone, Muted
<1>5. off \in Val
  <2>1. shadow[Cell("rB0", ch)] \in Val
    BY <1>1, <1>2, CellType DEF FmShape, Shadows
  <2> QED
    BY <2>1, MutedBytes, Zenon
<1> HIDE DEF off
<1>6. Len(w) = 1 /\ w[1] = <<176 + ch, off>>
  BY DEF ChReg
<1> HIDE DEF w
<1>7. freg'[176 + ch] = off
  <2>1. /\ Len(w) \in Nat /\ 1 \in 1..Len(w) /\ w[1][1] \in 1..245
        /\ \A j \in 1 + 1..Len(w) : w[j][1] # w[1][1]
    BY <1>1, <1>6
  <2>2. SetRegs(w)[w[1][1]] = w[1][2]
    BY <2>1, LastWritten, Zenon
  <2> QED
    BY <1>4, <1>6, <2>2
<1>8. \A r \in 1..245 \ {176 + ch} : freg'[r] = freg[r]
  <2> TAKE r \in 1..245 \ {176 + ch}
  <2>1. r \in 1..245 /\ \A i \in 1..Len(w) : w[i][1] # r
    BY <1>6
  <2> QED
    BY <1>4, <2>1, NotWritten, Zenon
<1>9. \A t \in T : /\ [t EXCEPT !.on = FALSE] \in T /\ [t EXCEPT !.on = FALSE].freq = t.freq
                   /\ [t EXCEPT !.on = FALSE].vol = t.vol /\ ~[t EXCEPT !.on = FALSE].on
  OBVIOUS
<1>10. tones \in [FmChannels -> T] /\ tones[ch] \in T
  BY <1>2, Zenon DEF FmShape
<1>11. tones' = [tones EXCEPT ![ch] = [tones[ch] EXCEPT !.on = FALSE]]
  BY <1>4
<1> HIDE DEF T
<1>12. /\ tones' \in [FmChannels -> T] /\ tones'[ch] = [tones[ch] EXCEPT !.on = FALSE]
       /\ \A d \in FmChannels : d # ch => tones'[d] = tones[d]
  <2> DEFINE t == [tones[ch] EXCEPT !.on = FALSE]
  <2>1. t \in T
    BY <1>9, <1>10, Zenon
  <2> HIDE DEF t
  <2>2. tones' = [tones EXCEPT ![ch] = t]
    BY <1>11, Zenon DEF t
  <2>3. /\ tones' \in [FmChannels -> T] /\ tones'[ch] = t
        /\ \A d \in FmChannels : d # ch => tones'[d] = tones[d]
    BY <1>10, <2>1, <2>2
  <2> QED
    BY <2>3, Zenon DEF t
<1>13. FmShape'
  <2>1. freg' \in [1..245 -> Val]
    <3>1. \A i \in 1..Len(w) : w[i][2] \in Val
      BY <1>5, <1>6
    <3>2. freg \in [1..245 -> Val]
      BY <1>2, Zenon DEF FmShape
    <3> QED
      BY <1>4, <3>1, <3>2, SetRegsType, Zenon
  <2>2. tones' \in [FmChannels -> [freq : Nat, vol : Volumes, on : BOOLEAN]]
    BY <1>12, Zenon DEF T
  <2> QED
    BY <1>2, <1>4, <2>1, <2>2 DEF FmShape
<1>14. ASSUME Roomy', NEW d \in FmChannels
       PROVE  ChannelKept(d)'
  <2>1. Roomy /\ (ch < 8 \/ layout = "apart")
    <3>1. Roomy
      BY <1>14, Zenon DEF Roomy
    <3> QED
      BY <1>2, <3>1, RoomForChannel, Zenon
  <2>2. ChannelKept(d) /\ ChannelKept(ch)
    BY <2>1, Zenon DEF FmInv
  <2>3. freg'[176 + ch] = Muted(shadow[<<"rB0", ch>>])
    <3>1. Cell("rB0", ch) = <<"rB0", ch>>
      BY <1>1, <2>1, CellThere, Zenon
    <3> QED
      BY <1>7, <3>1, Zenon DEF off
  <2>4. CASE d = ch
    <3>1. /\ tones'[ch].freq = tones[ch].freq /\ tones'[ch].vol = tones[ch].vol
          /\ ~tones'[ch].on
      BY <1>9, <1>10, <1>12, Zenon
    <3>2. patches' = patches
      BY Zenon
    <3>3. ChannelKept(ch)'
      BY <1>2, <1>4, <1>8, <2>2, <2>3, <3>1, <3>2, ChannelStops, Zenon
    <3> QED
      BY <2>4, <3>3
  <2>5. CASE d # ch
    <3>1. {176 + ch} \in SUBSET Registers(ch)
      BY Zenon DEF Registers
    <3>2. /\ \A a \in Shadows : shadow'[<<a, d>>] = shadow[<<a, d>>]
          /\ patches'[d] = patches[d] /\ tones'[d] = tones[d]
      BY <1>4, <1>12, <2>5, Zenon
    <3> QED
      BY <1>2, <1>8, <2>2, <2>5, <3>1, <3>2, OtherChannel, Zenon
  <2> QED
    BY <2>4, <2>5, Zenon
<1> QED
  BY <1>3, <1>13, <1>14 DEF FmInv

LEMMA FmStarts ==
  ASSUME FmInit
  PROVE  FmInv
<1> DEFINE T == [freq : Nat, vol : Volumes, on : BOOLEAN]
<1>1. Silent \in T /\ Silent.on = FALSE /\ 0 \in Val /\ 0 \in FmChannels
  BY FmAssumption DEF Silent, Volumes, Val
<1>2. /\ freg = [r \in 1..245 |-> 0] /\ shadow = [c \in Shadows \X (0..8) |-> 0]
      /\ patches = [ch \in FmChannels |-> NoPatch] /\ tones = [ch \in FmChannels |-> Silent]
      /\ caller \in {"fmtest", "any"} /\ fpc = "detect" /\ calls = 0 /\ layout \in {"packed", "apart"}
  BY Zenon DEF FmInit, Shadows
<1> HIDE DEF T
<1>3. FmShape
  <2>1. freg \in [1..245 -> Val] /\ shadow \in [Shadows \X (0..8) -> Val]
    BY <1>1, <1>2
  <2>2. tones \in [FmChannels -> T] /\ patches \in [FmChannels -> {NoPatch} \cup Patches]
    BY <1>1, <1>2
  <2> QED
    BY <1>2, <2>1, <2>2 DEF FmShape, T
<1>4. FmBegun
  BY <1>2 DEF FmBegun
<1>5. \A ch \in FmChannels : ChannelKept(ch)
  <2> TAKE ch \in FmChannels
  <2>1. ch \in 0..8 /\ 176 + ch \in 1..245
    BY FmAssumption
  <2>2. <<"rB0", ch>> \in Shadows \X (0..8)
    BY <2>1 DEF Shadows
  <2>3. shadow[<<"rB0", ch>>] = 0 /\ freg[176 + ch] = 0 /\ tones[ch] = Silent
        /\ patches[ch] = NoPatch
    BY <1>2, <2>1, <2>2, Zenon
  <2> QED
    BY <1>1, <2>3, Zenon DEF ChannelKept, KeyShadowed
<1> QED
  BY <1>3, <1>4, <1>5 DEF FmInv

\* Before the first call nothing is loaded and nothing sounds.
LEMMA Quiet ==
  ASSUME FmShape, FmBegun, fpc \in {"detect", "reset"}, NEW ch \in FmChannels
  PROVE  /\ shadow[<<"rB0", ch>>] = 0 /\ patches[ch] = NoPatch /\ tones[ch] = Silent
         /\ Silent.on = FALSE
<1>1. ch \in 0..8
  BY FmAssumption
<1>2. <<"rB0", ch>> \in DOMAIN shadow
  BY <1>1 DEF FmShape, Shadows
<1>3. Silent.on = FALSE
  BY DEF Silent
<1> QED
  BY <1>2, <1>3, Zenon DEF FmBegun

LEMMA FmDetectKeeps ==
  ASSUME FmInv, FmDetect
  PROVE  FmInv'
<1> DEFINE w == << <<4, 96>>, <<4, 128>>, <<2, 255>>, <<4, 33>>, <<4, 96>>, <<4, 128>> >>
<1>1. /\ fpc = "detect" /\ fpc' \in {"reset", "end"} /\ freg' = SetRegs(w)
      /\ UNCHANGED <<caller, calls, layout, shadow, patches, tones>>
  BY DEF FmDetect
<1>2. FmShape /\ FmBegun
  BY DEF FmInv
<1>3. /\ Len(w) = 6 /\ w[1] = <<4, 96>> /\ w[2] = <<4, 128>> /\ w[3] = <<2, 255>>
      /\ w[4] = <<4, 33>> /\ w[5] = <<4, 96>> /\ w[6] = <<4, 128>>
  OBVIOUS
<1> HIDE DEF w
<1>4. \A i \in 1..Len(w) : w[i][2] \in Val /\ w[i][1] <= 4
  <2>1. \A i \in 1..6 : i \in {1, 2, 3, 4, 5, 6}
    OBVIOUS
  <2> QED
    BY <1>3, <2>1 DEF Val
<1>5. FmShape'
  <2>1. freg \in [1..245 -> Val]
    BY <1>2 DEF FmShape
  <2>2. freg' \in [1..245 -> Val]
    BY <1>1, <1>4, <2>1, SetRegsType, Zenon
  <2> QED
    BY <1>1, <1>2, <2>2 DEF FmShape
<1>6. FmBegun'
  BY <1>1, <1>2 DEF FmBegun
<1>7. ASSUME Roomy', NEW d \in FmChannels
      PROVE  ChannelKept(d)'
  <2>1. Roomy
    BY <1>1, <1>7, Zenon DEF Roomy
  <2>2. FmShape /\ ChannelKept(d)
    BY <1>2, <2>1, Zenon DEF FmInv
  <2>3. d \in 0..8
    BY FmAssumption
  <2>4. shadow[<<"rB0", d>>] = 0 /\ patches[d] = NoPatch /\ tones[d] = Silent /\ Silent.on = FALSE
    BY <1>1, <1>2, Quiet, Zenon
  <2>5. freg'[176 + d] = freg[176 + d]
    <3>1. 176 + d \in 1..245 /\ \A i \in 1..Len(w) : w[i][1] # 176 + d
      <4>1. \A i \in 1..Len(w) : w[i][1] \in {2, 4}
        <5>1. \A i \in 1..6 : i \in {1, 2, 3, 4, 5, 6}
          OBVIOUS
        <5> QED
          BY <1>3, <5>1
      <4> QED
        BY <2>3, <4>1
    <3> QED
      BY <1>1, <3>1, NotWritten, Zenon
  <2>6. freg[176 + d] = 0
    BY <2>2, <2>4, Zenon DEF ChannelKept, KeyShadowed
  <2>7. shadow' = shadow /\ patches' = patches /\ tones' = tones
    BY <1>1, Zenon
  <2>8. shadow'[<<"rB0", d>>] = 0 /\ patches'[d] = NoPatch /\ tones'[d].on = FALSE
        /\ freg'[176 + d] = 0
    BY <2>4, <2>5, <2>6, <2>7, Zenon
  <2> QED
    BY <2>8, Zenon DEF ChannelKept, KeyShadowed
<1> QED
  BY <1>5, <1>6, <1>7 DEF FmInv

LEMMA FmResetKeeps ==
  ASSUME FmInv, FmReset
  PROVE  FmInv'
<1>1. /\ fpc = "reset" /\ fpc' = "calls" /\ freg' = [r \in 1..245 |-> IF r = 1 THEN 32 ELSE 0]
      /\ UNCHANGED <<caller, calls, layout, shadow, patches, tones>>
  BY DEF FmReset
<1>2. FmShape /\ FmBegun
  BY DEF FmInv
<1>3. FmShape'
  <2>1. 0 \in Val /\ 32 \in Val
    BY DEF Val
  <2>2. freg' \in [1..245 -> Val]
    BY <1>1, <2>1
  <2> QED
    BY <1>1, <1>2, <2>2 DEF FmShape
<1>4. FmBegun'
  BY <1>1, <1>2 DEF FmBegun
<1>5. ASSUME NEW d \in FmChannels
      PROVE  ChannelKept(d)'
  <2>1. freg'[176 + d] = 0
    BY <1>1, FmAssumption
  <2>2. shadow[<<"rB0", d>>] = 0 /\ patches[d] = NoPatch /\ tones[d] = Silent /\ Silent.on = FALSE
    BY <1>1, <1>2, Quiet, Zenon
  <2>3. shadow'[<<"rB0", d>>] = 0 /\ patches'[d] = NoPatch /\ tones'[d].on = FALSE
    BY <1>1, <2>2, Zenon
  <2> QED
    BY <2>1, <2>3, Zenon DEF ChannelKept, KeyShadowed
<1> QED
  BY <1>3, <1>4, <1>5 DEF FmInv

LEMMA FmTestKeeps ==
  ASSUME FmInv, FmTest
  PROVE  FmInv'
<1>1. FmShape /\ FmBegun
  BY DEF FmInv
<1>2. caller = "fmtest" /\ fpc = "calls" /\ calls' = calls + 1 /\ UNCHANGED <<caller, layout>>
      /\ 0 \in FmChannels /\ calls \in Nat
  BY <1>1, FmAssumption DEF FmTest, FmShape
<1>3. CASE calls = 0 /\ LoadPatch(0, Sine) /\ UNCHANGED fpc
  <2>1. Sine \in Patches
    BY DEF Patches
  <2> QED
    BY <1>2, <1>3, <2>1, LoadPatchKeeps, Zenon
<1>4. CASE calls \in 1..FmTestTones /\ PlayTone(0, calls, 63) /\ UNCHANGED <<fpc, patches>>
  <2>1. patches[0] # NoPatch
    BY <1>1, <1>2, <1>4 DEF FmBegun
  <2>2. 63 \in Volumes
    BY DEF Volumes
  <2>3. UNCHANGED <<caller, layout, patches>> /\ fpc' = fpc
    BY <1>2, <1>4
  <2> QED
    BY <1>2, <1>4, <2>1, <2>2, <2>3, PlayToneKeeps, Zenon
<1>5. CASE calls > 1 /\ StopTone(0) /\ fpc' = "end" /\ UNCHANGED patches
  <2>1. patches[0] # NoPatch
    BY <1>1, <1>2, <1>5 DEF FmBegun
  <2>2. UNCHANGED <<caller, layout, patches>> /\ fpc' \in {"calls", "end"}
    BY <1>2, <1>5
  <2> QED
    BY <1>2, <1>5, <2>1, <2>2, StopToneKeeps, Zenon
<1> QED
  BY <1>3, <1>4, <1>5, Zenon DEF FmTest

LEMMA FmCallKeeps ==
  ASSUME FmInv, FmCall
  PROVE  FmInv'
<1>1. /\ caller = "any" /\ fpc = "calls" /\ calls' = calls + 1 /\ UNCHANGED <<caller, fpc, layout>>
      /\ caller # "fmtest"
  BY DEF FmCall
<1>2. PICK ch \in FmChannels :
         \/ \E p \in {Sine, Piano, Bell} : LoadPatch(ch, p)
         \/ /\ patches[ch] # NoPatch
            /\ \/ \E freq \in FmTones, vol \in {0, 63} : PlayTone(ch, freq, vol)
               \/ StopTone(ch)
            /\ UNCHANGED patches
  BY Zenon DEF FmCall
<1>3. CASE \E p \in {Sine, Piano, Bell} : LoadPatch(ch, p)
  <2>1. PICK p \in Patches : LoadPatch(ch, p)
    BY <1>3, Zenon DEF Patches
  <2> QED
    BY <1>1, <2>1, LoadPatchKeeps, Zenon
<1>4. CASE /\ patches[ch] # NoPatch /\ UNCHANGED patches
           /\ \E freq \in FmTones, vol \in {0, 63} : PlayTone(ch, freq, vol)
  <2>1. PICK freq \in Nat, vol \in Volumes : PlayTone(ch, freq, vol)
    <3>1. FmTones \subseteq Nat
      BY FmAssumption, Zenon
    <3> QED
      BY <1>4, <3>1, Zenon DEF Volumes
  <2>2. UNCHANGED <<caller, layout, patches>> /\ fpc' = fpc
    BY <1>1, <1>4, Zenon
  <2> QED
    BY <1>1, <1>4, <2>1, <2>2, PlayToneKeeps, Zenon
<1>5. CASE patches[ch] # NoPatch /\ UNCHANGED patches /\ StopTone(ch)
  <2>1. UNCHANGED <<caller, layout, patches>> /\ fpc' \in {"calls", "end"}
    BY <1>1, <1>5
  <2> QED
    BY <1>1, <1>5, <2>1, StopToneKeeps, Zenon
<1> QED
  BY <1>2, <1>3, <1>4, <1>5, Zenon

LEMMA FmKeeps ==
  ASSUME FmInv, FmNext
  PROVE  FmInv'
  BY FmDetectKeeps, FmResetKeeps, FmTestKeeps, FmCallKeeps, Zenon DEF FmNext

LEMMA FmRests ==
  ASSUME FmInv, UNCHANGED fmVars
  PROVE  FmInv'
<1>1. /\ UNCHANGED <<caller, layout, freg, shadow, patches, tones>> /\ fpc' = fpc /\ calls' = calls
  BY DEF fmVars
<1>2. caller = "fmtest" /\ calls' > 0 => patches[0] # NoPatch
  BY <1>1, Zenon DEF FmInv, FmBegun
<1> QED
  BY <1>1, <1>2, FmStutters, Zenon

\* What the invariant is for.
LEMMA ChannelsKept ==
  ASSUME FmInv
  PROVE  ChannelsIndependent /\ FmTypeOK
<1>1. FmShape /\ (Roomy => \A ch \in FmChannels : ChannelKept(ch))
  BY DEF FmInv
<1>2. FmTypeOK
  <2>1. DOMAIN shadow = Shadows \X (0..8)
    BY <1>1 DEF FmShape
  <2>2. /\ \A r \in 1..245 : freg[r] \in Val
        /\ \A c \in DOMAIN shadow : shadow[c] \in Val
        /\ fpc \in {"detect", "reset", "calls", "end"}
    BY <1>1, <2>1 DEF FmShape
  <2> QED
    BY <2>2, Zenon DEF FmTypeOK, Val
<1>3. ASSUME Roomy, NEW ch \in FmChannels, patches[ch] # NoPatch
      PROVE  /\ FixedAsLoaded(ch)
             /\ tones[ch].freq > 0 => Played(ch)
             /\ freg[176 + ch] >= 32 <=> tones[ch].on
  <2>1. KeyShadowed(ch) /\ FixedAsLoaded(ch) /\ (tones[ch].freq > 0 => Played(ch))
    BY <1>1, <1>3, Zenon DEF ChannelKept
  <2>2. freg[176 + ch] >= 32 <=> tones[ch].on
    BY <2>1 DEF KeyShadowed
  <2> QED
    BY <2>1, <2>2
<1> QED
  BY <1>2, <1>3, Zenon DEF ChannelsIndependent, Roomy

LEMMA FmKeepsInv == ASSUME FmInv, [FmNext]_fmVars PROVE FmInv'
  BY FmKeeps, FmRests, Zenon

----------------------------------------------------------------------------
(* md5sum: the digest of a file, whatever pieces fread brings it in, and   *)
(* the exit status of a check, for any block, any length and any files.    *)
----------------------------------------------------------------------------
(* Arithmetic.                                                             *)

\* Any number is its whole blocks and what is left of it ...
LEMMA WholeAndRest ==
  ASSUME NEW w \in Nat \ {0}, NEW c \in Nat
  PROVE  /\ c \div w \in Nat /\ c % w \in 0..(w - 1)
         /\ c = (c \div w) * w + (c % w)
  OBVIOUS

\* ... and nothing else is.
LEMMA OnlyWholeAndRest ==
  ASSUME NEW w \in Nat \ {0}, NEW c \in Nat, NEW q \in Int, NEW r \in 0..(w - 1), c = q * w + r
  PROVE  c \div w = q /\ c % w = r
<1> DEFINE p == c \div w
           m == c % w
<1>1. p \in Int /\ m \in 0..(w - 1) /\ c = p * w + m
  BY WholeAndRest
<1> HIDE DEF p, m
<1>2. (q - p) * w = m - r /\ (p - q) * w = r - m
  BY <1>1
<1>3. ~(q - p >= 1)
  <2>1. ASSUME q - p >= 1 PROVE (q - p) * w >= w
    BY <2>1, <1>1
  <2> QED
    BY <2>1, <1>1, <1>2
<1>4. ~(p - q >= 1)
  <2>1. ASSUME p - q >= 1 PROVE (p - q) * w >= w
    BY <2>1, <1>1
  <2> QED
    BY <2>1, <1>1, <1>2
<1>5. p = q /\ m = r
  BY <1>1, <1>2, <1>3, <1>4
<1> QED
  BY <1>5 DEF p, m

\* The bytes that wait are counted by the low word, though it wraps.
LEMMA LowWordTells ==
  ASSUME NEW n \in Nat
  PROVE  (((8 * n) % WordMod) \div 8) % BlockBytes = n % BlockBytes
<1> DEFINE j == WordMod \div (8 * BlockBytes)
           q == (8 * n) \div WordMod
           l == (8 * n) % WordMod
           d == n \div BlockBytes
           r == n % BlockBytes
<1>1. BlockBytes \in Nat \ {0} /\ WordMod \in Nat \ {0} /\ WordMod % (8 * BlockBytes) = 0
      /\ 8 * BlockBytes \in Nat \ {0} /\ 8 * n \in Nat
  BY Md5Assumption
<1>2. j \in Nat /\ WordMod = j * (8 * BlockBytes)
  <2>1. WordMod = j * (8 * BlockBytes) + 0 /\ j \in Nat
    BY <1>1, WholeAndRest
  <2> HIDE DEF j
  <2> QED
    BY <1>1, <2>1
<1>3. q \in Nat /\ l \in Nat /\ 8 * n = q * WordMod + l
  BY <1>1, WholeAndRest
<1>4. d \in Nat /\ r \in 0..(BlockBytes - 1) /\ n = d * BlockBytes + r
  BY <1>1, WholeAndRest
<1> HIDE DEF j, q, l, d, r
<1> DEFINE a == q * j
<1>5. a \in Nat /\ q * WordMod = 8 * (a * BlockBytes) /\ a * BlockBytes \in Nat
  BY <1>1, <1>2, <1>3
<1> HIDE DEF a
<1>6. l = 8 * (n - a * BlockBytes)
  BY <1>3, <1>5
<1>7. n - a * BlockBytes \in Nat /\ l \div 8 = n - a * BlockBytes
  <2> DEFINE x == n - a * BlockBytes
  <2>1. x \in Int
    BY <1>5
  <2> HIDE DEF x
  <2>2. l = 8 * x
    BY <1>6 DEF x
  <2>3. x \in Nat /\ l \div 8 = x
    BY <1>3, <2>1, <2>2
  <2> QED
    BY <2>3 DEF x
<1>8. n - a * BlockBytes = (d - a) * BlockBytes + r /\ d - a \in Int
  BY <1>1, <1>4, <1>5
<1>9. (n - a * BlockBytes) % BlockBytes = r
  BY <1>1, <1>4, <1>7, <1>8, OnlyWholeAndRest
<1> QED
  BY <1>7, <1>9 DEF l, r

\* Two words count on: the low one wraps, and the high one has the carry.
LEMMA WordsCountOn ==
  ASSUME NEW a \in Nat, NEW b \in Nat
  PROVE  /\ ((a % WordMod) + b) % WordMod = (a + b) % WordMod
         /\ (a \div WordMod) + (IF ((a % WordMod) + b) % WordMod < a % WordMod THEN 1 ELSE 0)
              + b \div WordMod = (a + b) \div WordMod
<1> DEFINE q == a \div WordMod
           l == a % WordMod
           p == b \div WordMod
           m == b % WordMod
<1>1. WordMod \in Nat \ {0}
  BY Md5Assumption
<1>2. q \in Nat /\ l \in 0..(WordMod - 1) /\ a = q * WordMod + l
  BY <1>1, WholeAndRest
<1>3. p \in Nat /\ m \in 0..(WordMod - 1) /\ b = p * WordMod + m
  BY <1>1, WholeAndRest
<1> HIDE DEF q, l, p, m
<1>4. l + b \in Nat /\ a + b \in Nat /\ q + p \in Nat /\ q + p + 1 \in Nat /\ p + 1 \in Nat
  BY <1>2, <1>3
<1>5. CASE l + m < WordMod
  <2>1. l + m \in 0..(WordMod - 1) /\ l + b = p * WordMod + (l + m)
        /\ a + b = (q + p) * WordMod + (l + m)
    BY <1>1, <1>2, <1>3, <1>5
  <2>2. (l + b) % WordMod = l + m
    <3>1. /\ WordMod \in Nat \ {0} /\ l + b \in Nat /\ p \in Int /\ l + m \in 0..(WordMod - 1)
          /\ l + b = p * WordMod + (l + m)
      BY <1>1, <1>3, <1>4, <2>1
    <3> QED
      BY <3>1, OnlyWholeAndRest, Zenon
  <2>3. (a + b) % WordMod = l + m /\ (a + b) \div WordMod = q + p
    <3>1. /\ WordMod \in Nat \ {0} /\ a + b \in Nat /\ q + p \in Int /\ l + m \in 0..(WordMod - 1)
          /\ a + b = (q + p) * WordMod + (l + m)
      BY <1>1, <1>4, <2>1
    <3> QED
      BY <3>1, OnlyWholeAndRest, Zenon
  <2>4. ~(l + m < l) /\ q + 0 + p = q + p
    BY <1>1, <1>2, <1>3
  <2> QED
    BY <2>2, <2>3, <2>4 DEF q, l, p
<1>6. CASE ~(l + m < WordMod)
  <2>1. l + m - WordMod \in 0..(WordMod - 1) /\ l + b = (p + 1) * WordMod + (l + m - WordMod)
        /\ a + b = (q + p + 1) * WordMod + (l + m - WordMod)
    BY <1>1, <1>2, <1>3, <1>6
  <2>2. (l + b) % WordMod = l + m - WordMod
    <3>1. /\ WordMod \in Nat \ {0} /\ l + b \in Nat /\ p + 1 \in Int
          /\ l + m - WordMod \in 0..(WordMod - 1) /\ l + b = (p + 1) * WordMod + (l + m - WordMod)
      BY <1>1, <1>3, <1>4, <2>1
    <3> QED
      BY <3>1, OnlyWholeAndRest, Zenon
  <2>3. (a + b) % WordMod = l + m - WordMod /\ (a + b) \div WordMod = q + p + 1
    <3>1. /\ WordMod \in Nat \ {0} /\ a + b \in Nat /\ q + p + 1 \in Int
          /\ l + m - WordMod \in 0..(WordMod - 1)
          /\ a + b = (q + p + 1) * WordMod + (l + m - WordMod)
      BY <1>1, <1>4, <2>1
    <3> QED
      BY <3>1, OnlyWholeAndRest, Zenon
  <2>4. l + m - WordMod < l /\ q + 1 + p = q + p + 1
    BY <1>1, <1>2, <1>3
  <2> QED
    BY <2>2, <2>3, <2>4 DEF q, l, p
<1> QED
  BY <1>5, <1>6

----------------------------------------------------------------------------
(* The context's fields, and what each step of md5.c makes of them.       *)

Context(l, h, i, b) == [low |-> l, high |-> h, in |-> i, blocks |-> b]

\* The blocks that the first bytes of a message fill.
BlockAt(D, b) == [k \in 1..BlockBytes |-> D[(b - 1) * BlockBytes + k]]
FullBlocks(D, q) == [b \in 1..q |-> BlockAt(D, b)]

\* bytes are those of a message from one place to another.
Part(bytes, S, D, a, z) ==
  bytes \in Seq(S) /\ Len(bytes) = z - a /\ \A k \in 1..(z - a) : bytes[k] = D[a + k]

LEMMA ContextFields ==
  ASSUME NEW l, NEW h, NEW i, NEW b
  PROVE  /\ Context(l, h, i, b).low = l /\ Context(l, h, i, b).high = h
         /\ Context(l, h, i, b).in = i /\ Context(l, h, i, b).blocks = b
BY DEF Context

LEMMA OneField ==
  ASSUME NEW l, NEW h, NEW i, NEW b, NEW x
  PROVE  /\ [Context(l, h, i, b) EXCEPT !.low = x] = Context(x, h, i, b)
         /\ [Context(l, h, i, b) EXCEPT !.high = x] = Context(l, x, i, b)
         /\ [Context(l, h, i, b) EXCEPT !.in = x] = Context(l, h, x, b)
         /\ [Context(l, h, i, b) EXCEPT !.blocks = x] = Context(l, h, i, x)
BY DEF Context

CountGrows(l, h, n, x, y) ==
  /\ x = (l + 8 * n) % WordMod
  /\ y = h + (IF x < l THEN 1 ELSE 0) + (8 * n) \div WordMod

LEMMA CountedIs ==
  ASSUME NEW l, NEW h, NEW i, NEW b, NEW n, NEW x, NEW y, CountGrows(l, h, n, x, y)
  PROVE  Counted(Context(l, h, i, b), n) = Context(x, y, i, b)
<1> DEFINE r == Context(l, h, i, b)
           s == Context(x, h, i, b)
<1>1. s = [r EXCEPT !.low = x] /\ Context(x, y, i, b) = [s EXCEPT !.high = y]
  BY DEF Context
<1>2. r.low = l /\ r.high = h
  BY ContextFields
<1> HIDE DEF r, s
<1>3. Counted(r, n) = [r EXCEPT !.low = x, !.high = y]
  BY <1>2, Zenon DEF Counted, CountGrows
<1>4. [r EXCEPT !.low = x, !.high = y] = [s EXCEPT !.high = y]
  BY <1>1
<1>5. Counted(r, n) = Context(x, y, i, b)
  BY <1>1, <1>3, <1>4
<1> QED
  BY <1>5 DEF r

LEMMA TransformIs ==
  ASSUME NEW l, NEW h, NEW i, NEW b
  PROVE  MD5Transform(Context(l, h, i, b)) = Context(l, h, i, Append(b, i))
BY SMTT(30) DEF MD5Transform, Context

LEMMA FilledIs ==
  ASSUME NEW l, NEW h, NEW i, NEW b, NEW n, NEW bytes
  PROVE  [Context(l, h, i, b) EXCEPT !.in = Copied(@, n, bytes)] = Context(l, h, Copied(i, n, bytes), b)
BY DEF Context

BlocksGrow(i, b, n, bytes, x, y) ==
  /\ x = b \o [k \in 1..n |-> SubSeq(bytes, (k - 1) * BlockBytes + 1, k * BlockBytes)]
  /\ y = Copied(IF n = 0 THEN i
                ELSE SubSeq(bytes, (n - 1) * BlockBytes + 1, n * BlockBytes),
                0, SubSeq(bytes, n * BlockBytes + 1, Len(bytes)))

LEMMA WholeBlocksIs ==
  ASSUME NEW l, NEW h, NEW i, NEW b, NEW bytes, NEW n, n = Len(bytes) \div BlockBytes,
         NEW x, NEW y, BlocksGrow(i, b, n, bytes, x, y)
  PROVE  WholeBlocks(Context(l, h, i, b), bytes) = Context(l, h, y, x)
<1> DEFINE r == Context(l, h, i, b)
           s == Context(l, h, i, x)
<1>1. s = [r EXCEPT !.blocks = x] /\ Context(l, h, y, x) = [s EXCEPT !.in = y]
  BY DEF Context
<1>2. r.in = i /\ r.blocks = b
  BY ContextFields
<1> HIDE DEF r, s
<1>3. WholeBlocks(r, bytes) = [r EXCEPT !.blocks = x, !.in = y]
  BY <1>2, Zenon DEF WholeBlocks, BlocksGrow
<1>4. [r EXCEPT !.blocks = x, !.in = y] = [s EXCEPT !.in = y]
  BY <1>1
<1>5. WholeBlocks(r, bytes) = Context(l, h, y, x)
  BY <1>1, <1>3, <1>4
<1> QED
  BY <1>5 DEF r

\* A sequence that begins with one and goes on with another is both.
LEMMA JoinIs ==
  ASSUME NEW T, NEW f \in Seq(T), NEW m \in Seq(T), NEW g \in Seq(T), Len(g) = Len(f) + Len(m),
         \A b \in 1..Len(f) : g[b] = f[b], \A k \in 1..Len(m) : g[Len(f) + k] = m[k]
  PROVE  f \o m = g
<1>1. Len(f) \in Nat /\ Len(m) \in Nat
  OBVIOUS
<1>2. f \o m \in Seq(T) /\ Len(f \o m) = Len(f) + Len(m)
      /\ \A b \in 1..(Len(f) + Len(m)) : (f \o m)[b] = IF b <= Len(f) THEN f[b] ELSE m[b - Len(f)]
  BY ConcatProperties
<1>3. ASSUME NEW b \in 1..(Len(f) + Len(m)) PROVE (f \o m)[b] = g[b]
  <2>1. CASE b <= Len(f)
    BY <1>1, <1>2, <2>1
  <2>2. CASE ~(b <= Len(f))
    <3>1. b - Len(f) \in 1..Len(m) /\ b = Len(f) + (b - Len(f))
      BY <1>1, <2>2
    <3> QED
      BY <1>2, <2>2, <3>1
  <2> QED
    BY <2>1, <2>2
<1> QED
  BY <1>2, <1>3, SeqEqual

LEMMA BlockPlaces ==
  ASSUME NEW q \in Nat, NEW b \in 1..q, NEW k \in 1..BlockBytes
  PROVE  (b - 1) * BlockBytes + k \in 1..(q * BlockBytes)
<1>1. BlockBytes \in Nat \ {0}
  BY Md5Assumption
<1>2. (b - 1) * BlockBytes \in Nat /\ (q - b) * BlockBytes \in Nat
  BY <1>1
<1>3. q * BlockBytes = (q - b) * BlockBytes + (b - 1) * BlockBytes + BlockBytes
  BY <1>1
<1> QED
  BY <1>1, <1>2, <1>3

LEMMA FullBlocksType ==
  ASSUME NEW S, NEW D \in Seq(S), NEW q \in Nat, q * BlockBytes <= Len(D)
  PROVE  FullBlocks(D, q) \in Seq(Seq(S)) /\ Len(FullBlocks(D, q)) = q
<1>1. BlockBytes \in Nat
  BY Md5Assumption
<1>2. ASSUME NEW b \in 1..q
      PROVE  BlockAt(D, b) \in Seq(S)
  <2>1. ASSUME NEW k \in 1..BlockBytes PROVE D[(b - 1) * BlockBytes + k] \in S
    <3>1. (b - 1) * BlockBytes + k \in 1..(q * BlockBytes)
      BY BlockPlaces
    <3>2. (b - 1) * BlockBytes + k \in 1..Len(D)
      BY <1>1, <3>1, LenProperties
    <3> QED
      BY <3>2, ElementOfSeq
  <2> QED
    BY <1>1, <2>1 DEF BlockAt
<1>3. FullBlocks(D, q) \in [1..q -> Seq(S)]
  BY <1>2 DEF FullBlocks
<1> QED
  BY <1>3, LenProperties

LEMMA FullBlocksConcat ==
  ASSUME NEW S, NEW D \in Seq(S), NEW q \in Nat, NEW n \in Nat, (q + n) * BlockBytes <= Len(D),
         NEW m \in Seq(Seq(S)), Len(m) = n,
         \A k \in 1..n : m[k] = BlockAt(D, q + k)
  PROVE  FullBlocks(D, q) \o m = FullBlocks(D, q + n)
<1>1. BlockBytes \in Nat
  BY Md5Assumption
<1>2. q * BlockBytes <= Len(D) /\ q + n \in Nat
  <2>1. n * BlockBytes \in Nat /\ (q + n) * BlockBytes = q * BlockBytes + n * BlockBytes
        /\ q * BlockBytes \in Nat
    BY <1>1
  <2> QED
    BY <2>1, LenProperties
<1>3. /\ FullBlocks(D, q) \in Seq(Seq(S)) /\ Len(FullBlocks(D, q)) = q
      /\ FullBlocks(D, q + n) \in Seq(Seq(S)) /\ Len(FullBlocks(D, q + n)) = q + n
  BY <1>2, FullBlocksType
<1>4. \A b \in 1..q : FullBlocks(D, q + n)[b] = FullBlocks(D, q)[b]
  BY DEF FullBlocks
<1>5. \A k \in 1..n : FullBlocks(D, q + n)[q + k] = m[k]
  BY DEF FullBlocks
<1> DEFINE f == FullBlocks(D, q)
           g == FullBlocks(D, q + n)
<1> HIDE DEF f, g
<1>6. f \in Seq(Seq(S)) /\ g \in Seq(Seq(S)) /\ Len(g) = Len(f) + Len(m)
      /\ (\A b \in 1..Len(f) : g[b] = f[b]) /\ \A k \in 1..Len(m) : g[Len(f) + k] = m[k]
  BY <1>3, <1>4, <1>5 DEF f, g
<1>7. f \o m = g
  BY <1>6, JoinIs
<1> QED
  BY <1>7 DEF f, g

LEMMA FullBlocksAppend ==
  ASSUME NEW S, NEW D \in Seq(S), NEW q \in Nat, (q + 1) * BlockBytes <= Len(D),
         NEW x, x = BlockAt(D, q + 1)
  PROVE  Append(FullBlocks(D, q), x) = FullBlocks(D, q + 1)
<1>1. BlockBytes \in Nat
  BY Md5Assumption
<1>2. x \in Seq(S)
  <2>1. q + 1 \in Nat /\ q + 1 \in 1..(q + 1)
    OBVIOUS
  <2>2. FullBlocks(D, q + 1) \in Seq(Seq(S)) /\ Len(FullBlocks(D, q + 1)) = q + 1
    BY <2>1, FullBlocksType
  <2>3. FullBlocks(D, q + 1)[q + 1] \in Seq(S)
    BY <2>1, <2>2, ElementOfSeq
  <2> QED
    BY <2>1, <2>3 DEF FullBlocks
<1>3. <<x>> \in Seq(Seq(S)) /\ Len(<<x>>) = 1 /\ <<x>>[1] = x
  BY <1>2
<1>4. ASSUME NEW k \in 1..1
      PROVE  <<x>>[k] = BlockAt(D, q + k)
  <2>1. k = 1
    OBVIOUS
  <2> QED
    BY <1>3, <2>1
<1> DEFINE m == <<x>>
<1> HIDE DEF m
<1>5. FullBlocks(D, q) \o m = FullBlocks(D, q + 1)
  <2>1. m \in Seq(Seq(S)) /\ Len(m) = 1 /\ 1 \in Nat
        /\ \A k \in 1..1 : m[k] = BlockAt(D, q + k)
    BY <1>3, <1>4 DEF m
  <2> QED
    BY <2>1, FullBlocksConcat
<1>6. FullBlocks(D, q) \in Seq(Seq(S))
  <2>1. q * BlockBytes <= Len(D)
    <3>1. (q + 1) * BlockBytes = q * BlockBytes + BlockBytes /\ q * BlockBytes \in Nat
      BY <1>1
    <3> QED
      BY <1>1, <3>1, LenProperties
  <2> QED
    BY <2>1, FullBlocksType
<1> QED
  BY <1>2, <1>5, <1>6, AppendIsConcat DEF m

\* What waits in the block when n bytes of D have been read.
Waits(i, D, n) ==
  /\ i = [k \in 1..BlockBytes |-> i[k]]
  /\ \A k \in 1..(n % BlockBytes) : i[k] = D[(n \div BlockBytes) * BlockBytes + k]

\* A context with the blocks of the first n bytes of D, and the rest of them waiting.
Holds(c, D, n, l, h) ==
  \E i : Waits(i, D, n) /\ c = Context(l, h, i, FullBlocks(D, n \div BlockBytes))

ContextOf(c, D, n) == Holds(c, D, n, (8 * n) % WordMod, (8 * n) \div WordMod)

LEMMA CopiedIs ==
  ASSUME NEW i, NEW n, NEW bytes
  PROVE  /\ Copied(i, n, bytes) = [k \in 1..BlockBytes |-> Copied(i, n, bytes)[k]]
         /\ \A k \in 1..BlockBytes :
              Copied(i, n, bytes)[k] = IF k > n /\ k <= n + Len(bytes) THEN bytes[k - n] ELSE i[k]
BY DEF Copied

LEMMA PartOfPart ==
  ASSUME NEW S, NEW D, NEW a \in Nat, NEW z \in Nat, a <= z, NEW bytes, Part(bytes, S, D, a, z),
         NEW x \in 0..(z - a), NEW y \in x..(z - a)
  PROVE  Part(SubSeq(bytes, x + 1, y), S, D, a + x, a + y)
<1>1. bytes \in Seq(S) /\ Len(bytes) = z - a /\ \A k \in 1..(z - a) : bytes[k] = D[a + k]
  BY DEF Part
<1>2. \A k \in (x + 1)..y : bytes[k] \in S
  BY <1>1, ElementOfSeq
<1>3. /\ SubSeq(bytes, x + 1, y) \in Seq(S)
      /\ Len(SubSeq(bytes, x + 1, y)) = IF x + 1 <= y THEN y - (x + 1) + 1 ELSE 0
      /\ \A i \in 1..(y - (x + 1) + 1) : SubSeq(bytes, x + 1, y)[i] = bytes[(x + 1) + i - 1]
  <2>1. x + 1 \in Int /\ y \in Int
    OBVIOUS
  <2> QED
    BY <1>2, <2>1, SubSeqProperties
<1> DEFINE s == SubSeq(bytes, x + 1, y)
<1> HIDE DEF s
<1>4. s \in Seq(S) /\ Len(s) = y - x /\ \A k \in 1..(y - x) : s[k] = bytes[x + k]
  <2>1. y - (x + 1) + 1 = y - x /\ (IF x + 1 <= y THEN y - (x + 1) + 1 ELSE 0) = y - x
    OBVIOUS
  <2>2. ASSUME NEW k \in 1..(y - x) PROVE s[k] = bytes[x + k]
    <3>1. (x + 1) + k - 1 = x + k
      OBVIOUS
    <3> QED
      BY <1>3, <2>1, <3>1 DEF s
  <2> QED
    BY <1>3, <2>1, <2>2 DEF s
<1>5. ASSUME NEW k \in 1..(y - x) PROVE s[k] = D[(a + x) + k]
  <2>1. x + k \in 1..(z - a) /\ a + (x + k) = (a + x) + k
    OBVIOUS
  <2> QED
    BY <1>1, <1>4, <2>1
<1>6. (a + y) - (a + x) = y - x
  OBVIOUS
<1> QED
  BY <1>4, <1>5, <1>6 DEF Part, s

LEMMA PartArith ==
  ASSUME NEW B \in Nat \ {0}, NEW q \in Nat, NEW z \in Nat, NEW a \in Nat, a = q * B, a <= z,
         NEW w, w = z - a, NEW n, n = w \div B, NEW r, r = w % B
  PROVE  /\ w \in Nat /\ n \in Nat /\ r \in 0..(B - 1) /\ w = n * B + r
         /\ n * B \in 0..w /\ (q + n) * B = a + n * B /\ z - (q + n) * B = r
         /\ (q + n) * B <= z /\ a + w = z
         /\ z \div B = q + n /\ z % B = r
<1>1. w \in Nat /\ n \in Nat /\ r \in 0..(B - 1) /\ w = n * B + r
  <2>1. w \in Nat
    OBVIOUS
  <2> QED
    BY <2>1, WholeAndRest
<1>2. n * B \in Nat /\ n * B <= w /\ q + n \in Nat
  BY <1>1
<1>3. (q + n) * B = q * B + n * B
  BY <1>1
<1>4. (q + n) * B = a + n * B
  BY <1>3
<1>5. z = (q + n) * B + r
  BY <1>1, <1>2, <1>4
<1>6. z \div B = q + n /\ z % B = r
  <2> DEFINE p == q + n
  <2>1. B \in Nat \ {0} /\ z \in Nat /\ p \in Int /\ r \in 0..(B - 1) /\ z = p * B + r
    BY <1>1, <1>2, <1>5
  <2> HIDE DEF p
  <2>2. z \div B = p /\ z % B = r
    BY <2>1, OnlyWholeAndRest, ZenonT(60)
  <2> QED
    BY <2>2 DEF p
<1>7. z - (q + n) * B = r /\ (q + n) * B <= z /\ a + w = z
  BY <1>1, <1>2, <1>4, <1>5
<1> QED
  BY <1>1, <1>2, <1>4, <1>6, <1>7

LEMMA PlaceArith ==
  ASSUME NEW B \in Nat \ {0}, NEW n \in Nat, NEW w \in Nat, n * B <= w, NEW k \in 1..n,
         NEW x, x = (k - 1) * B
  PROVE  x \in Nat /\ k * B = x + B /\ x \in 0..w /\ k * B \in x..w
<1>1. (n - k) * B \in Nat /\ x \in Nat
  OBVIOUS
<1>2. n * B = (n - k) * B + k * B /\ k * B = x + B
  OBVIOUS
<1> QED
  BY <1>1, <1>2

\* From a place between two blocks, the whole blocks go and the rest waits.
LEMMA WholeBlocksOn ==
  ASSUME NEW S, NEW D \in Seq(S), NEW q \in Nat, NEW z \in Nat, q * BlockBytes <= z, z <= Len(D),
         NEW bytes, Part(bytes, S, D, q * BlockBytes, z),
         NEW l, NEW h, NEW i, i = [k \in 1..BlockBytes |-> i[k]]
  PROVE  Holds(WholeBlocks(Context(l, h, i, FullBlocks(D, q)), bytes), D, z, l, h)
<1> DEFINE a == q * BlockBytes
           w == z - a
           n == w \div BlockBytes
           r == w % BlockBytes
<1>1. BlockBytes \in Nat \ {0} /\ a \in Nat /\ a = q * BlockBytes /\ a <= z
  BY Md5Assumption
<1>2. Len(bytes) = w /\ Part(bytes, S, D, a, z)
  BY DEF Part
<1>3. w = z - a /\ n = w \div BlockBytes /\ r = w % BlockBytes
  OBVIOUS
<1> HIDE DEF a, n, r, w
<1>4. w \in Nat /\ n \in Nat /\ r \in 0..(BlockBytes - 1) /\ a + w = z
      /\ z \div BlockBytes = q + n /\ z % BlockBytes = r
  BY <1>1, <1>3, PartArith
<1>5. n * BlockBytes \in 0..w /\ (q + n) * BlockBytes = a + n * BlockBytes
      /\ z - (q + n) * BlockBytes = r /\ (q + n) * BlockBytes <= Len(D)
  <2> DEFINE u == (q + n) * BlockBytes
  <2>1. n * BlockBytes \in 0..w /\ u = a + n * BlockBytes /\ z - u = r /\ u <= z
    BY <1>1, <1>3, PartArith
  <2>2. u \in Int
    BY <1>1, <1>4
  <2> HIDE DEF u
  <2>3. u <= Len(D)
    BY <2>1, <2>2, LenProperties
  <2> QED
    BY <2>1, <2>3 DEF u
<1> DEFINE m == [k \in 1..n |-> SubSeq(bytes, (k - 1) * BlockBytes + 1, k * BlockBytes)]
           rest == SubSeq(bytes, n * BlockBytes + 1, Len(bytes))
           in == IF n = 0 THEN i ELSE SubSeq(bytes, (n - 1) * BlockBytes + 1, n * BlockBytes)
           y == Copied(in, 0, rest)
<1>6. ASSUME NEW k \in 1..n
      PROVE  m[k] \in Seq(S) /\ m[k] = BlockAt(D, q + k)
  <2> DEFINE x == (k - 1) * BlockBytes
             v == k * BlockBytes
             s == SubSeq(bytes, x + 1, v)
  <2>1. x \in Nat /\ v = x + BlockBytes /\ x \in 0..w /\ v \in x..w
    <3>1. n * BlockBytes <= w
      BY <1>5
    <3> QED
      BY <1>1, <1>4, <3>1, PlaceArith
  <2>2. m[k] = s
    OBVIOUS
  <2>3. a + x = ((q + k) - 1) * BlockBytes
    <3>1. ((q + k) - 1) * BlockBytes = q * BlockBytes + (k - 1) * BlockBytes
      BY <1>1, <1>4, SMTT(40)
    <3> QED
      BY <1>1, <3>1
  <2> HIDE DEF x, v, s, m
  <2>4. x \in 0..(z - a) /\ v \in x..(z - a)
    BY <1>3, <2>1
  <2>5. Part(s, S, D, a + x, a + v)
    BY <1>1, <1>2, <2>4, PartOfPart DEF s
  <2>6. s \in Seq(S) /\ Len(s) = BlockBytes /\ \A j \in 1..BlockBytes : s[j] = D[(a + x) + j]
    <3>1. (a + v) - (a + x) = BlockBytes
      BY <1>1, <2>1
    <3> QED
      BY <2>5, <3>1 DEF Part
  <2>7. s = [j \in 1..BlockBytes |-> s[j]]
    BY <2>6, LenProperties
  <2>8. s = BlockAt(D, q + k)
    <3>1. \A j \in 1..BlockBytes : s[j] = D[((q + k) - 1) * BlockBytes + j]
      BY <2>3, <2>6, Zenon
    <3> QED
      BY <2>7, <3>1, Zenon DEF BlockAt
  <2> QED
    BY <2>2, <2>6, <2>8
<1>7. m \in Seq(Seq(S)) /\ Len(m) = n
  <2>1. DOMAIN m = 1..n /\ m = [k \in 1..n |-> m[k]]
    OBVIOUS
  <2> HIDE DEF m
  <2>2. m \in [1..n -> Seq(S)]
    BY <1>6, <2>1
  <2> QED
    BY <1>4, <2>2, LenProperties, SMTT(30)
<1>8. Part(rest, S, D, (q + n) * BlockBytes, z)
  <2> DEFINE x == n * BlockBytes
  <2>1. x \in 0..(z - a) /\ w \in x..(z - a) /\ a + w = z /\ a + x = (q + n) * BlockBytes
    BY <1>3, <1>4, <1>5
  <2> HIDE DEF x
  <2>2. Part(SubSeq(bytes, x + 1, w), S, D, a + x, a + w)
    BY <1>1, <1>2, <2>1, PartOfPart
  <2> QED
    BY <1>2, <2>1, <2>2 DEF x
<1>9. BlocksGrow(i, FullBlocks(D, q), n, bytes, FullBlocks(D, q) \o m, y)
  BY DEF BlocksGrow
<1>10. FullBlocks(D, q) \o m = FullBlocks(D, q + n)
  <2> HIDE DEF m
  <2>1. n \in Nat /\ (q + n) * BlockBytes <= Len(D) /\ m \in Seq(Seq(S)) /\ Len(m) = n
        /\ \A k \in 1..n : m[k] = BlockAt(D, q + k)
    BY <1>4, <1>5, <1>6, <1>7
  <2> QED
    BY <2>1, FullBlocksConcat, ZenonT(60)
<1>11. Waits(y, D, z)
  <2>1. Len(rest) = r /\ \A k \in 1..r : rest[k] = D[(q + n) * BlockBytes + k]
    <3> HIDE DEF rest
    <3> QED
      BY <1>5, <1>8 DEF Part
  <2> HIDE DEF rest, in
  <2>2. y = [k \in 1..BlockBytes |-> y[k]]
        /\ \A k \in 1..BlockBytes : y[k] = IF k > 0 /\ k <= 0 + Len(rest) THEN rest[k - 0] ELSE in[k]
    BY CopiedIs
  <2> HIDE DEF y
  <2>3. ASSUME NEW k \in 1..r PROVE y[k] = D[(q + n) * BlockBytes + k]
    <3>1. k \in 1..BlockBytes /\ k > 0 /\ k <= 0 + r /\ k - 0 = k
      BY <1>1, <1>4, SMTT(30)
    <3> QED
      BY <2>1, <2>2, <3>1
  <2> QED
    BY <1>4, <2>2, <2>3 DEF Waits
<1>12. WholeBlocks(Context(l, h, i, FullBlocks(D, q)), bytes) = Context(l, h, y, FullBlocks(D, q) \o m)
  <2>1. n = Len(bytes) \div BlockBytes
    BY <1>2, <1>3
  <2> HIDE DEF m, y
  <2> QED
    BY <1>9, <2>1, WholeBlocksIs
<1> HIDE DEF y, m
<1>13. WholeBlocks(Context(l, h, i, FullBlocks(D, q)), bytes)
         = Context(l, h, y, FullBlocks(D, z \div BlockBytes))
  BY <1>4, <1>10, <1>12
<1> QED
  BY <1>11, <1>13, Zenon DEF Holds

LEMMA ContextBegins ==
  ASSUME NEW D
  PROVE  ContextOf(MD5Init, D, 0)
<1> DEFINE i == Zeros(BlockBytes)
<1>1. BlockBytes \in Nat \ {0} /\ WordMod \in Nat \ {0} /\ 0 \in Nat
  BY Md5Assumption
<1>2. 0 \div BlockBytes = 0 /\ 0 % BlockBytes = 0 /\ 0 \div WordMod = 0 /\ 0 % WordMod = 0
  <2>1. 0 = 0 * BlockBytes + 0 /\ 0 \in 0..(BlockBytes - 1) /\ 0 = 0 * WordMod + 0
        /\ 0 \in 0..(WordMod - 1) /\ 0 \in Int
    BY <1>1
  <2> QED
    BY <1>1, <2>1, OnlyWholeAndRest
<1>3. 8 * 0 = 0
  OBVIOUS
<1>4. FullBlocks(D, 0) = <<>>
  BY DEF FullBlocks
<1>5. i = [k \in 1..BlockBytes |-> i[k]]
  BY DEF Zeros
<1>6. MD5Init = Context(0, 0, i, <<>>)
  BY DEF MD5Init, Context
<1> HIDE DEF i
<1>7. Waits(i, D, 0)
  <2>1. \A k \in 1..(0 % BlockBytes) : FALSE
    BY <1>2
  <2> QED
    BY <1>5, <2>1, Zenon DEF Waits
<1>8. MD5Init = Context((8 * 0) % WordMod, (8 * 0) \div WordMod, i, FullBlocks(D, 0 \div BlockBytes))
  BY <1>2, <1>3, <1>4, <1>6
<1> QED
  BY <1>7, <1>8, Zenon DEF ContextOf, Holds

----------------------------------------------------------------------------
(* Bytes more: the count and the block that waits.                        *)

CountAt(n, l, h) == l = (8 * n) % WordMod /\ h = (8 * n) \div WordMod

LEMMA CountKeeps ==
  ASSUME NEW n \in Nat, NEW z \in Nat, n <= z, NEW i, NEW b, NEW l, NEW h, NEW x, NEW y,
         CountAt(n, l, h), CountAt(z, x, y)
  PROVE  Counted(Context(l, h, i, b), z - n) = Context(x, y, i, b)
<1> DEFINE m == z - n
<1>a. l = (8 * n) % WordMod /\ h = (8 * n) \div WordMod
      /\ x = (8 * z) % WordMod /\ y = (8 * z) \div WordMod
  BY DEF CountAt
<1>1. 8 * n \in Nat /\ 8 * m \in Nat /\ 8 * n + 8 * m = 8 * z
  OBVIOUS
<1>2. /\ (l + 8 * m) % WordMod = (8 * n + 8 * m) % WordMod
      /\ h + (IF (l + 8 * m) % WordMod < l THEN 1 ELSE 0) + (8 * m) \div WordMod
           = (8 * n + 8 * m) \div WordMod
  <2> HIDE DEF m
  <2> QED
    BY <1>a, <1>1, WordsCountOn, Zenon
<1>3. CountGrows(l, h, m, x, y)
  BY <1>a, <1>1, <1>2, Zenon DEF CountGrows
<1> HIDE DEF m
<1>4. Counted(Context(l, h, i, b), m) = Context(x, y, i, b)
  BY <1>3, CountedIs
<1> QED
  BY <1>4 DEF m

Waiting(i, D, e, t) == \A k \in 1..t : i[k] = D[e + k]

LEMMA FillsBlock ==
  ASSUME NEW S, NEW D, NEW d \in Nat, NEW t \in 0..(BlockBytes - 1), NEW n, n = d * BlockBytes + t,
         NEW s, Part(s, S, D, n, n + (BlockBytes - t)), NEW i,
         Waiting(i, D, d * BlockBytes, t)
  PROVE  Copied(i, t, s) = BlockAt(D, d + 1)
<1> DEFINE B == BlockBytes
           e == d * B
           c == Copied(i, t, s)
<1>1. B \in Nat \ {0} /\ e \in Nat /\ n = e + t /\ ((d + 1) - 1) * B = e
  <2>1. (d + 1) - 1 = d
    OBVIOUS
  <2> QED
    BY <2>1, Md5Assumption
<1>2. c = [k \in 1..B |-> c[k]]
      /\ \A k \in 1..B : c[k] = IF k > t /\ k <= t + Len(s) THEN s[k - t] ELSE i[k]
  BY CopiedIs
<1>3. Part(s, S, D, n, n + (B - t)) /\ \A k \in 1..t : i[k] = D[e + k]
  BY DEF Waiting
<1> HIDE DEF B, e, c
<1>4. t \in 0..(B - 1)
  BY DEF B
<1>5. Len(s) = B - t /\ \A k \in 1..(B - t) : s[k] = D[n + k]
  <2>1. (n + (B - t)) - n = B - t
    BY <1>1, <1>4
  <2> QED
    BY <1>3, <2>1 DEF Part
<1>6. ASSUME NEW k \in 1..B PROVE c[k] = D[e + k]
  <2>1. CASE k > t
    <3>1. k <= t + Len(s) /\ k - t \in 1..(B - t) /\ n + (k - t) = e + k
      BY <1>1, <1>4, <1>5, <2>1, SMTT(40)
    <3> QED
      BY <1>2, <1>5, <2>1, <3>1
  <2>2. CASE ~(k > t)
    <3>1. k \in 1..t
      BY <1>4, <2>2
    <3> QED
      BY <1>2, <1>3, <2>2, <3>1
  <2> QED
    BY <2>1, <2>2
<1>7. c = [k \in 1..B |-> D[((d + 1) - 1) * B + k]]
  BY <1>1, <1>2, <1>6, Zenon
<1> QED
  BY <1>7, Zenon DEF BlockAt, B, c

\* What MD5Update does to a context in which t bytes wait.
Updated(u, bytes, t, room, l, h, i, b) ==
  /\ t = 0 => u = WholeBlocks(Context(l, h, i, b), bytes)
  /\ t # 0 /\ Len(bytes) < room => u = Context(l, h, Copied(i, t, bytes), b)
  /\ t # 0 /\ ~(Len(bytes) < room) =>
       u = WholeBlocks(MD5Transform(Context(l, h, Copied(i, t, SubSeq(bytes, 1, room)), b)),
                       SubSeq(bytes, room + 1, Len(bytes)))

LEMMA UpdateIs ==
  ASSUME NEW c, NEW bytes, NEW t, t = (c.low \div 8) % BlockBytes, NEW room, room = BlockBytes - t,
         NEW l, NEW h, NEW i, NEW b, Counted(c, Len(bytes)) = Context(l, h, i, b)
  PROVE  Updated(MD5Update(c, bytes), bytes, t, room, l, h, i, b)
<1> DEFINE r == Context(l, h, i, b)
           x == Copied(i, t, bytes)
           y == Copied(i, t, SubSeq(bytes, 1, room))
           rest == SubSeq(bytes, room + 1, Len(bytes))
<1>1. r.in = i /\ [r EXCEPT !.in = x] = Context(l, h, x, b) /\ [r EXCEPT !.in = y] = Context(l, h, y, b)
  <2> HIDE DEF x, y
  <2> QED
    BY DEF Context
<1> HIDE DEF r
<1>2. MD5Update(c, bytes) =
        IF t = 0 THEN WholeBlocks(r, bytes)
        ELSE IF Len(bytes) < room THEN [r EXCEPT !.in = x]
        ELSE WholeBlocks(MD5Transform([r EXCEPT !.in = y]), rest)
  <2>1. Counted(c, Len(bytes)) = r
    BY DEF r
  <2> QED
    BY <1>1, <2>1, Zenon DEF MD5Update
<1> HIDE DEF x, y, rest
<1>3. MD5Update(c, bytes) =
        IF t = 0 THEN WholeBlocks(r, bytes)
        ELSE IF Len(bytes) < room THEN Context(l, h, x, b)
        ELSE WholeBlocks(MD5Transform(Context(l, h, y, b)), rest)
  BY <1>1, <1>2
<1> QED
  BY <1>3, Zenon DEF r, x, y, rest, Updated

LEMMA UpdateKeeps ==
  ASSUME NEW S, NEW D \in Seq(S), NEW n \in Nat, NEW z \in Nat, n <= z, z <= Len(D),
         NEW bytes, Part(bytes, S, D, n, z), NEW c, ContextOf(c, D, n)
  PROVE  ContextOf(MD5Update(c, bytes), D, z)
<1> DEFINE d == n \div BlockBytes
           t == n % BlockBytes
           l == (8 * z) % WordMod
           h == (8 * z) \div WordMod
           room == BlockBytes - t
           b == FullBlocks(D, d)
           u == MD5Update(c, bytes)
<1>1. BlockBytes \in Nat \ {0} /\ d \in Nat /\ t \in 0..(BlockBytes - 1) /\ n = d * BlockBytes + t
      /\ d + 1 \in Nat /\ (d + 1) * BlockBytes = d * BlockBytes + BlockBytes
      /\ d * BlockBytes \in Nat
  <2>1. BlockBytes \in Nat \ {0}
    BY Md5Assumption
  <2>2. d \in Nat /\ t \in 0..(BlockBytes - 1) /\ n = d * BlockBytes + t
    BY <2>1, WholeAndRest
  <2> HIDE DEF d, t
  <2> QED
    BY <2>1, <2>2
<1> DEFINE ln == (8 * n) % WordMod
           hn == (8 * n) \div WordMod
<1>2. PICK i : Waits(i, D, n) /\ c = Context(ln, hn, i, b)
  BY Zenon DEF ContextOf, Holds
<1>3. Len(bytes) = z - n /\ bytes \in Seq(S) /\ Len(bytes) \in Nat
      /\ \A k \in 1..(z - n) : bytes[k] = D[n + k]
  BY LenProperties DEF Part
<1>4. i = [k \in 1..BlockBytes |-> i[k]] /\ \A k \in 1..t : i[k] = D[d * BlockBytes + k]
  BY <1>2, Zenon DEF Waits
<1>5. t = (c.low \div 8) % BlockBytes
  <2>1. c.low = ln
    <3> HIDE DEF ln, hn, b
    <3> QED
      BY <1>2, ContextFields
  <2> QED
    BY <2>1, LowWordTells, Zenon
<1>6. Counted(c, Len(bytes)) = Context(l, h, i, b)
  <2>1. Counted(Context(ln, hn, i, b), z - n) = Context(l, h, i, b)
    <3>1. CountAt(n, ln, hn) /\ CountAt(z, l, h)
      BY Zenon DEF CountAt
    <3> HIDE DEF ln, hn, b, l, h
    <3> QED
      BY <3>1, CountKeeps
  <2> HIDE DEF ln, hn, b, l, h
  <2> QED
    BY <1>2, <1>3, <2>1
<1>7. room = BlockBytes - t
  OBVIOUS
<1> HIDE DEF d, t, l, h, b, ln, hn, room
<1>11. Updated(u, bytes, t, room, l, h, i, b)
  BY <1>5, <1>6, <1>7, UpdateIs
<1> HIDE DEF u
<1> SUFFICES Holds(u, D, z, l, h)
  BY Zenon DEF ContextOf, u, l, h
<1>8. CASE t = 0
  <2>1. n = d * BlockBytes /\ d * BlockBytes <= z
    BY <1>1, <1>8
  <2>2. Part(bytes, S, D, d * BlockBytes, z)
    BY <2>1, Zenon
  <2>3. Holds(WholeBlocks(Context(l, h, i, FullBlocks(D, d)), bytes), D, z, l, h)
    BY <1>1, <1>4, <2>1, <2>2, WholeBlocksOn
  <2>4. u = WholeBlocks(Context(l, h, i, FullBlocks(D, d)), bytes)
    BY <1>8, <1>11, Zenon DEF b, Updated
  <2> QED
    BY <2>3, <2>4, Zenon
<1>9. CASE t # 0 /\ Len(bytes) < room
  <2> DEFINE y == Copied(i, t, bytes)
             m == z - n
  <2>1. m \in Nat /\ t + m \in 0..(BlockBytes - 1) /\ z = d * BlockBytes + (t + m)
    <3> DEFINE e == d * BlockBytes
    <3>1. /\ BlockBytes \in Nat /\ t \in 0..(BlockBytes - 1) /\ e \in Nat /\ n = e + t
          /\ m \in Nat /\ m < BlockBytes - t /\ m = z - n
      BY <1>1, <1>3, <1>7, <1>9
    <3> HIDE DEF e, m
    <3>2. m \in Nat /\ t + m \in 0..(BlockBytes - 1) /\ z = e + (t + m)
      BY <3>1
    <3> QED
      BY <3>2 DEF e
  <2>2. z \div BlockBytes = d /\ z % BlockBytes = t + m
    <3> HIDE DEF m
    <3>1. BlockBytes \in Nat \ {0} /\ z \in Nat /\ d \in Int /\ t + m \in 0..(BlockBytes - 1)
          /\ z = d * BlockBytes + (t + m)
      BY <1>1, <2>1
    <3> QED
      BY <3>1, OnlyWholeAndRest, Zenon
  <2>3. y = [k \in 1..BlockBytes |-> y[k]]
        /\ \A k \in 1..BlockBytes : y[k] = IF k > t /\ k <= t + Len(bytes) THEN bytes[k - t] ELSE i[k]
    BY CopiedIs
  <2> HIDE DEF y
  <2>4. ASSUME NEW k \in 1..(t + m) PROVE y[k] = D[d * BlockBytes + k]
    <3>1. k \in 1..BlockBytes
      BY <1>1, <2>1
    <3>2. CASE k > t
      <4>1. k <= t + Len(bytes) /\ k - t \in 1..(z - n) /\ n + (k - t) = d * BlockBytes + k
        BY <1>1, <1>3, <2>1, <3>2
      <4> QED
        BY <1>3, <2>3, <3>1, <3>2, <4>1
    <3>3. CASE ~(k > t)
      <4>1. k \in 1..t
        BY <1>1, <3>3
      <4> QED
        BY <1>4, <2>3, <3>1, <3>3, <4>1
    <3> QED
      BY <3>2, <3>3
  <2>5. Waits(y, D, z)
    BY <2>2, <2>3, <2>4, Zenon DEF Waits
  <2>6. u = Context(l, h, y, FullBlocks(D, z \div BlockBytes))
    BY <1>9, <1>11, <2>2, Zenon DEF b, y, Updated
  <2> QED
    BY <2>5, <2>6, Zenon DEF Holds
<1>10. CASE t # 0 /\ ~(Len(bytes) < room)
  <2> DEFINE x == Copied(i, t, SubSeq(bytes, 1, room))
             rest == SubSeq(bytes, room + 1, Len(bytes))
  <2>1. room \in 0..(z - n) /\ n + room = (d + 1) * BlockBytes /\ (d + 1) * BlockBytes <= z
        /\ (d + 1) * BlockBytes <= Len(D) /\ n + 0 = n /\ n + (z - n) = z /\ 0 + 1 = 1
        /\ 0 \in 0..(z - n) /\ z - n \in room..(z - n) /\ room \in 0..(z - n)
    BY <1>1, <1>3, <1>7, <1>10, LenProperties
  <2>2. Part(SubSeq(bytes, 1, room), S, D, n, n + room)
    <3>1. Part(SubSeq(bytes, 0 + 1, room), S, D, n + 0, n + room)
      BY <2>1, PartOfPart
    <3> QED
      BY <2>1, <3>1, Zenon
  <2>3. Part(rest, S, D, (d + 1) * BlockBytes, z)
    <3>1. Part(SubSeq(bytes, room + 1, z - n), S, D, n + room, n + (z - n))
      BY <2>1, PartOfPart
    <3> QED
      BY <1>3, <2>1, <3>1, Zenon
  <2>4. x = BlockAt(D, d + 1)
    <3> DEFINE s == SubSeq(bytes, 1, room)
    <3>1. Part(s, S, D, n, n + (BlockBytes - t)) /\ n = d * BlockBytes + t
          /\ d \in Nat /\ t \in 0..(BlockBytes - 1) /\ Waiting(i, D, d * BlockBytes, t)
      BY <1>1, <1>4, <1>7, <2>2 DEF Waiting
    <3> HIDE DEF s
    <3>2. Copied(i, t, s) = BlockAt(D, d + 1)
      BY <3>1, FillsBlock
    <3> QED
      BY <3>2, Zenon DEF s
  <2>5. MD5Transform(Context(l, h, x, b)) = Context(l, h, x, FullBlocks(D, d + 1))
    <3> HIDE DEF x
    <3>1. MD5Transform(Context(l, h, x, b)) = Context(l, h, x, Append(b, x))
      BY TransformIs, Zenon
    <3>2. Append(b, x) = FullBlocks(D, d + 1)
      BY <1>1, <2>1, <2>4, FullBlocksAppend DEF b
    <3> QED
      BY <3>1, <3>2, Zenon
  <2>6. x = [k \in 1..BlockBytes |-> x[k]]
    BY CopiedIs, Zenon
  <2> HIDE DEF x, rest
  <2>7. Holds(WholeBlocks(Context(l, h, x, FullBlocks(D, d + 1)), rest), D, z, l, h)
    BY <1>1, <2>1, <2>3, <2>6, WholeBlocksOn
  <2>8. u = WholeBlocks(Context(l, h, x, FullBlocks(D, d + 1)), rest)
    BY <1>10, <1>11, <2>5, Zenon DEF x, rest, Updated
  <2> QED
    BY <2>7, <2>8, Zenon
<1> QED
  BY <1>8, <1>9, <1>10

----------------------------------------------------------------------------
(* The end of a message, in one block or in two.                          *)

CountWords(l, h) == [k \in 1..LengthBytes |-> IF k <= LengthBytes \div 2 THEN Low(l) ELSE High(h)]

\* What MD5Final makes of a context in which t bytes wait: two blocks more, or one.
Finished(f, t, room, l, h, i, b) ==
  LET M == Copied(i, t, <<Mark>>)
      A == Copied(M, t + 1, Zeros(room))
      ending(x) == Copied(x, BlockBytes - LengthBytes, CountWords(l, h))
  IN  /\ NoRoom(room) =>
           f = Append(Append(b, A), ending(Copied(A, 0, Zeros(BlockBytes - LengthBytes))))
      /\ ~NoRoom(room) => f = Append(b, ending(Copied(M, t + 1, Zeros(room - LengthBytes))))

Marked(c, t) == [c EXCEPT !.in = Copied(c.in, t, <<Mark>>)]
Filled(m, t, room) == MD5Transform([m EXCEPT !.in = Copied(m.in, t + 1, Zeros(room))])
Emptied(f) == [f EXCEPT !.in = Copied(f.in, 0, Zeros(BlockBytes - LengthBytes))]
Spaced(m, t, room) == [m EXCEPT !.in = Copied(m.in, t + 1, Zeros(room - LengthBytes))]
Ended(p, l, h) ==
  MD5Transform([p EXCEPT !.in = Copied(p.in, BlockBytes - LengthBytes, CountWords(l, h))]).blocks
Padded(m, t, room) ==
  IF NoRoom(room) THEN Emptied(Filled(m, t, room)) ELSE Spaced(m, t, room)

\* The bytes that wait, and those there are room for.
TailAt(l, t, room) == t = (l \div 8) % BlockBytes /\ room = BlockBytes - 1 - t

LEMMA FinalSteps ==
  ASSUME NEW c, NEW t, t = (c.low \div 8) % BlockBytes, NEW room, room = BlockBytes - 1 - t
  PROVE  MD5Final(c) = Ended(Padded(Marked(c, t), t, room), c.low, c.high)
<1>1. MD5Final(c) = Ended(Padded(Marked(c, (c.low \div 8) % BlockBytes),
                                 (c.low \div 8) % BlockBytes,
                                 BlockBytes - 1 - ((c.low \div 8) % BlockBytes)),
                          c.low, c.high)
  BY Zenon DEF MD5Final, Ended, Padded, Marked, Filled, Emptied, Spaced, CountWords
<1> QED
  BY <1>1, Zenon

Fields(l, h, i, b, t, room) ==
  /\ Marked(Context(l, h, i, b), t) = Context(l, h, Copied(i, t, <<Mark>>), b)
  /\ Filled(Context(l, h, i, b), t, room)
       = Context(l, h, Copied(i, t + 1, Zeros(room)), Append(b, Copied(i, t + 1, Zeros(room))))
  /\ Emptied(Context(l, h, i, b)) = Context(l, h, Copied(i, 0, Zeros(BlockBytes - LengthBytes)), b)
  /\ Spaced(Context(l, h, i, b), t, room)
       = Context(l, h, Copied(i, t + 1, Zeros(room - LengthBytes)), b)
  /\ Ended(Context(l, h, i, b), l, h) = Append(b, Copied(i, BlockBytes - LengthBytes, CountWords(l, h)))

LEMMA FinalFields ==
  ASSUME NEW l, NEW h, NEW i, NEW b, NEW t, NEW room
  PROVE  Fields(l, h, i, b, t, room)
<1> DEFINE c == Context(l, h, i, b)
           x == Copied(i, t, <<Mark>>)
           A == Copied(i, t + 1, Zeros(room))
           y == Copied(i, 0, Zeros(BlockBytes - LengthBytes))
           z == Copied(i, t + 1, Zeros(room - LengthBytes))
           w == Copied(i, BlockBytes - LengthBytes, CountWords(l, h))
<1>1. c.in = i
  BY ContextFields
<1>2. /\ Marked(c, t) = [c EXCEPT !.in = x]
      /\ Filled(c, t, room) = MD5Transform([c EXCEPT !.in = A])
      /\ Emptied(c) = [c EXCEPT !.in = y]
      /\ Spaced(c, t, room) = [c EXCEPT !.in = z]
      /\ Ended(c, l, h) = MD5Transform([c EXCEPT !.in = w]).blocks
  <2> HIDE DEF c
  <2> QED
    BY <1>1, Zenon DEF Marked, Filled, Emptied, Spaced, Ended
<1> HIDE DEF x, A, y, z, w
<1>3. /\ [c EXCEPT !.in = x] = Context(l, h, x, b) /\ [c EXCEPT !.in = A] = Context(l, h, A, b)
      /\ [c EXCEPT !.in = y] = Context(l, h, y, b) /\ [c EXCEPT !.in = z] = Context(l, h, z, b)
      /\ [c EXCEPT !.in = w] = Context(l, h, w, b)
  BY DEF Context
<1> HIDE DEF c
<1>4. Marked(c, t) = Context(l, h, x, b) /\ Emptied(c) = Context(l, h, y, b)
      /\ Spaced(c, t, room) = Context(l, h, z, b)
      /\ Filled(c, t, room) = MD5Transform(Context(l, h, A, b))
      /\ Ended(c, l, h) = MD5Transform(Context(l, h, w, b)).blocks
  BY <1>2, <1>3
<1>5. MD5Transform(Context(l, h, A, b)) = Context(l, h, A, Append(b, A))
      /\ MD5Transform(Context(l, h, w, b)).blocks = Append(b, w)
  <2>1. MD5Transform(Context(l, h, w, b)) = Context(l, h, w, Append(b, w))
    BY TransformIs
  <2>2. Context(l, h, w, Append(b, w)).blocks = Append(b, w)
    <3> DEFINE x1 == Append(b, w)
    <3> HIDE DEF x1
    <3>1. Context(l, h, w, x1).blocks = x1
      BY ContextFields
    <3> QED
      BY <3>1 DEF x1
  <2> QED
    BY <2>1, <2>2, TransformIs
<1> QED
  BY <1>4, <1>5, Zenon DEF c, x, A, y, z, w, Fields

LEMMA FinalEnds ==
  ASSUME NEW l, NEW h, NEW i, NEW b, NEW t, NEW room
  PROVE  Finished(Ended(Padded(Marked(Context(l, h, i, b), t), t, room), l, h), t, room, l, h, i, b)
<1> DEFINE c == Context(l, h, i, b)
           M == Copied(i, t, <<Mark>>)
           A == Copied(M, t + 1, Zeros(room))
           Z == Copied(A, 0, Zeros(BlockBytes - LengthBytes))
           Y == Copied(M, t + 1, Zeros(room - LengthBytes))
           V == Copied(Z, BlockBytes - LengthBytes, CountWords(l, h))
           U == Copied(Y, BlockBytes - LengthBytes, CountWords(l, h))
           x == Append(b, A)
<1>1. Marked(c, t) = Context(l, h, M, b)
  <2>1. Fields(l, h, i, b, t, room)
    BY FinalFields
  <2> QED
    BY <2>1, Zenon DEF Fields
<1>2. Filled(Context(l, h, M, b), t, room) = Context(l, h, A, x)
  <2> HIDE DEF M
  <2>1. Fields(l, h, M, b, t, room)
    BY FinalFields
  <2> QED
    BY <2>1, Zenon DEF Fields
<1>3. Emptied(Context(l, h, A, x)) = Context(l, h, Z, x)
  <2> HIDE DEF A, x
  <2>1. Fields(l, h, A, x, t, room)
    BY FinalFields
  <2> QED
    BY <2>1, Zenon DEF Fields
<1>4. Spaced(Context(l, h, M, b), t, room) = Context(l, h, Y, b)
  <2> HIDE DEF M
  <2>1. Fields(l, h, M, b, t, room)
    BY FinalFields
  <2> QED
    BY <2>1, Zenon DEF Fields
<1>5. /\ Ended(Context(l, h, Z, x), l, h) = Append(x, V)
      /\ Ended(Context(l, h, Y, b), l, h) = Append(b, U)
  <2> HIDE DEF Z, Y, x
  <2>1. Fields(l, h, Z, x, t, room) /\ Fields(l, h, Y, b, t, room)
    BY FinalFields
  <2> QED
    BY <2>1, Zenon DEF Fields
<1> DEFINE f == Ended(Padded(Marked(c, t), t, room), l, h)
<1>6. NoRoom(room) => f = Append(x, V)
  <2> HIDE DEF c, x, A, V, Z, Y, M
  <2> QED
    BY <1>1, <1>2, <1>3, <1>5 DEF Padded
<1>7. ~NoRoom(room) => f = Append(b, U)
  <2> HIDE DEF c, x, A, U, V, Z, Y, M
  <2> QED
    BY <1>1, <1>4, <1>5 DEF Padded
<1> QED
  BY <1>6, <1>7, Zenon DEF Finished

LEMMA FinalIs ==
  ASSUME NEW l, NEW h, NEW i, NEW b, NEW t, NEW room, TailAt(l, t, room)
  PROVE  Finished(MD5Final(Context(l, h, i, b)), t, room, l, h, i, b)
<1> DEFINE c == Context(l, h, i, b)
<1>1. c.low = l /\ c.high = h
  BY ContextFields
<1> HIDE DEF c
<1>2. MD5Final(c) = Ended(Padded(Marked(c, t), t, room), l, h)
  BY <1>1, FinalSteps DEF TailAt
<1> QED
  BY <1>2, FinalEnds, Zenon DEF c

PadByte(D, n, q, k) ==
  IF k <= n THEN D[k]
  ELSE IF k = n + 1 THEN Mark
  ELSE IF k <= q * BlockBytes - LengthBytes THEN Zero
  ELSE IF k <= q * BlockBytes - LengthBytes \div 2 THEN Low((8 * n) % WordMod)
  ELSE High((8 * n) \div WordMod)

PadBlock(D, n, q, b) == [k \in 1..BlockBytes |-> PadByte(D, n, q, (b - 1) * BlockBytes + k)]

\* The length has two words of the same size.
LEMMA LengthWords ==
  /\ BlockBytes \in Nat \ {0} /\ LengthBytes \in 2..(BlockBytes - 1)
  /\ LengthBytes \div 2 \in 1..(LengthBytes - 1) /\ LengthBytes = 2 * (LengthBytes \div 2)
  /\ LengthBytes - LengthBytes \div 2 = LengthBytes \div 2
<1>1. BlockBytes \in Nat \ {0} /\ LengthBytes \in 2..(BlockBytes - 1) /\ LengthBytes % 2 = 0
  BY Md5Assumption
<1> DEFINE h == LengthBytes \div 2
<1>2. h \in Nat /\ LengthBytes = h * 2 + (LengthBytes % 2)
  BY <1>1, WholeAndRest
<1> HIDE DEF h
<1>3. h \in 1..(LengthBytes - 1) /\ LengthBytes = 2 * h /\ LengthBytes - h = h
  BY <1>1, <1>2
<1> QED
  BY <1>1, <1>3 DEF h

BlockCount(n, q) == q = (n + 1 + LengthBytes + BlockBytes - 1) \div BlockBytes

LEMMA BlocksAre ==
  ASSUME NEW D, NEW n \in Nat, n = Len(D), NEW q, BlockCount(n, q)
  PROVE  q \in Nat /\ Blocks(D) = [b \in 1..q |-> PadBlock(D, n, q, b)]
<1> USE DEF BlockCount
<1>1. q \in Nat
  <2>1. n + 1 + LengthBytes + BlockBytes - 1 \in Nat /\ BlockBytes \in Nat \ {0}
    BY LengthWords
  <2> QED
    BY <2>1, WholeAndRest
<1>2. (q * BlockBytes) \div BlockBytes = q
  <2> DEFINE p == q * BlockBytes
  <2>1. BlockBytes \in Nat \ {0} /\ p \in Nat /\ q \in Int /\ 0 \in 0..(BlockBytes - 1)
        /\ p = q * BlockBytes + 0
    BY <1>1, LengthWords
  <2> HIDE DEF p
  <2>2. p \div BlockBytes = q
    BY <2>1, OnlyWholeAndRest
  <2> QED
    BY <2>2 DEF p
<1>3. Blocks(D) = [b \in 1..((q * BlockBytes) \div BlockBytes) |-> PadBlock(D, n, q, b)]
  BY Zenon DEF Blocks, PadBlock, PadByte
<1> QED
  BY <1>1, <1>2, <1>3, Zenon

\* How many blocks there are: one after the whole ones, or two.
LEMMA HowMany ==
  ASSUME NEW n \in Nat, NEW d \in Nat, NEW t \in 0..(BlockBytes - 1), n = d * BlockBytes + t,
         NEW room, room = BlockBytes - 1 - t
  PROVE  (n + 1 + LengthBytes + BlockBytes - 1) \div BlockBytes
           = IF NoRoom(room) THEN d + 2 ELSE d + 1
<1> DEFINE x == n + 1 + LengthBytes + BlockBytes - 1
           e == d * BlockBytes
<1>1. /\ BlockBytes \in Nat \ {0} /\ LengthBytes \in 2..(BlockBytes - 1) /\ e \in Nat /\ n = e + t
      /\ (d + 2) * BlockBytes = e + 2 * BlockBytes /\ (d + 1) * BlockBytes = e + BlockBytes
      /\ x = n + LengthBytes + BlockBytes /\ x \in Nat
  BY LengthWords
<1> HIDE DEF x, e
<1>2. CASE NoRoom(room)
  <2> DEFINE r == t + LengthBytes - BlockBytes
             p == (d + 2) * BlockBytes
  <2>1. r \in 0..(BlockBytes - 1)
    BY <1>1, <1>2 DEF NoRoom
  <2>2. p = e + 2 * BlockBytes
    BY <1>1
  <2> HIDE DEF p
  <2>3. x = p + r
    BY <1>1, <2>2
  <2> HIDE DEF r
  <2>4. d + 2 \in Int /\ x = (d + 2) * BlockBytes + r
    BY <2>3 DEF p
  <2>5. x \div BlockBytes = d + 2
    BY <1>1, <2>1, <2>4, OnlyWholeAndRest, ZenonT(40)
  <2> QED
    BY <1>2, <2>5 DEF x
<1>3. CASE ~NoRoom(room)
  <2> DEFINE r == t + LengthBytes
             p == (d + 1) * BlockBytes
  <2>1. r \in 0..(BlockBytes - 1)
    BY <1>1, <1>3 DEF NoRoom
  <2>2. p = e + BlockBytes
    BY <1>1
  <2> HIDE DEF p
  <2>3. x = p + r
    BY <1>1, <2>2
  <2> HIDE DEF r
  <2>4. d + 1 \in Int /\ x = (d + 1) * BlockBytes + r
    BY <2>3 DEF p
  <2>5. x \div BlockBytes = d + 1
    BY <1>1, <2>1, <2>4, OnlyWholeAndRest, ZenonT(40)
  <2> QED
    BY <1>3, <2>5 DEF x
<1> QED
  BY <1>2, <1>3

\* The bytes of a block that is all there.
LEMMA FullIsPadded ==
  ASSUME NEW D, NEW n \in Nat, NEW d \in Nat, d * BlockBytes <= n, NEW q, NEW b \in 1..d
  PROVE  PadBlock(D, n, q, b) = BlockAt(D, b)
<1>1. ASSUME NEW k \in 1..BlockBytes
      PROVE  PadByte(D, n, q, (b - 1) * BlockBytes + k) = D[(b - 1) * BlockBytes + k]
  <2> DEFINE p == (b - 1) * BlockBytes + k
             e == d * BlockBytes
  <2>1. p \in 1..e /\ e \in Nat
    BY BlockPlaces, LengthWords
  <2>2. e <= n
    OBVIOUS
  <2> HIDE DEF p, e
  <2>3. p <= n
    BY <2>1, <2>2
  <2> QED
    BY <2>3, Zenon DEF PadByte, p
<1> QED
  BY <1>1, Zenon DEF PadBlock, BlockAt

LEMMA ZerosIs ==
  ASSUME NEW m \in Nat
  PROVE  Len(Zeros(m)) = m /\ \A k \in 1..m : Zeros(m)[k] = Zero
<1>1. Zeros(m) \in [1..m -> {Zero}]
  BY DEF Zeros
<1>2. Zeros(m) \in Seq({Zero}) /\ Len(Zeros(m)) = m
  BY <1>1, LenProperties
<1> QED
  BY <1>2 DEF Zeros

LEMMA WordsAre ==
  ASSUME NEW l, NEW h
  PROVE  /\ Len(CountWords(l, h)) = LengthBytes
         /\ \A k \in 1..LengthBytes :
              CountWords(l, h)[k] = IF k <= LengthBytes \div 2 THEN Low(l) ELSE High(h)
<1>1. CountWords(l, h) \in [1..LengthBytes -> {Low(l), High(h)}] /\ LengthBytes \in Nat
  BY LengthWords DEF CountWords
<1>2. CountWords(l, h) \in Seq({Low(l), High(h)}) /\ Len(CountWords(l, h)) = LengthBytes
  BY <1>1, LenProperties
<1> QED
  BY <1>2 DEF CountWords

\* The mark comes after the bytes, and zeros after the mark.
LEMMA MarkedIs ==
  ASSUME NEW i, NEW t \in 0..(BlockBytes - 1), NEW m \in Nat, NEW k \in 1..BlockBytes
  PROVE  Copied(Copied(i, t, <<Mark>>), t + 1, Zeros(m))[k]
           = IF k <= t THEN i[k]
             ELSE IF k = t + 1 THEN Mark
             ELSE IF k <= t + 1 + m THEN Zero ELSE i[k]
<1> DEFINE M == Copied(i, t, <<Mark>>)
           A == Copied(M, t + 1, Zeros(m))
<1>1. BlockBytes \in Nat
  BY LengthWords
<1>2. M[k] = IF k > t /\ k <= t + Len(<<Mark>>) THEN <<Mark>>[k - t] ELSE i[k]
  BY CopiedIs
<1>3. M[k] = IF k = t + 1 THEN Mark ELSE i[k]
  <2>1. Len(<<Mark>>) = 1 /\ <<Mark>>[1] = Mark
    OBVIOUS
  <2>2. k > t /\ k <= t + 1 <=> k = t + 1
    BY <1>1
  <2>3. k = t + 1 => k - t = 1
    BY <1>1
  <2> QED
    BY <1>2, <2>1, <2>2, <2>3, Zenon
<1> HIDE DEF M
<1>4. A[k] = IF k > t + 1 /\ k <= t + 1 + m THEN Zeros(m)[k - (t + 1)] ELSE M[k]
  <2>1. Len(Zeros(m)) = m
    BY ZerosIs
  <2> QED
    BY <2>1, CopiedIs
<1> HIDE DEF A
<1>5. k > t + 1 /\ k <= t + 1 + m => Zeros(m)[k - (t + 1)] = Zero
  <2>1. k > t + 1 /\ k <= t + 1 + m => k - (t + 1) \in 1..m
    BY <1>1
  <2> QED
    BY <2>1, ZerosIs
<1>6. A[k] = IF k <= t THEN i[k] ELSE IF k = t + 1 THEN Mark
             ELSE IF k <= t + 1 + m THEN Zero ELSE i[k]
  BY <1>1, <1>3, <1>4, <1>5
<1> QED
  BY <1>6 DEF A, M

\* The length comes last.
LEMMA EndedIs ==
  ASSUME NEW i, NEW l, NEW h, NEW k \in 1..BlockBytes
  PROVE  Copied(i, BlockBytes - LengthBytes, CountWords(l, h))[k]
           = IF k <= BlockBytes - LengthBytes THEN i[k]
             ELSE IF k <= BlockBytes - LengthBytes \div 2 THEN Low(l) ELSE High(h)
<1> DEFINE e == BlockBytes - LengthBytes
           w == CountWords(l, h)
           v == LengthBytes \div 2
<1>1. Len(w) = LengthBytes /\ \A j \in 1..LengthBytes : w[j] = IF j <= v THEN Low(l) ELSE High(h)
  BY WordsAre, Zenon
<1>2. /\ BlockBytes \in Nat \ {0} /\ LengthBytes \in 2..(BlockBytes - 1)
      /\ v \in 1..(LengthBytes - 1) /\ LengthBytes - v = v
  BY LengthWords
<1> HIDE DEF v, w
<1>3. Copied(i, e, w)[k] = IF k > e /\ k <= e + Len(w) THEN w[k - e] ELSE i[k]
  BY CopiedIs
<1>4. CASE k <= e
  BY <1>2, <1>3, <1>4 DEF w
<1>5. CASE ~(k <= e)
  <2>1. k > e /\ k <= e + LengthBytes /\ k - e \in 1..LengthBytes
        /\ (k - e <= v <=> k <= BlockBytes - v)
    BY <1>2, <1>5
  <2>2. Copied(i, e, w)[k] = w[k - e]
    BY <1>1, <1>3, <2>1
  <2> QED
    BY <1>1, <1>5, <2>1, <2>2 DEF v, w
<1> QED
  BY <1>4, <1>5 DEF w, v

LEMMA EmptiedIs ==
  ASSUME NEW i, NEW m \in Nat, NEW k \in 1..m, m <= BlockBytes
  PROVE  Copied(i, 0, Zeros(m))[k] = Zero
<1>1. k \in 1..BlockBytes /\ k > 0 /\ k <= 0 + m /\ k - 0 = k
  BY LengthWords
<1>2. Len(Zeros(m)) = m /\ Zeros(m)[k] = Zero
  BY ZerosIs
<1> QED
  BY <1>1, <1>2, CopiedIs

\* A message, how many whole blocks it has, and how many bytes are left.
Message(D, n, d, t) ==
  /\ n = Len(D) /\ n \in Nat /\ d \in Nat /\ t \in 0..(BlockBytes - 1) /\ n = d * BlockBytes + t

Rested(i, D, d, t) ==
  /\ i = [k \in 1..BlockBytes |-> i[k]]
  /\ \A k \in 1..t : i[k] = D[d * BlockBytes + k]

RoomAfter(t, room) == room = BlockBytes - 1 - t

\* The last block, when the length fits after the mark.
LEMMA OneBlock ==
  ASSUME NEW D, NEW n, NEW d, NEW t, Message(D, n, d, t), NEW i, Rested(i, D, d, t),
         NEW room, RoomAfter(t, room), ~NoRoom(room),
         NEW l, NEW h, CountAt(n, l, h)
  PROVE  Copied(Copied(Copied(i, t, <<Mark>>), t + 1, Zeros(room - LengthBytes)),
                BlockBytes - LengthBytes, CountWords(l, h))
           = PadBlock(D, n, d + 1, d + 1)
<1> DEFINE B == BlockBytes
           L == LengthBytes
           v == LengthBytes \div 2
           e == d * BlockBytes
           Y == Copied(Copied(i, t, <<Mark>>), t + 1, Zeros(room - LengthBytes))
           U == Copied(Y, BlockBytes - LengthBytes, CountWords(l, h))
<1>1. /\ B \in Nat \ {0} /\ L \in 2..(B - 1) /\ v \in 1..(L - 1) /\ n \in Nat /\ d \in Nat
      /\ t \in 0..(B - 1) /\ e \in Nat /\ n = e + t /\ (d + 1) * B = e + B /\ ((d + 1) - 1) * B = e
      /\ room - L \in Nat /\ t + 1 + (room - L) = B - L
  BY LengthWords DEF Message, NoRoom, RoomAfter
<1>2. ASSUME NEW k \in 1..B
      PROVE  U[k] = PadByte(D, n, d + 1, e + k)
  <2>1. Y[k] = IF k <= t THEN i[k] ELSE IF k = t + 1 THEN Mark
               ELSE IF k <= t + 1 + (room - L) THEN Zero ELSE i[k]
    <3> DEFINE m == room - LengthBytes
    <3>1. t \in 0..(BlockBytes - 1) /\ m \in Nat /\ k \in 1..BlockBytes
      BY <1>1
    <3> HIDE DEF m
    <3>2. Copied(Copied(i, t, <<Mark>>), t + 1, Zeros(m))[k]
            = IF k <= t THEN i[k] ELSE IF k = t + 1 THEN Mark
              ELSE IF k <= t + 1 + m THEN Zero ELSE i[k]
      BY <3>1, MarkedIs
    <3> QED
      BY <3>2 DEF m
  <2>2. U[k] = IF k <= B - L THEN Y[k] ELSE IF k <= B - v THEN Low(l) ELSE High(h)
    <3> HIDE DEF Y
    <3>1. k \in 1..BlockBytes
      OBVIOUS
    <3>2. Copied(Y, BlockBytes - LengthBytes, CountWords(l, h))[k]
            = IF k <= BlockBytes - LengthBytes THEN Y[k]
              ELSE IF k <= BlockBytes - LengthBytes \div 2 THEN Low(l) ELSE High(h)
      BY <3>1, EndedIs
    <3> QED
      BY <3>2
  <2>3. k <= t => i[k] = D[e + k]
    <3>1. k <= t => k \in 1..t
      BY <1>1
    <3> QED
      BY <3>1 DEF Rested
  <2>4. PadByte(D, n, d + 1, e + k)
          = IF e + k <= n THEN D[e + k] ELSE IF e + k = n + 1 THEN Mark
            ELSE IF e + k <= (d + 1) * B - L THEN Zero
            ELSE IF e + k <= (d + 1) * B - v THEN Low(l) ELSE High(h)
    BY Zenon DEF PadByte, CountAt
  <2> DEFINE x == D[e + k]
             u == U[k]
             y == Y[k]
             q == (d + 1) * B
             p == PadByte(D, n, d + 1, e + k)
  <2>5. q = e + B
    BY <1>1
  <2> HIDE DEF x, u, y, q, p, U, Y, e, v, B, L
  <2>6. /\ y = IF k <= t THEN x ELSE IF k = t + 1 THEN Mark
               ELSE IF k <= B - L THEN Zero ELSE i[k]
        /\ u = IF k <= B - L THEN y ELSE IF k <= B - v THEN Low(l) ELSE High(h)
        /\ p = IF e + k <= n THEN x ELSE IF e + k = n + 1 THEN Mark
               ELSE IF e + k <= q - L THEN Zero
               ELSE IF e + k <= q - v THEN Low(l) ELSE High(h)
    BY <1>1, <2>1, <2>2, <2>3, <2>4 DEF x, y, u, p, q
  <2>7. /\ (e + k <= n <=> k <= t) /\ (e + k = n + 1 <=> k = t + 1)
        /\ (e + k <= q - L <=> k <= B - L) /\ (e + k <= q - v <=> k <= B - v)
        /\ (k <= t => k <= B - L) /\ (k = t + 1 => k <= B - L)
    <3>1. k \in Int /\ e \in Int /\ q \in Int /\ B \in Int /\ L \in Int /\ v \in Int /\ t \in Int
          /\ n = e + t /\ q = e + B /\ t + 1 <= B - L
      BY <1>1, <2>5
    <3> QED
      BY <3>1
  <2>8. u = p
    BY <2>6, <2>7, Zenon
  <2> QED
    BY <2>8 DEF u, p
<1>3. U = [k \in 1..B |-> U[k]]
  <2> HIDE DEF Y
  <2> QED
    BY CopiedIs, Zenon
<1> HIDE DEF U
<1>4. U = PadBlock(D, n, d + 1, d + 1)
  <2>1. PadBlock(D, n, d + 1, d + 1) = [k \in 1..B |-> PadByte(D, n, d + 1, e + k)]
    BY <1>1, Zenon DEF PadBlock
  <2> QED
    BY <1>2, <1>3, <2>1, Zenon
<1> QED
  BY <1>4 DEF U, Y

\* The last block but one, when it does not: the mark, and zeros to its end.
LEMMA FirstOfTwo ==
  ASSUME NEW D, NEW n, NEW d, NEW t, Message(D, n, d, t), NEW i, Rested(i, D, d, t),
         NEW room, RoomAfter(t, room)
  PROVE  Copied(Copied(i, t, <<Mark>>), t + 1, Zeros(room)) = PadBlock(D, n, d + 2, d + 1)
<1> DEFINE B == BlockBytes
           L == LengthBytes
           e == d * BlockBytes
           A == Copied(Copied(i, t, <<Mark>>), t + 1, Zeros(room))
           q == (d + 2) * BlockBytes
<1>1. /\ B \in Nat \ {0} /\ L \in 2..(B - 1) /\ n \in Nat /\ d \in Nat
      /\ t \in 0..(B - 1) /\ e \in Nat /\ n = e + t /\ q = e + 2 * B /\ ((d + 1) - 1) * B = e
      /\ room \in Nat /\ t + 1 + room = B
  BY LengthWords DEF Message, RoomAfter
<1>2. ASSUME NEW k \in 1..B
      PROVE  A[k] = PadByte(D, n, d + 2, e + k)
  <2>1. A[k] = IF k <= t THEN i[k] ELSE IF k = t + 1 THEN Mark
               ELSE IF k <= t + 1 + room THEN Zero ELSE i[k]
    <3>1. t \in 0..(BlockBytes - 1) /\ room \in Nat /\ k \in 1..BlockBytes
      BY <1>1
    <3> QED
      BY <3>1, MarkedIs
  <2>2. k <= t => i[k] = D[e + k]
    <3>1. k <= t => k \in 1..t
      BY <1>1
    <3> QED
      BY <3>1 DEF Rested
  <2> DEFINE x == D[e + k]
             u == A[k]
             p == PadByte(D, n, d + 2, e + k)
             w == IF e + k <= q - LengthBytes \div 2 THEN Low((8 * n) % WordMod)
                  ELSE High((8 * n) \div WordMod)
  <2>3. p = IF e + k <= n THEN x ELSE IF e + k = n + 1 THEN Mark
            ELSE IF e + k <= q - L THEN Zero ELSE w
    BY Zenon DEF PadByte
  <2> HIDE DEF x, u, q, p, w, A, e, B, L
  <2>4. u = IF k <= t THEN x ELSE IF k = t + 1 THEN Mark ELSE Zero
    <3>1. k <= t + 1 + room
      BY <1>1
    <3> QED
      BY <2>1, <2>2, <3>1, Zenon DEF x, u
  <2>5. (e + k <= n <=> k <= t) /\ (e + k = n + 1 <=> k = t + 1) /\ e + k <= q - L
    <3>1. k \in 1..B /\ e \in Nat /\ q \in Int /\ B \in Nat /\ L \in 2..(B - 1) /\ t \in Nat
          /\ n = e + t /\ q = e + 2 * B
      BY <1>1
    <3> QED
      BY <3>1
  <2>6. u = p
    BY <2>3, <2>4, <2>5, Zenon
  <2> QED
    BY <2>6 DEF u, p
<1>3. A = [k \in 1..B |-> A[k]]
  BY CopiedIs, Zenon
<1> HIDE DEF A
<1>4. A = PadBlock(D, n, d + 2, d + 1)
  <2>1. PadBlock(D, n, d + 2, d + 1) = [k \in 1..B |-> PadByte(D, n, d + 2, e + k)]
    BY <1>1, Zenon DEF PadBlock
  <2> QED
    BY <1>2, <1>3, <2>1, Zenon
<1> QED
  BY <1>4 DEF A

\* The last block then has zeros, and the length.
LEMMA SecondOfTwo ==
  ASSUME NEW D, NEW n, NEW d, NEW t, Message(D, n, d, t), NEW a,
         NEW l, NEW h, CountAt(n, l, h)
  PROVE  Copied(Copied(a, 0, Zeros(BlockBytes - LengthBytes)), BlockBytes - LengthBytes, CountWords(l, h))
           = PadBlock(D, n, d + 2, d + 2)
<1> DEFINE B == BlockBytes
           L == LengthBytes
           v == LengthBytes \div 2
           e == d * BlockBytes
           f == e + B
           Y == Copied(a, 0, Zeros(BlockBytes - LengthBytes))
           U == Copied(Y, BlockBytes - LengthBytes, CountWords(l, h))
           q == (d + 2) * BlockBytes
<1>1. /\ B \in Nat \ {0} /\ L \in 2..(B - 1) /\ v \in 1..(L - 1) /\ n \in Nat /\ d \in Nat
      /\ t \in 0..(B - 1) /\ e \in Nat /\ n = e + t /\ q = e + 2 * B /\ ((d + 2) - 1) * B = f
  BY LengthWords DEF Message
<1>2. ASSUME NEW k \in 1..B
      PROVE  U[k] = PadByte(D, n, d + 2, f + k)
  <2>1. k <= B - L => Y[k] = Zero
    <3> DEFINE m == BlockBytes - LengthBytes
    <3>1. m \in Nat /\ m <= BlockBytes /\ (k <= m => k \in 1..m)
      BY <1>1
    <3> HIDE DEF m
    <3>2. k <= m => Copied(a, 0, Zeros(m))[k] = Zero
      BY <3>1, EmptiedIs
    <3> QED
      BY <3>2 DEF m
  <2>2. U[k] = IF k <= B - L THEN Y[k] ELSE IF k <= B - v THEN Low(l) ELSE High(h)
    <3> HIDE DEF Y
    <3>1. k \in 1..BlockBytes
      OBVIOUS
    <3>2. Copied(Y, BlockBytes - LengthBytes, CountWords(l, h))[k]
            = IF k <= BlockBytes - LengthBytes THEN Y[k]
              ELSE IF k <= BlockBytes - LengthBytes \div 2 THEN Low(l) ELSE High(h)
      BY <3>1, EndedIs
    <3> QED
      BY <3>2
  <2> DEFINE x == D[f + k]
             u == U[k]
             p == PadByte(D, n, d + 2, f + k)
  <2>3. p = IF f + k <= n THEN x ELSE IF f + k = n + 1 THEN Mark
            ELSE IF f + k <= q - L THEN Zero
            ELSE IF f + k <= q - v THEN Low(l) ELSE High(h)
    BY Zenon DEF PadByte, CountAt
  <2> HIDE DEF x, u, p, U, Y
  <2>4. u = IF k <= B - L THEN Zero ELSE IF k <= B - v THEN Low(l) ELSE High(h)
    BY <2>1, <2>2, Zenon DEF u
  <2> HIDE DEF q, e, B, L, v
  <2>5. /\ ~(f + k <= n) /\ f + k # n + 1
        /\ (f + k <= q - L <=> k <= B - L) /\ (f + k <= q - v <=> k <= B - v)
    <3>1. k \in 1..B /\ e \in Nat /\ q \in Int /\ B \in Nat /\ L \in Nat /\ v \in Nat /\ t \in 0..(B - 1)
          /\ n = e + t /\ q = e + 2 * B
      BY <1>1
    <3> QED
      BY <3>1
  <2>6. u = p
    <3> HIDE DEF f
    <3> QED
      BY <2>3, <2>4, <2>5, Zenon
  <2> QED
    BY <2>6 DEF u, p
<1>3. U = [k \in 1..B |-> U[k]]
  <2> HIDE DEF Y
  <2> QED
    BY CopiedIs, Zenon
<1> HIDE DEF U
<1>4. U = PadBlock(D, n, d + 2, d + 2)
  <2>1. PadBlock(D, n, d + 2, d + 2) = [k \in 1..B |-> PadByte(D, n, d + 2, f + k)]
    BY <1>1, Zenon DEF PadBlock
  <2> QED
    BY <1>2, <1>3, <2>1, Zenon
<1> QED
  BY <1>4 DEF U, Y

LEMMA AppendTable ==
  ASSUME NEW T, NEW d \in Nat, NEW f \in [1..d -> T], NEW x \in T, NEW g \in [1..(d + 1) -> T],
         \A b \in 1..d : g[b] = f[b], g[d + 1] = x
  PROVE  Append(f, x) = g
<1>1. f \in Seq(T) /\ Len(f) = d /\ g \in Seq(T) /\ Len(g) = d + 1 /\ d + 1 \in Nat
  BY LenProperties
<1>2. Append(f, x) \in Seq(T) /\ Len(Append(f, x)) = d + 1
      /\ (\A b \in 1..d : Append(f, x)[b] = f[b]) /\ Append(f, x)[d + 1] = x
  BY <1>1, AppendProperties
<1>3. \A b \in 1..(d + 1) : b \in 1..d \/ b = d + 1
  OBVIOUS
<1>4. \A b \in 1..(d + 1) : Append(f, x)[b] = g[b]
  BY <1>2, <1>3
<1> QED
  BY <1>1, <1>2, <1>4, SeqEqual

LEMMA FinalBlocks ==
  ASSUME NEW S, NEW D \in Seq(S), NEW n, n = Len(D), NEW c, ContextOf(c, D, n)
  PROVE  MD5Final(c) = Blocks(D)
<1> DEFINE d == n \div BlockBytes
           t == n % BlockBytes
           l == (8 * n) % WordMod
           h == (8 * n) \div WordMod
           room == BlockBytes - 1 - t
           q == (n + 1 + LengthBytes + BlockBytes - 1) \div BlockBytes
           b == FullBlocks(D, d)
           f == MD5Final(c)
<1>1. n \in Nat
  OBVIOUS
<1>2. Message(D, n, d, t) /\ d \in Nat
  <2>1. BlockBytes \in Nat \ {0}
    BY LengthWords
  <2>2. d \in Nat /\ t \in 0..(BlockBytes - 1) /\ n = d * BlockBytes + t
    BY <1>1, <2>1, WholeAndRest
  <2> HIDE DEF d, t
  <2> QED
    BY <1>1, <2>2 DEF Message
<1>3. PICK i : Waits(i, D, n) /\ c = Context(l, h, i, b)
  BY Zenon DEF ContextOf, Holds
<1>4. Rested(i, D, d, t)
  BY <1>3, Zenon DEF Waits, Rested
<1>5. TailAt(l, t, room)
  <2>1. t = (l \div 8) % BlockBytes
    BY <1>1, LowWordTells, Zenon
  <2> QED
    BY <2>1, Zenon DEF TailAt
<1>6. q = IF NoRoom(room) THEN d + 2 ELSE d + 1
  <2>1. t \in 0..(BlockBytes - 1) /\ n = d * BlockBytes + t
    BY <1>2, Zenon DEF Message
  <2> HIDE DEF d, t
  <2> QED
    BY <1>1, <1>2, <2>1, HowMany
<1>7. Blocks(D) = [k \in 1..q |-> PadBlock(D, n, q, k)]
  <2>1. BlockCount(n, q)
    BY DEF BlockCount
  <2> HIDE DEF q
  <2> QED
    BY <1>1, <2>1, BlocksAre
<1>8. CountAt(n, l, h) /\ RoomAfter(t, room)
  BY DEF CountAt, RoomAfter
<1>9. d * BlockBytes <= n
  <2>1. n = d * BlockBytes + t /\ t \in 0..(BlockBytes - 1) /\ d * BlockBytes \in Nat
    <3>1. n = d * BlockBytes + t /\ t \in 0..(BlockBytes - 1)
      BY <1>2, Zenon DEF Message
    <3> HIDE DEF d, t
    <3> QED
      BY <1>2, <3>1, LengthWords
  <2> HIDE DEF d, t
  <2> QED
    BY <2>1, LengthWords
<1> HIDE DEF d, t, l, h, q, room
<1>10. \A k \in 1..d : PadBlock(D, n, q, k) = BlockAt(D, k)
  BY <1>1, <1>2, <1>9, FullIsPadded
<1>11. b \in [1..d -> Seq(S)] /\ \A k \in 1..d : b[k] = BlockAt(D, k)
  <2>1. b \in Seq(Seq(S)) /\ Len(b) = d
    BY <1>1, <1>2, <1>9, FullBlocksType
  <2>2. b \in [1..d -> Seq(S)]
    BY <2>1, LenProperties
  <2> QED
    BY <2>2 DEF FullBlocks
<1> HIDE DEF b
<1>12. Finished(f, t, room, l, h, i, b)
  BY <1>3, <1>5, FinalIs
<1> HIDE DEF f
<1>13. CASE NoRoom(room)
  <2> DEFINE A == Copied(Copied(i, t, <<Mark>>), t + 1, Zeros(room))
             V == Copied(Copied(A, 0, Zeros(BlockBytes - LengthBytes)),
                         BlockBytes - LengthBytes, CountWords(l, h))
  <2>1. f = Append(Append(b, A), V)
    BY <1>12, <1>13, Zenon DEF Finished
  <2>2. A = PadBlock(D, n, q, d + 1)
    <3>1. A = PadBlock(D, n, d + 2, d + 1)
      BY <1>2, <1>4, <1>8, FirstOfTwo
    <3> QED
      BY <1>6, <1>13, <3>1, Zenon
  <2>3. V = PadBlock(D, n, q, d + 2)
    <3> HIDE DEF A
    <3>1. V = PadBlock(D, n, d + 2, d + 2)
      BY <1>2, <1>8, SecondOfTwo
    <3> QED
      BY <1>6, <1>13, <3>1, Zenon
  <2> HIDE DEF A, V
  <2> DEFINE T == Seq(S) \cup {A, V}
             g == [k \in 1..(d + 1) |-> IF k = d + 1 THEN A ELSE b[k]]
             w == [k \in 1..q |-> PadBlock(D, n, q, k)]
  <2>4. /\ q = d + 2 /\ d + 2 = (d + 1) + 1 /\ d + 1 \in Nat
        /\ \A k \in 1..d : k # d + 1
        /\ \A k \in 1..(d + 1) : k # (d + 1) + 1 /\ (k # d + 1 => k \in 1..d)
        /\ \A k \in 1..d : k \in 1..(d + 1)
        /\ d + 1 \in 1..(d + 1) /\ (d + 1) + 1 \in 1..((d + 1) + 1)
        /\ \A k \in 1..(d + 1) : k \in 1..((d + 1) + 1)
        /\ \A k \in 1..((d + 1) + 1) : k # (d + 1) + 1 => k \in 1..(d + 1)
    BY <1>2, <1>6, <1>13
  <2>5. g \in [1..(d + 1) -> T] /\ g[d + 1] = A /\ \A k \in 1..d : g[k] = b[k]
    <3>1. g[d + 1] = A /\ \A k \in 1..d : g[k] = b[k]
      <4>1. d + 1 \in 1..(d + 1) /\ \A k \in 1..d : k \in 1..(d + 1) /\ k # d + 1
        BY <1>2
      <4> HIDE DEF T
      <4> QED
        BY <4>1
    <3>2. DOMAIN g = 1..(d + 1) /\ g = [k \in 1..(d + 1) |-> g[k]]
      OBVIOUS
    <3> HIDE DEF g
    <3>3. ASSUME NEW k \in 1..(d + 1) PROVE g[k] \in T
      <4>1. CASE k = d + 1
        BY <3>1, <4>1
      <4>2. CASE k # d + 1
        <5>1. k \in 1..d
          BY <1>2, <4>2
        <5> QED
          BY <1>11, <3>1, <5>1
      <4> QED
        BY <4>1, <4>2
    <3> HIDE DEF T
    <3> QED
      BY <3>1, <3>2, <3>3
  <2>6. b \in [1..d -> T] /\ A \in T /\ V \in T
    BY <1>11
  <2>7. Append(b, A) = g
    <3> HIDE DEF T, g
    <3> QED
      BY <1>2, <2>5, <2>6, AppendTable
  <2>8. w[d + 2] = V /\ \A k \in 1..(d + 1) : w[k] = g[k]
    <3>1. w[d + 2] = V
      BY <2>3, <2>4
    <3>2. ASSUME NEW k \in 1..(d + 1) PROVE w[k] = g[k]
      <4>1. w[k] = PadBlock(D, n, q, k)
        BY <2>4
      <4>2. CASE k = d + 1
        BY <2>2, <2>5, <4>1, <4>2
      <4>3. CASE k # d + 1
        <5>1. k \in 1..d
          BY <1>2, <4>3
        <5> QED
          BY <1>10, <1>11, <2>5, <4>1, <5>1
      <4> QED
        BY <4>2, <4>3
    <3> QED
      BY <3>1, <3>2
  <2>9. w \in [1..((d + 1) + 1) -> T]
    <3>1. DOMAIN w = 1..((d + 1) + 1) /\ w = [k \in 1..((d + 1) + 1) |-> w[k]]
      BY <2>4
    <3>2. ASSUME NEW k \in 1..((d + 1) + 1) PROVE w[k] \in T
      <4> HIDE DEF w, g, T
      <4> QED
        BY <2>4, <2>5, <2>6, <2>8
    <3> HIDE DEF w, T
    <3> QED
      BY <3>1, <3>2
  <2>10. Append(g, V) = w
    <3> HIDE DEF T, g, w
    <3> QED
      BY <2>4, <2>5, <2>6, <2>8, <2>9, AppendTable
  <2> QED
    BY <1>7, <2>1, <2>7, <2>10, Zenon DEF f
<1>14. CASE ~NoRoom(room)
  <2> DEFINE U == Copied(Copied(Copied(i, t, <<Mark>>), t + 1, Zeros(room - LengthBytes)),
                         BlockBytes - LengthBytes, CountWords(l, h))
  <2>1. f = Append(b, U)
    BY <1>12, <1>14, Zenon DEF Finished
  <2>2. U = PadBlock(D, n, q, d + 1)
    <3>1. U = PadBlock(D, n, d + 1, d + 1)
      BY <1>2, <1>4, <1>8, <1>14, OneBlock
    <3> QED
      BY <1>6, <1>14, <3>1, Zenon
  <2> HIDE DEF U
  <2> DEFINE T == Seq(S) \cup {U}
             w == [k \in 1..q |-> PadBlock(D, n, q, k)]
  <2>3. q = d + 1 /\ d + 1 \in 1..(d + 1) /\ (\A k \in 1..d : k \in 1..(d + 1))
        /\ \A k \in 1..(d + 1) : k # d + 1 => k \in 1..d
    BY <1>2, <1>6, <1>14
  <2>4. b \in [1..d -> T] /\ U \in T
    BY <1>11
  <2>5. w[d + 1] = U /\ \A k \in 1..d : w[k] = b[k]
    BY <1>10, <1>11, <2>2, <2>3
  <2>6. w \in [1..(d + 1) -> T]
    <3>1. DOMAIN w = 1..(d + 1) /\ w = [k \in 1..(d + 1) |-> w[k]]
      BY <2>3
    <3>2. ASSUME NEW k \in 1..(d + 1) PROVE w[k] \in T
      <4> HIDE DEF w, T
      <4> QED
        BY <2>3, <2>4, <2>5
    <3> HIDE DEF w, T
    <3> QED
      BY <3>1, <3>2
  <2>7. Append(b, U) = w
    <3> HIDE DEF T, w
    <3> QED
      BY <1>2, <2>4, <2>5, <2>6, AppendTable
  <2> QED
    BY <1>7, <2>1, <2>7, Zenon DEF f
<1> QED
  BY <1>13, <1>14

----------------------------------------------------------------------------
(* Messages with the same blocks are the same.                            *)

\* Where a byte of the blocks is.
LEMMA PlaceIs ==
  ASSUME NEW q \in Nat, NEW p \in 1..(q * BlockBytes)
  PROVE  \E b \in 1..q : \E k \in 1..BlockBytes : p = (b - 1) * BlockBytes + k
<1> DEFINE a == (p - 1) \div BlockBytes
           r == (p - 1) % BlockBytes
<1>1. BlockBytes \in Nat \ {0} /\ p - 1 \in Nat /\ p <= q * BlockBytes
  <2>1. BlockBytes \in Nat \ {0}
    BY LengthWords
  <2> DEFINE e == q * BlockBytes
  <2>2. e \in Nat /\ p \in 1..e
    BY <2>1
  <2> HIDE DEF e
  <2>3. p - 1 \in Nat /\ p <= e
    BY <2>2
  <2> QED
    BY <2>1, <2>3 DEF e
<1>2. a \in Nat /\ r \in 0..(BlockBytes - 1) /\ p - 1 = a * BlockBytes + r
  BY <1>1, WholeAndRest
<1> HIDE DEF a, r
<1>3. a + 1 \in 1..q
  <2>1. ASSUME a >= q PROVE FALSE
    <3> DEFINE e == q * BlockBytes
               f == a * BlockBytes
    <3>1. (a - q) * BlockBytes \in Nat /\ f = e + (a - q) * BlockBytes /\ e \in Nat
      BY <1>1, <1>2, <2>1
    <3> DEFINE g == (a - q) * BlockBytes
    <3>2. g \in Nat /\ f = e + g /\ e \in Nat /\ p - 1 = f + r /\ p <= e /\ p \in Int /\ r \in Nat
      BY <1>1, <1>2, <3>1
    <3> HIDE DEF e, f, g
    <3> QED
      BY <3>2
  <2> QED
    BY <1>2, <2>1
<1>4. r + 1 \in 1..BlockBytes /\ (a + 1) - 1 = a
  BY <1>1, <1>2
<1>5. p = ((a + 1) - 1) * BlockBytes + (r + 1)
  <2> DEFINE f == a * BlockBytes
  <2>1. f \in Nat /\ p - 1 = f + r /\ p \in Int /\ r \in Nat
    BY <1>1, <1>2
  <2> HIDE DEF f
  <2>2. p = f + (r + 1)
    BY <2>1
  <2> QED
    BY <1>4, <2>2 DEF f
<1> QED
  BY <1>3, <1>4, <1>5, Zenon

LEMMA LastRoom ==
  ASSUME NEW n \in Nat, NEW q, BlockCount(n, q)
  PROVE  q \in Nat /\ q * BlockBytes \in Nat /\ q * BlockBytes >= n + LengthBytes + 1
<1> DEFINE x == n + 1 + LengthBytes + BlockBytes - 1
           r == x % BlockBytes
           e == q * BlockBytes
<1>1. BlockBytes \in Nat \ {0} /\ LengthBytes \in Nat /\ x \in Nat /\ x = n + LengthBytes + BlockBytes
  BY LengthWords
<1>2. q \in Nat /\ r \in 0..(BlockBytes - 1) /\ x = q * BlockBytes + r
  <2> HIDE DEF x
  <2>1. q = x \div BlockBytes
    BY DEF x, BlockCount
  <2> QED
    BY <1>1, <2>1, WholeAndRest
<1> HIDE DEF x, r
<1>3. e \in Nat
  BY <1>1, <1>2
<1>4. x = e + r
  BY <1>2
<1> HIDE DEF e
<1>5. e >= n + LengthBytes + 1
  BY <1>1, <1>2, <1>3, <1>4
<1> QED
  BY <1>2, <1>3, <1>5 DEF e

SameAt(D, n, E, m, q) == \A p \in 1..(q * BlockBytes) : PadByte(D, n, q, p) = PadByte(E, m, q, p)

\* Two messages with the same blocks have the same bytes at each place of them.
LEMMA SamePlaces ==
  ASSUME NEW D, NEW n \in Nat, n = Len(D), NEW E, NEW m \in Nat, m = Len(E), Blocks(D) = Blocks(E),
         NEW q, BlockCount(n, q)
  PROVE  SameAt(D, n, E, m, q) /\ BlockCount(m, q)
<1> DEFINE s == (m + 1 + LengthBytes + BlockBytes - 1) \div BlockBytes
           f == [b \in 1..q |-> PadBlock(D, n, q, b)]
           g == [b \in 1..s |-> PadBlock(E, m, s, b)]
<1>1. q \in Nat /\ Blocks(D) = f
  BY BlocksAre
<1>2. s \in Nat /\ Blocks(E) = g /\ BlockCount(m, s)
  <2>1. BlockCount(m, s)
    BY DEF BlockCount
  <2> HIDE DEF s
  <2> QED
    BY <2>1, BlocksAre
<1>3. f = g
  BY <1>1, <1>2
<1> HIDE DEF s
<1>4. 1..q = 1..s
  <2>1. DOMAIN f = 1..q /\ DOMAIN g = 1..s
    OBVIOUS
  <2> HIDE DEF f, g
  <2> QED
    BY <1>3, <2>1
<1>5. q = s
  <2>1. q \in Nat /\ s \in Nat /\ \A k : k \in 1..q <=> k \in 1..s
    BY <1>1, <1>2, <1>4
  <2>2. ~(q < s)
    <3>1. q < s => q + 1 \in 1..s /\ q + 1 \notin 1..q
      BY <2>1
    <3> QED
      BY <2>1, <3>1, Zenon
  <2>3. ~(s < q)
    <3>1. s < q => s + 1 \in 1..q /\ s + 1 \notin 1..s
      BY <2>1
    <3> QED
      BY <2>1, <3>1, Zenon
  <2> QED
    BY <2>1, <2>2, <2>3
<1>6. ASSUME NEW p \in 1..(q * BlockBytes)
      PROVE  PadByte(D, n, q, p) = PadByte(E, m, q, p)
  <2>1. PICK b \in 1..q : \E k \in 1..BlockBytes : p = (b - 1) * BlockBytes + k
    BY <1>1, PlaceIs
  <2>2. PICK k \in 1..BlockBytes : p = (b - 1) * BlockBytes + k
    BY <2>1, Zenon
  <2>3. f[b] = g[b] /\ f[b] = PadBlock(D, n, q, b) /\ g[b] = PadBlock(E, m, q, b)
    BY <1>3, <1>5, Zenon
  <2>4. PadBlock(D, n, q, b)[k] = PadBlock(E, m, q, b)[k]
    BY <2>3
  <2> QED
    BY <2>2, <2>4, Zenon DEF PadBlock
<1>7. SameAt(D, n, E, m, q)
  BY <1>6, Zenon DEF SameAt
<1> QED
  BY <1>2, <1>5, <1>7, Zenon

\* A digest made of its blocks tells a message from every other.
LEMMA BlocksTell ==
  ASSUME NEW S, NEW D \in Seq(S), NEW E \in Seq(S), Blocks(D) = Blocks(E)
  PROVE  D = E
<1> DEFINE n == Len(D)
           m == Len(E)
           q == (n + 1 + LengthBytes + BlockBytes - 1) \div BlockBytes
           e == q * BlockBytes
           v == LengthBytes \div 2
<1>1. n \in Nat /\ m \in Nat /\ BlockCount(n, q)
  BY DEF BlockCount
<1> HIDE DEF q
<1>2. SameAt(D, n, E, m, q) /\ BlockCount(m, q)
  BY <1>1, SamePlaces
<1>3. e \in Nat /\ e >= n + LengthBytes + 1 /\ e >= m + LengthBytes + 1
  BY <1>1, <1>2, LastRoom
<1>4. \A p \in 1..e : PadByte(D, n, q, p) = PadByte(E, m, q, p)
  BY <1>2, Zenon DEF SameAt
<1>5. LengthBytes \in Nat /\ v \in 1..(LengthBytes - 1)
  BY LengthWords
<1>6. ASSUME NEW M, NEW j \in Nat, e >= j + LengthBytes + 1
      PROVE  /\ PadByte(M, j, q, e - LengthBytes + 1) = Low((8 * j) % WordMod)
             /\ PadByte(M, j, q, e) = High((8 * j) \div WordMod)
             /\ \A k \in 1..j : PadByte(M, j, q, k) = M[k]
  <2> DEFINE p == e - LengthBytes + 1
             lo == Low((8 * j) % WordMod)
             hi == High((8 * j) \div WordMod)
  <2>1. \A k : PadByte(M, j, q, k)
                 = IF k <= j THEN M[k] ELSE IF k = j + 1 THEN Mark
                   ELSE IF k <= e - LengthBytes THEN Zero ELSE IF k <= e - v THEN lo ELSE hi
    BY Zenon DEF PadByte
  <2> HIDE DEF lo, hi, e, v
  <2>2. ~(p <= j) /\ p # j + 1 /\ ~(p <= e - LengthBytes) /\ p <= e - v
    BY <1>3, <1>5, <1>6
  <2>3. ~(e <= j) /\ e # j + 1 /\ ~(e <= e - LengthBytes) /\ ~(e <= e - v)
    BY <1>3, <1>5, <1>6
  <2> HIDE DEF p
  <2>4. PadByte(M, j, q, p) = lo
    BY <2>1, <2>2, Zenon
  <2>5. PadByte(M, j, q, e) = hi
    BY <2>1, <2>3, Zenon
  <2>6. \A k \in 1..j : PadByte(M, j, q, k) = M[k]
    <3>1. \A k \in 1..j : k <= j
      OBVIOUS
    <3> QED
      BY <2>1, <3>1, Zenon
  <2> QED
    BY <2>4, <2>5, <2>6 DEF p, lo, hi
<1>7. e \in 1..e /\ e - LengthBytes + 1 \in 1..e /\ (\A k \in 1..n : k \in 1..e)
  <2> HIDE DEF e
  <2> QED
    BY <1>1, <1>3, <1>5
<1> HIDE DEF e
<1>8. Low((8 * n) % WordMod) = Low((8 * m) % WordMod)
      /\ High((8 * n) \div WordMod) = High((8 * m) \div WordMod)
  BY <1>1, <1>3, <1>4, <1>6, <1>7, Zenon
<1>9. n = m
  <2> DEFINE l1 == (8 * n) % WordMod
             l2 == (8 * m) % WordMod
             h1 == (8 * n) \div WordMod
             h2 == (8 * m) \div WordMod
  <2>1. WordMod \in Nat \ {0} /\ 8 * n \in Nat /\ 8 * m \in Nat
    BY <1>1, Md5Assumption
  <2>2. 8 * n = h1 * WordMod + l1 /\ 8 * m = h2 * WordMod + l2
    BY <2>1, WholeAndRest
  <2>3. l1 = l2 /\ h1 = h2
    <3> HIDE DEF l1, l2, h1, h2
    <3>1. Low(l1) = Low(l2) /\ High(h1) = High(h2)
      BY <1>8 DEF l1, l2, h1, h2
    <3> QED
      BY <3>1 DEF Low, High
  <2> HIDE DEF l1, l2, h1, h2
  <2>4. 8 * n = 8 * m
    BY <2>2, <2>3
  <2> QED
    BY <1>1, <2>4
<1>10. \A k \in 1..n : D[k] = E[k]
  <2>1. ASSUME NEW k \in 1..n PROVE D[k] = E[k]
    <3>1. k \in 1..m /\ k \in 1..e
      BY <1>7, <1>9
    <3>2. PadByte(D, n, q, k) = D[k] /\ PadByte(E, m, q, k) = E[k]
      BY <1>1, <1>3, <1>6, <3>1
    <3> QED
      BY <1>4, <3>1, <3>2, Zenon
  <2> QED
    BY <2>1
<1> QED
  BY <1>9, <1>10, SeqEqual

----------------------------------------------------------------------------
(* The invariant: the context is of the part read so far, and what has    *)
(* been printed and counted is of the files whose turn has been.          *)

\* The digests that are right, and the names whose turn comes.
Replies == {<<n, Blocks(job.files[n].data)>> : n \in DOMAIN job.files}
Turns == IF Len(Names) = 0 THEN 1 ELSE Len(Names)
NameAt(k) == IF Len(Names) = 0 THEN "stdin" ELSE Names[k].name
Digested == {digests[k][1] : k \in 1..Len(digests)}

\* It has not stopped with a usage or an error.
Ran == mpc \in {"next", "read"} \/ (mpc = "end" /\ status # 2)

Md5Shape ==
  /\ IsJob(job)
  /\ mpc \in {"getopt", "next", "read", "end"} /\ check \in {0, 1} /\ ex \in {0, 2}
  /\ optind \in 1..(Len(job.argv) + 1) /\ turn \in Nat \ {0}
  /\ failed \in Nat /\ checked \in Nat
  /\ digests \in Seq(Replies)
  /\ at.pos \in Nat /\ at = [name |-> at.name, pos |-> at.pos]

Md5Begun ==
  mpc = "getopt" => turn = 1 /\ ex = 0 /\ failed = 0 /\ checked = 0 /\ digests = <<>>

Md5Named == Ran => \A k \in optind..Len(job.argv) : job.argv[k].kind = "name"

\* The file being read is the one whose turn it is, and the context is of its part read.
Md5Reading ==
  mpc = "read" =>
    /\ at.name \in DOMAIN job.files /\ at.pos <= Len(job.files[at.name].data)
    /\ job.files[at.name].opens
    /\ ContextOf(ctx, job.files[at.name].data, at.pos)
    /\ check = 0 => turn <= Turns /\ at.name = NameAt(turn)
    /\ check = 1 => turn \in Listed /\ at.name = job.lines[turn].name

\* Files have been digested as far as the turn, or one of them could not be read.
MainKept ==
  Ran /\ check = 0 =>
    /\ turn <= Turns + 1
    /\ ex = 0 => Digested = {NameAt(k) : k \in 1..(turn - 1)}
    /\ mpc = "end" => status = 0 /\ ex = 0 /\ turn = Turns + 1

AllRead(t) == \A k \in Listed : k < t => Readable(k)
SomeRead(t) == \E k \in Listed : k < t /\ Readable(k)
SomeChanged(t) == \E k \in Listed : k < t /\ Readable(k) /\ ~Unchanged(k)

\* The counts of a check tell what the lines as far as the turn say.
CheckKept ==
  Ran /\ check = 1 =>
    /\ turn <= Len(job.lines) + 1
    /\ ex = 0 <=> AllRead(turn)
    /\ failed > 0 <=> SomeChanged(turn)
    /\ checked > 0 <=> SomeRead(turn)
    /\ mpc = "end" =>
         /\ turn = Len(job.lines) + 1
         /\ status = IF checked = 0 THEN 3 ELSE IF ex = 0 /\ failed > 0 THEN 1 ELSE ex

Md5Inv == Md5Shape /\ Md5Begun /\ Md5Named /\ Md5Reading /\ MainKept /\ CheckKept

\* The files of a job and the lines of its list are what they should be.
LEMMA JobParts ==
  ASSUME IsJob(job)
  PROVE  /\ job.argv \in Seq(Arguments) /\ job.lines \in Seq(ListLines)
         /\ "stdin" \in DOMAIN job.files
         /\ \A n \in DOMAIN job.files :
              /\ job.files[n].opens \in BOOLEAN /\ job.files[n].bad \in BOOLEAN
              /\ job.files[n].data \in Seq(FileByte)
         /\ \A k \in Listed :
              /\ k \in 1..Len(job.lines)
              /\ job.lines[k].name \in DOMAIN job.files /\ job.lines[k].was \in Seq(FileByte)
<1>1. \A n \in DOMAIN job.files : job.files[n] \in FileStates
  BY Zenon DEF IsJob
<1>2. \A k \in 1..Len(job.lines) : job.lines[k] \in ListLines
  BY DEF IsJob
<1>3. job.argv \in Seq(Arguments) /\ job.lines \in Seq(ListLines) /\ "stdin" \in DOMAIN job.files
  BY Zenon DEF IsJob
<1>4. \A n \in DOMAIN job.files :
        /\ job.files[n].opens \in BOOLEAN /\ job.files[n].bad \in BOOLEAN
        /\ job.files[n].data \in Seq(FileByte)
  BY <1>1, Zenon DEF FileStates
<1>5. \A k \in 1..Len(job.lines) : job.lines[k].was \in Seq(FileByte)
  BY <1>2, Zenon DEF ListLines
<1>6. \A k \in Listed : k \in 1..Len(job.lines) /\ job.lines[k].kind = "digest"
  BY Zenon DEF Listed
<1>7. \A k \in 1..Len(job.lines) :
        job.lines[k].kind = "digest" => job.lines[k].name \in DOMAIN job.files
  BY Zenon DEF IsJob
<1> QED
  BY <1>3, <1>4, <1>5, <1>6, <1>7, Zenon

\* The names are what is left of the arguments.
LEMMA NamesAre ==
  ASSUME job.argv \in Seq(Arguments), optind \in 1..(Len(job.argv) + 1)
  PROVE  /\ Len(Names) \in Nat /\ Len(Names) = Len(job.argv) - optind + 1
         /\ \A k \in 1..Len(Names) : Names[k] = job.argv[optind + k - 1]
  BY DEF Names

\* Every name whose turn can come is of a file.
LEMMA NamesThere ==
  ASSUME IsJob(job), optind \in 1..(Len(job.argv) + 1), Ran, Md5Named
  PROVE  Turns \in Nat \ {0} /\ \A k \in 1..Turns : NameAt(k) \in DOMAIN job.files
<1>1. job.argv \in Seq(Arguments) /\ Len(job.argv) \in Nat
  BY JobParts
<1>2. /\ Len(Names) \in Nat /\ Len(Names) = Len(job.argv) - optind + 1
      /\ \A k \in 1..Len(Names) : Names[k] = job.argv[optind + k - 1]
  BY <1>1, NamesAre
<1>3. CASE Len(Names) = 0
  <2>1. "stdin" \in DOMAIN job.files
    BY Zenon DEF IsJob
  <2>2. Turns = 1 /\ \A k \in 1..Turns : NameAt(k) = "stdin"
    BY <1>3, Zenon DEF Turns, NameAt
  <2> QED
    BY <2>1, <2>2
<1>4. CASE Len(Names) # 0
  <2>1. Turns = Len(Names) /\ \A k \in 1..Turns : NameAt(k) = Names[k].name
    BY <1>4, Zenon DEF Turns, NameAt
  <2>2. ASSUME NEW k \in 1..Turns PROVE NameAt(k) \in DOMAIN job.files
    <3>1. k \in 1..Len(Names) /\ optind + k - 1 \in optind..Len(job.argv)
          /\ optind + k - 1 \in 1..Len(job.argv)
      BY <1>1, <1>2, <2>1
    <3>2. job.argv[optind + k - 1].kind = "name"
      BY <3>1, Zenon DEF Md5Named
    <3>3. job.argv[optind + k - 1].name \in DOMAIN job.files
      BY <3>1, <3>2, Zenon DEF IsJob
    <3> QED
      BY <1>2, <2>1, <3>1, <3>3
  <2>3. Turns \in Nat \ {0}
    BY <1>2, <1>4, <2>1
  <2> QED
    BY <2>2, <2>3, Zenon
<1> QED
  BY <1>3, <1>4

\* What the lines say as far as the next turn.
LEMMA TurnOn ==
  ASSUME NEW t \in Nat, job.lines \in Seq(ListLines)
  PROVE  /\ AllRead(t + 1) <=> AllRead(t) /\ (t \in Listed => Readable(t))
         /\ SomeRead(t + 1) <=> SomeRead(t) \/ (t \in Listed /\ Readable(t))
         /\ SomeChanged(t + 1) <=> SomeChanged(t) \/ (t \in Listed /\ Readable(t) /\ ~Unchanged(t))
<1>1. \A k \in Listed : k \in Int
  BY DEF Listed
<1>2. \A k \in Listed : k < t + 1 <=> k < t \/ k = t
  BY <1>1
<1>3. t \in Listed => t < t + 1
  OBVIOUS
<1>4. AllRead(t + 1) <=> AllRead(t) /\ (t \in Listed => Readable(t))
  BY <1>2, <1>3, Zenon DEF AllRead
<1>5. SomeRead(t + 1) <=> SomeRead(t) \/ (t \in Listed /\ Readable(t))
  BY <1>2, <1>3, Zenon DEF SomeRead
<1>6. SomeChanged(t + 1) <=> SomeChanged(t) \/ (t \in Listed /\ Readable(t) /\ ~Unchanged(t))
  BY <1>2, <1>3, Zenon DEF SomeChanged
<1> QED
  BY <1>4, <1>5, <1>6, Zenon

\* Before the first line nothing has been read.
LEMMA NoneYet ==
  ASSUME job.lines \in Seq(ListLines)
  PROVE  AllRead(1) /\ ~SomeRead(1) /\ ~SomeChanged(1)
<1>1. \A k \in Listed : ~(k < 1)
  BY DEF Listed
<1> QED
  BY <1>1, Zenon DEF AllRead, SomeRead, SomeChanged

\* What a job's names and lines say does not change while it runs.
SameJob ==
  /\ Names' = Names /\ Turns' = Turns /\ Listed' = Listed /\ Replies' = Replies
  /\ ListOpens' = ListOpens
  /\ \A k : NameAt(k)' = NameAt(k)
  /\ \A t : AllRead(t)' = AllRead(t) /\ SomeRead(t)' = SomeRead(t)
            /\ SomeChanged(t)' = SomeChanged(t)

LEMMA JobStays ==
  ASSUME job' = job, optind' = optind
  PROVE  SameJob
<1>1. Names' = Names
  BY Zenon DEF Names
<1>2. Turns' = Turns /\ \A k : NameAt(k)' = NameAt(k)
  BY <1>1, Zenon DEF Turns, NameAt
<1>3. Listed' = Listed /\ ListOpens' = ListOpens /\ Replies' = Replies
  BY <1>1, Zenon DEF Listed, ListOpens, Replies
<1>4. \A t : AllRead(t)' = AllRead(t) /\ SomeRead(t)' = SomeRead(t)
             /\ SomeChanged(t)' = SomeChanged(t)
  BY <1>3, Zenon DEF AllRead, SomeRead, SomeChanged, Readable, Unchanged
<1> QED
  BY <1>1, <1>2, <1>3, <1>4, Zenon DEF SameJob

----------------------------------------------------------------------------
(* The options and the names.                                             *)

\* An argument with options is read letter by letter.
LEMMA GetoptLetterKeeps ==
  ASSUME Md5Inv, mpc = "getopt", GetoptLetter,
         UNCHANGED <<job, ctx, at, turn, ex, failed, checked, digests>>
  PROVE  Md5Inv'
<1>1. job.argv \in Seq(Arguments) /\ Len(job.argv) \in Nat
  BY JobParts DEF Md5Inv, Md5Shape
<1>2. /\ job' = job /\ at' = at /\ turn' = turn /\ ex' = ex
      /\ failed' = failed /\ checked' = checked /\ digests' = digests
  OBVIOUS
<1>3. optind \in 1..Len(job.argv) /\ check' \in {0, 1} /\ optind' \in {optind, optind + 1}
      /\ ((mpc' = mpc /\ status' = status) \/ (mpc' = "end" /\ status' = 2))
  <2>1. optind <= Len(job.argv) /\ optind' \in {optind, optind + 1}
        /\ ((mpc' = mpc /\ status' = status) \/ (mpc' = "end" /\ status' = 2))
    BY DEF GetoptLetter, Exit
  <2>2. check' \in {0, 1}
    BY DEF GetoptLetter, Md5Inv, Md5Shape
  <2>3. optind \in 1..(Len(job.argv) + 1)
    BY DEF Md5Inv, Md5Shape
  <2> QED
    BY <1>1, <2>1, <2>2, <2>3
<1>4. optind' \in 1..(Len(job.argv) + 1)
  BY <1>1, <1>3
<1>5. Replies' = Replies
  BY <1>2, Zenon DEF Replies
<1>6. Md5Shape'
  BY <1>2, <1>3, <1>4, <1>5 DEF Md5Inv, Md5Shape
<1>7. Md5Begun'
  BY <1>2 DEF Md5Inv, Md5Begun
<1>8. ~Ran' /\ mpc' # "read"
  BY <1>3 DEF Ran
<1> QED
  BY <1>6, <1>7, <1>8, Zenon DEF Md5Inv, Md5Named, Md5Reading, MainKept, CheckKept

\* The names begin where the options end.
LEMMA GetoptEofKeeps ==
  ASSUME Md5Inv, mpc = "getopt", GetoptEof,
         UNCHANGED <<job, ctx, at, turn, ex, failed, checked, digests>>
  PROVE  Md5Inv'
<1>1. job.argv \in Seq(Arguments) /\ Len(job.argv) \in Nat /\ job.lines \in Seq(ListLines)
      /\ Len(job.lines) \in Nat
  BY JobParts DEF Md5Inv, Md5Shape
<1>2. /\ job' = job /\ at' = at /\ turn' = 1 /\ ex' = 0 /\ check' = check
      /\ failed' = 0 /\ checked' = 0 /\ digests' = <<>> /\ mpc' = "next"
  BY DEF GetoptEof, Md5Inv, Md5Begun
<1>3. optind \in 1..(Len(job.argv) + 1)
  BY DEF Md5Inv, Md5Shape
<1>4. /\ optind' \in 1..(Len(job.argv) + 1)
      /\ \A k \in optind'..Len(job.argv) : job.argv[k].kind = "name"
  <2>1. \A k \in 1..Len(job.argv) : job.argv[k].kind # "options" =>
          \A m \in k + 1..Len(job.argv) : job.argv[m].kind = "name"
    BY Zenon DEF IsJob, Md5Inv, Md5Shape
  <2>2. CASE optind > Len(job.argv) /\ UNCHANGED optind
    BY <1>1, <1>3, <2>2
  <2>3. CASE optind <= Len(job.argv) /\ job.argv[optind].kind = "name" /\ UNCHANGED optind
    <3>1. optind \in 1..Len(job.argv) /\ job.argv[optind].kind # "options"
      BY <1>1, <1>3, <2>3
    <3>2. \A m \in optind + 1..Len(job.argv) : job.argv[m].kind = "name"
      BY <2>1, <3>1, Zenon
    <3>3. \A k \in optind..Len(job.argv) : k = optind \/ k \in optind + 1..Len(job.argv)
      BY <1>1, <1>3
    <3> QED
      BY <1>3, <2>3, <3>2, <3>3, Zenon
  <2>4. CASE optind <= Len(job.argv) /\ job.argv[optind].kind = "--" /\ optind' = optind + 1
    <3>1. optind \in 1..Len(job.argv) /\ job.argv[optind].kind # "options"
          /\ optind + 1 \in 1..(Len(job.argv) + 1)
      BY <1>1, <1>3, <2>4
    <3>2. \A m \in optind + 1..Len(job.argv) : job.argv[m].kind = "name"
      BY <2>1, <3>1, Zenon
    <3> QED
      BY <2>4, <3>1, <3>2, Zenon
  <2> QED
    BY <2>2, <2>3, <2>4 DEF GetoptEof
<1>5. Replies' = Replies /\ Listed' = Listed
  BY <1>2, Zenon DEF Replies, Listed
<1>6. Md5Shape'
  BY <1>2, <1>4, <1>5 DEF Md5Inv, Md5Shape
<1>7. Md5Begun' /\ Md5Named' /\ Md5Reading'
  BY <1>2, <1>4 DEF Md5Begun, Md5Named, Md5Reading
<1>8. MainKept'
  <2>1. Names' = SubSeq(job.argv, optind', Len(job.argv))
    BY <1>2, Zenon DEF Names
  <2>2. Len(Names') \in Nat
    BY <1>1, <1>4, <2>1
  <2>3. Turns' \in Nat /\ 1 <= Turns' + 1
    BY <2>2 DEF Turns
  <2>4. Digested' = {}
    BY <1>2 DEF Digested
  <2>5. {NameAt(k) : k \in 1..(turn - 1)}' = {}
    BY <1>2
  <2> QED
    BY <1>2, <2>3, <2>4, <2>5 DEF MainKept
<1>9. CheckKept'
  <2>1. AllRead(1) /\ ~SomeRead(1) /\ ~SomeChanged(1)
    BY <1>1, NoneYet
  <2>2. AllRead(1)' = AllRead(1) /\ SomeRead(1)' = SomeRead(1)
        /\ SomeChanged(1)' = SomeChanged(1)
    BY <1>2, <1>5, Zenon DEF AllRead, SomeRead, SomeChanged, Readable, Unchanged
  <2>3. AllRead(turn)' = AllRead(1)' /\ SomeRead(turn)' = SomeRead(1)'
        /\ SomeChanged(turn)' = SomeChanged(1)'
    BY <1>2, Zenon DEF AllRead, SomeRead, SomeChanged
  <2>4. AllRead(turn)' /\ ~SomeRead(turn)' /\ ~SomeChanged(turn)'
    BY <2>1, <2>2, <2>3, Zenon
  <2>5. turn' <= Len(job.lines)' + 1 /\ ex' = 0 /\ failed' = 0 /\ checked' = 0 /\ mpc' # "end"
        /\ ~(0 > 0)
    BY <1>1, <1>2
  <2> QED
    BY <2>4, <2>5, Zenon DEF CheckKept
<1> QED
  BY <1>6, <1>7, <1>8, <1>9, Zenon DEF Md5Inv

LEMMA GetoptKeeps == ASSUME Md5Inv, Getopt PROVE Md5Inv'
BY GetoptLetterKeeps, GetoptEofKeeps, Zenon DEF Getopt

\* The next of the names, when it is of a file that opens or does not.
LEMMA NameOpens ==
  ASSUME Md5Inv, mpc = "next", check = 0, turn <= Turns, OpenFile(NameAt(turn)),
         UNCHANGED <<status, job, optind, sp, check, failed, checked, digests>>
  PROVE  Md5Inv'
<1> DEFINE name == NameAt(turn)
<1>1. /\ job' = job /\ optind' = optind /\ check' = 0 /\ check = 0 /\ failed' = failed
      /\ checked' = checked /\ digests' = digests /\ status' = status
  OBVIOUS
<1>2. SameJob
  BY <1>1, JobStays
<1>3. Ran
  BY DEF Ran
<1>4. /\ IsJob(job) /\ optind \in 1..(Len(job.argv) + 1) /\ Md5Named
      /\ turn \in Nat \ {0} /\ ex \in {0, 2} /\ digests \in Seq(Replies)
      /\ failed \in Nat /\ checked \in Nat
      /\ at.pos \in Nat /\ at = [name |-> at.name, pos |-> at.pos]
  BY Zenon DEF Md5Inv, Md5Shape
<1>5. Turns \in Nat \ {0} /\ name \in DOMAIN job.files
  BY <1>3, <1>4, NamesThere
<1>6. /\ job.files[name].opens \in BOOLEAN /\ job.files[name].data \in Seq(FileByte)
      /\ job.lines \in Seq(ListLines)
  BY <1>4, <1>5, JobParts, Zenon
<1>7. Md5Named'
  BY <1>1, <1>3, <1>4, Zenon DEF Md5Named
<1>8. CheckKept'
  BY <1>1 DEF CheckKept
<1>9. CASE job.files[name].opens
  <2>1. /\ at' = [name |-> name, pos |-> 0] /\ ctx' = MD5Init /\ mpc' = "read"
        /\ ex' = ex /\ turn' = turn
    BY <1>9, Zenon DEF OpenFile
  <2>2. at'.name = name /\ at'.pos = 0
    BY <2>1
  <2>3. Md5Shape'
    BY <1>1, <1>2, <1>4, <2>1, <2>2 DEF Md5Shape, SameJob
  <2>4. Md5Begun'
    BY <2>1 DEF Md5Begun
  <2>5. Md5Reading'
    <3>1. ContextOf(ctx', job.files[name].data, 0)
      BY <2>1, ContextBegins
    <3>2. 0 <= Len(job.files[name].data)
      BY <1>6
    <3>3. /\ turn' <= Turns' /\ at'.name = NameAt(turn)'
      <4>1. NameAt(turn') = NameAt(turn)
        BY <2>1
      <4>2. NameAt(turn)' = NameAt(turn)
        BY <1>1, <2>1, Zenon DEF NameAt, Names
      <4> QED
        BY <1>2, <2>1, <2>2, <4>2 DEF SameJob
    <3> HIDE DEF name
    <3> QED
      BY <1>1, <1>5, <1>9, <2>1, <2>2, <3>1, <3>2, <3>3 DEF Md5Reading
  <2>6. MainKept'
    <3>1. Digested' = Digested /\ Turns' = Turns /\ \A k : NameAt(k)' = NameAt(k)
      BY <1>1, <1>2, Zenon DEF Digested, SameJob
    <3>2. {NameAt(k) : k \in 1..(turn - 1)}' = {NameAt(k) : k \in 1..(turn - 1)}
      BY <2>1, <3>1
    <3>3. turn <= Turns + 1 /\ (ex = 0 => Digested = {NameAt(k) : k \in 1..(turn - 1)})
      BY <1>3 DEF Md5Inv, MainKept
    <3> QED
      BY <2>1, <3>1, <3>2, <3>3 DEF MainKept
  <2> QED
    BY <1>7, <1>8, <2>3, <2>4, <2>5, <2>6, Zenon DEF Md5Inv
<1>10. CASE ~job.files[name].opens
  <2>1. /\ at' = at /\ ctx' = ctx /\ mpc' = "next" /\ ex' = 2 /\ turn' = turn + 1
    BY <1>10 DEF OpenFile
  <2>2. Md5Shape'
    BY <1>1, <1>2, <1>4, <2>1 DEF Md5Shape, SameJob
  <2>3. Md5Begun' /\ Md5Reading'
    BY <2>1 DEF Md5Begun, Md5Reading
  <2>4. MainKept'
    BY <1>2, <1>4, <1>5, <2>1 DEF MainKept, SameJob
  <2> QED
    BY <1>7, <1>8, <2>2, <2>3, <2>4, Zenon DEF Md5Inv
<1> QED
  BY <1>9, <1>10

\* main, when no name is left.
LEMMA MainExitKeeps ==
  ASSUME Md5Inv, mpc = "next", check = 0, turn > Len(Names), Len(Names) > 0 \/ turn > 1, Exit(ex),
         UNCHANGED <<at, ctx, ex, turn, job, optind, sp, check, failed, checked, digests>>
  PROVE  Md5Inv'
<1>1. /\ job' = job /\ optind' = optind /\ check' = 0 /\ failed' = failed
      /\ checked' = checked /\ digests' = digests /\ ex' = ex /\ turn' = turn /\ at' = at
      /\ mpc' = "end" /\ status' = ex
  BY DEF Exit
<1>2. SameJob
  BY <1>1, JobStays
<1>3. Ran
  BY DEF Ran
<1>4. /\ IsJob(job) /\ optind \in 1..(Len(job.argv) + 1) /\ Md5Named
      /\ turn \in Nat \ {0} /\ ex \in {0, 2} /\ digests \in Seq(Replies)
      /\ failed \in Nat /\ checked \in Nat
      /\ at.pos \in Nat /\ at = [name |-> at.name, pos |-> at.pos]
  BY Zenon DEF Md5Inv, Md5Shape
<1>5. Md5Named'
  BY <1>1, <1>3, <1>4, Zenon DEF Md5Named
<1>6. CheckKept'
  BY <1>1 DEF CheckKept
<1>7. Md5Shape'
  BY <1>1, <1>2, <1>4 DEF Md5Shape, SameJob
<1>8. Md5Begun' /\ Md5Reading'
  BY <1>1 DEF Md5Begun, Md5Reading
<1>9. MainKept'
  <2>1. Digested' = Digested /\ Turns' = Turns /\ \A k : NameAt(k)' = NameAt(k)
    BY <1>1, <1>2, Zenon DEF Digested, SameJob
  <2>2. {NameAt(k) : k \in 1..(turn - 1)}' = {NameAt(k) : k \in 1..(turn - 1)}
    BY <1>1, <2>1
  <2>3. turn <= Turns + 1 /\ (ex = 0 => Digested = {NameAt(k) : k \in 1..(turn - 1)})
    BY <1>3 DEF Md5Inv, MainKept
  <2>4. job.argv \in Seq(Arguments)
    BY <1>4, JobParts
  <2>5. Len(Names) \in Nat
    BY <1>4, <2>4, NamesAre
  <2>6. turn = Turns + 1
    BY <1>4, <2>3, <2>5 DEF Turns
  <2> QED
    BY <1>1, <1>4, <2>1, <2>2, <2>3, <2>6 DEF MainKept, Ran
<1> QED
  BY <1>5, <1>6, <1>7, <1>8, <1>9, Zenon DEF Md5Inv

LEMMA MainKeeps == ASSUME Md5Inv, MainNext PROVE Md5Inv'
<1>1. /\ mpc = "next" /\ check = 0
      /\ UNCHANGED <<job, optind, sp, check, failed, checked, digests>>
  BY Zenon DEF MainNext
<1>2. job.argv \in Seq(Arguments) /\ optind \in 1..(Len(job.argv) + 1) /\ turn \in Nat \ {0}
  BY JobParts DEF Md5Inv, Md5Shape
<1>3. Len(Names) \in Nat
  BY <1>2, NamesAre
<1>4. CASE Len(Names) = 0 /\ turn = 1 /\ OpenFile("stdin") /\ UNCHANGED status
  <2>1. NameAt(turn) = "stdin" /\ turn <= Turns
    BY <1>4 DEF NameAt, Turns
  <2> QED
    BY <1>1, <1>4, <2>1, NameOpens
<1>5. CASE turn <= Len(Names) /\ OpenFile(Names[turn].name) /\ UNCHANGED status
  <2>1. Len(Names) # 0
    BY <1>2, <1>3, <1>5
  <2>2. NameAt(turn) = Names[turn].name /\ turn <= Turns
    BY <1>5, <2>1 DEF NameAt, Turns
  <2> QED
    BY <1>1, <1>5, <2>2, NameOpens
<1>6. CASE /\ turn > Len(Names) /\ (Len(Names) > 0 \/ turn > 1)
           /\ Exit(ex) /\ UNCHANGED <<at, ctx, ex, turn>>
  BY <1>1, <1>6, MainExitKeeps
<1> QED
  BY <1>4, <1>5, <1>6, Zenon DEF MainNext

----------------------------------------------------------------------------
(* The lines of a list.                                                   *)

\* A line of a digest, whose file opens or does not.
LEMMA LineOpens ==
  ASSUME Md5Inv, mpc = "next", check = 1, turn \in Listed, OpenFile(job.lines[turn].name),
         UNCHANGED <<status, job, optind, sp, check, failed, checked, digests>>
  PROVE  Md5Inv'
<1> DEFINE name == job.lines[turn].name
<1>1. /\ job' = job /\ optind' = optind /\ check' = 1 /\ failed' = failed
      /\ checked' = checked /\ digests' = digests /\ status' = status
  OBVIOUS
<1>2. SameJob
  BY <1>1, JobStays
<1>3. Ran
  BY DEF Ran
<1>4. /\ IsJob(job) /\ optind \in 1..(Len(job.argv) + 1) /\ Md5Named
      /\ turn \in Nat \ {0} /\ ex \in {0, 2} /\ digests \in Seq(Replies)
      /\ failed \in Nat /\ checked \in Nat
      /\ at.pos \in Nat /\ at = [name |-> at.name, pos |-> at.pos]
  BY Zenon DEF Md5Inv, Md5Shape
<1>5. name \in DOMAIN job.files /\ job.lines \in Seq(ListLines) /\ turn \in 1..Len(job.lines)
  BY <1>4, JobParts, Zenon
<1>6. job.files[name].opens \in BOOLEAN /\ job.files[name].data \in Seq(FileByte)
  BY <1>4, <1>5, JobParts, Zenon
<1>7. Md5Named'
  BY <1>1, <1>3, <1>4, Zenon DEF Md5Named
<1>8. MainKept'
  BY <1>1 DEF MainKept
<1>9. /\ turn <= Len(job.lines) + 1
      /\ ex = 0 <=> AllRead(turn)
      /\ failed > 0 <=> SomeChanged(turn)
      /\ checked > 0 <=> SomeRead(turn)
  BY <1>3, Zenon DEF Md5Inv, CheckKept
<1>10. CASE job.files[name].opens
  <2>1. /\ at' = [name |-> name, pos |-> 0] /\ ctx' = MD5Init /\ mpc' = "read"
        /\ ex' = ex /\ turn' = turn
    BY <1>10, Zenon DEF OpenFile
  <2>2. at'.name = name /\ at'.pos = 0
    BY <2>1
  <2>3. Md5Shape'
    BY <1>1, <1>2, <1>4, <2>1, <2>2 DEF Md5Shape, SameJob
  <2>4. Md5Begun'
    BY <2>1 DEF Md5Begun
  <2>5. Md5Reading'
    <3>1. ContextOf(ctx', job.files[name].data, 0)
      BY <2>1, ContextBegins
    <3>2. 0 <= Len(job.files[name].data)
      <4> DEFINE d == job.files[name].data
      <4>1. d \in Seq(FileByte)
        BY <1>6, Zenon
      <4> HIDE DEF d
      <4>2. 0 <= Len(d)
        BY <4>1
      <4> QED
        BY <4>2 DEF d
    <3>3. turn' \in Listed' /\ at'.name = job'.lines[turn'].name
      BY <1>1, <1>2, <2>1, <2>2 DEF SameJob
    <3> HIDE DEF name
    <3> QED
      BY <1>1, <1>5, <1>10, <2>1, <2>2, <3>1, <3>2, <3>3 DEF Md5Reading
  <2>6. CheckKept'
    <3>1. AllRead(turn)' = AllRead(turn) /\ SomeRead(turn)' = SomeRead(turn)
          /\ SomeChanged(turn)' = SomeChanged(turn)
      BY <1>1, <1>2, <2>1, Zenon DEF SameJob, AllRead, SomeRead, SomeChanged, Readable, Unchanged
    <3> QED
      BY <1>1, <1>9, <2>1, <3>1 DEF CheckKept
  <2> QED
    BY <1>7, <1>8, <2>3, <2>4, <2>5, <2>6, Zenon DEF Md5Inv
<1>11. CASE ~job.files[name].opens
  <2>1. /\ at' = at /\ ctx' = ctx /\ mpc' = "next" /\ ex' = 2 /\ turn' = turn + 1
    BY <1>11 DEF OpenFile
  <2>2. Md5Shape'
    BY <1>1, <1>2, <1>4, <2>1 DEF Md5Shape, SameJob
  <2>3. Md5Begun' /\ Md5Reading'
    BY <2>1 DEF Md5Begun, Md5Reading
  <2>4. ~Readable(turn)
    BY <1>11 DEF Readable
  <2>5. CheckKept'
    <3>1. ~AllRead(turn + 1) /\ (SomeRead(turn + 1) <=> SomeRead(turn))
          /\ (SomeChanged(turn + 1) <=> SomeChanged(turn))
      BY <1>4, <1>5, <2>4, TurnOn
    <3>2. AllRead(turn)' = AllRead(turn + 1) /\ SomeRead(turn)' = SomeRead(turn + 1)
          /\ SomeChanged(turn)' = SomeChanged(turn + 1)
      BY <1>1, <1>2, <2>1, Zenon DEF SameJob, AllRead, SomeRead, SomeChanged, Readable, Unchanged
    <3>3. turn + 1 <= Len(job.lines) + 1 /\ 2 # 0
      BY <1>5
    <3> QED
      BY <1>1, <1>9, <2>1, <3>1, <3>2, <3>3 DEF CheckKept
  <2> QED
    BY <2>5, <2>4, <2>3, <2>2, <1>7, <1>8, Zenon DEF Md5Inv
<1> QED
  BY <1>10, <1>11

\* A line that is not of a digest.
LEMMA OtherLine ==
  ASSUME Md5Inv, mpc = "next", check = 1, turn <= Len(job.lines), job.lines[turn].kind # "digest",
         turn' = turn + 1,
         UNCHANGED <<at, ctx, ex, mpc, status, job, optind, sp, check, failed, checked, digests>>
  PROVE  Md5Inv'
<1>1. /\ job' = job /\ optind' = optind /\ check' = 1 /\ failed' = failed /\ ex' = ex
      /\ checked' = checked /\ digests' = digests /\ status' = status /\ mpc' = "next"
      /\ at' = at
  OBVIOUS
<1>2. SameJob
  BY <1>1, JobStays
<1>3. Ran
  BY DEF Ran
<1>4. /\ IsJob(job) /\ optind \in 1..(Len(job.argv) + 1) /\ Md5Named
      /\ turn \in Nat \ {0} /\ ex \in {0, 2} /\ digests \in Seq(Replies)
      /\ failed \in Nat /\ checked \in Nat
      /\ at.pos \in Nat /\ at = [name |-> at.name, pos |-> at.pos]
  BY Zenon DEF Md5Inv, Md5Shape
<1>5. job.lines \in Seq(ListLines) /\ Len(job.lines) \in Nat /\ turn \notin Listed
  BY <1>4, JobParts DEF Listed
<1>6. Md5Named'
  BY <1>1, <1>3, <1>4, Zenon DEF Md5Named
<1>7. MainKept'
  BY <1>1 DEF MainKept
<1>8. /\ ex = 0 <=> AllRead(turn)
      /\ failed > 0 <=> SomeChanged(turn)
      /\ checked > 0 <=> SomeRead(turn)
  BY <1>3, Zenon DEF Md5Inv, CheckKept
<1>9. Md5Shape'
  BY <1>1, <1>2, <1>4 DEF Md5Shape, SameJob
<1>10. Md5Begun' /\ Md5Reading'
  BY <1>1 DEF Md5Begun, Md5Reading
<1>11. CheckKept'
  <2>1. (AllRead(turn + 1) <=> AllRead(turn)) /\ (SomeRead(turn + 1) <=> SomeRead(turn))
        /\ (SomeChanged(turn + 1) <=> SomeChanged(turn))
    BY <1>4, <1>5, TurnOn
  <2>2. AllRead(turn)' = AllRead(turn + 1) /\ SomeRead(turn)' = SomeRead(turn + 1)
        /\ SomeChanged(turn)' = SomeChanged(turn + 1)
    BY <1>1, <1>2, Zenon DEF SameJob, AllRead, SomeRead, SomeChanged, Readable, Unchanged
  <2>3. turn + 1 <= Len(job.lines) + 1
    BY <1>4, <1>5
  <2> QED
    BY <1>1, <1>8, <2>1, <2>2, <2>3 DEF CheckKept
<1> QED
  BY <1>6, <1>7, <1>9, <1>10, <1>11, Zenon DEF Md5Inv

\* do_check ends with an error, or with what its counts say.
LEMMA CheckExitKeeps ==
  ASSUME Md5Inv, mpc = "next", check = 1, NEW code \in {0, 1, 2, 3}, Exit(code),
         \/ code = 2
         \/ /\ turn > Len(job.lines)
            /\ code = IF checked = 0 THEN 3 ELSE IF ex = 0 /\ failed > 0 THEN 1 ELSE ex,
         UNCHANGED <<at, ctx, ex, turn, job, optind, sp, check, failed, checked, digests>>
  PROVE  Md5Inv'
<1>1. /\ job' = job /\ optind' = optind /\ check' = 1 /\ failed' = failed /\ ex' = ex
      /\ checked' = checked /\ digests' = digests /\ status' = code /\ mpc' = "end"
      /\ at' = at /\ turn' = turn
  BY DEF Exit
<1>2. SameJob
  BY <1>1, JobStays
<1>3. Ran
  BY DEF Ran
<1>4. /\ IsJob(job) /\ optind \in 1..(Len(job.argv) + 1) /\ Md5Named
      /\ turn \in Nat \ {0} /\ ex \in {0, 2} /\ digests \in Seq(Replies)
      /\ failed \in Nat /\ checked \in Nat
      /\ at.pos \in Nat /\ at = [name |-> at.name, pos |-> at.pos]
  BY Zenon DEF Md5Inv, Md5Shape
<1>5. job.lines \in Seq(ListLines) /\ Len(job.lines) \in Nat
  BY <1>4, JobParts
<1>6. Md5Named'
  BY <1>1, <1>3, <1>4, Zenon DEF Md5Named
<1>7. MainKept'
  BY <1>1 DEF MainKept
<1>8. /\ turn <= Len(job.lines) + 1
      /\ ex = 0 <=> AllRead(turn)
      /\ failed > 0 <=> SomeChanged(turn)
      /\ checked > 0 <=> SomeRead(turn)
  BY <1>3, Zenon DEF Md5Inv, CheckKept
<1>9. Md5Shape'
  BY <1>1, <1>2, <1>4 DEF Md5Shape, SameJob
<1>10. Md5Begun' /\ Md5Reading'
  BY <1>1 DEF Md5Begun, Md5Reading
<1>11. CheckKept'
  <2>1. CASE code = 2
    BY <1>1, <2>1 DEF CheckKept, Ran
  <2>2. CASE /\ turn > Len(job.lines)
             /\ code = IF checked = 0 THEN 3 ELSE IF ex = 0 /\ failed > 0 THEN 1 ELSE ex
    <3>1. turn = Len(job.lines) + 1
      BY <1>4, <1>5, <1>8, <2>2
    <3>2. AllRead(turn)' = AllRead(turn) /\ SomeRead(turn)' = SomeRead(turn)
          /\ SomeChanged(turn)' = SomeChanged(turn)
      BY <1>1, <1>2, Zenon DEF SameJob, AllRead, SomeRead, SomeChanged, Readable, Unchanged
    <3> QED
      BY <1>1, <1>8, <2>2, <3>1, <3>2, Zenon DEF CheckKept
  <2> QED
    BY <2>1, <2>2
<1> QED
  BY <1>6, <1>7, <1>9, <1>10, <1>11, Zenon DEF Md5Inv

LEMMA CheckKeeps == ASSUME Md5Inv, DoCheck PROVE Md5Inv'
<1>1. /\ mpc = "next" /\ check = 1
      /\ UNCHANGED <<job, optind, sp, check, failed, checked, digests>>
  BY Zenon DEF DoCheck
<1>2. job.lines \in Seq(ListLines) /\ Len(job.lines) \in Nat /\ turn \in Nat \ {0} /\ ex \in {0, 2}
  BY JobParts DEF Md5Inv, Md5Shape
<1>3. CASE Exit(2) /\ UNCHANGED <<at, ctx, ex, turn>>
  <2>1. 2 \in {0, 1, 2, 3}
    OBVIOUS
  <2> QED
    BY <1>1, <1>3, <2>1, CheckExitKeeps
<1>4. CASE turn <= Len(job.lines) /\ job.lines[turn].kind = "digest"
           /\ OpenFile(job.lines[turn].name) /\ UNCHANGED status
  <2>1. turn \in Listed
    BY <1>2, <1>4 DEF Listed
  <2> QED
    BY <1>1, <1>4, <2>1, LineOpens
<1>5. CASE turn <= Len(job.lines) /\ job.lines[turn].kind # "digest"
           /\ turn' = turn + 1 /\ UNCHANGED <<at, ctx, ex, mpc>> /\ UNCHANGED status
  BY <1>1, <1>5, OtherLine
<1>6. CASE /\ turn > Len(job.lines)
           /\ Exit(IF checked = 0 THEN 3 ELSE IF ex = 0 /\ failed > 0 THEN 1 ELSE ex)
           /\ UNCHANGED <<at, ctx, ex, turn>>
  <2> DEFINE code == IF checked = 0 THEN 3 ELSE IF ex = 0 /\ failed > 0 THEN 1 ELSE ex
  <2>1. code \in {0, 1, 2, 3} /\ Exit(code)
    BY <1>2, <1>6
  <2>2. turn > Len(job.lines)
        /\ code = IF checked = 0 THEN 3 ELSE IF ex = 0 /\ failed > 0 THEN 1 ELSE ex
    BY <1>6
  <2> HIDE DEF code
  <2> QED
    BY <1>1, <1>6, <2>1, <2>2, CheckExitKeeps
<1> QED
  BY <1>3, <1>4, <1>5, <1>6, Zenon DEF DoCheck

----------------------------------------------------------------------------
(* Reading.                                                               *)

\* Bytes of the file go into the context.
LEMMA MdReadKeeps == ASSUME Md5Inv, MdRead PROVE Md5Inv'
<1> DEFINE D == job.files[at.name].data
           p == at.pos
<1>1. /\ mpc = "read"
      /\ UNCHANGED <<mpc, job, optind, sp, check, turn, ex, failed, checked, digests, status>>
  BY Zenon DEF MdRead
<1>2. SameJob
  BY <1>1, JobStays
<1>3. Ran
  BY <1>1 DEF Ran
<1>4. /\ IsJob(job) /\ optind \in 1..(Len(job.argv) + 1) /\ Md5Named
      /\ turn \in Nat \ {0} /\ ex \in {0, 2} /\ digests \in Seq(Replies)
      /\ failed \in Nat /\ checked \in Nat /\ check \in {0, 1}
      /\ p \in Nat /\ at = [name |-> at.name, pos |-> p]
  BY Zenon DEF Md5Inv, Md5Shape
<1>5. /\ at.name \in DOMAIN job.files /\ p <= Len(D) /\ job.files[at.name].opens
      /\ ContextOf(ctx, D, p)
      /\ check = 0 => turn <= Turns /\ at.name = NameAt(turn)
      /\ check = 1 => turn \in Listed /\ at.name = job.lines[turn].name
  BY <1>1, Zenon DEF Md5Inv, Md5Reading
<1>6. D \in Seq(FileByte)
  BY <1>4, <1>5, JobParts, Zenon
<1>7. PICK n \in 1..FileBuf :
        /\ p + n <= Len(D)
        /\ ctx' = MD5Update(ctx, SubSeq(D, p + 1, p + n))
        /\ at' = [at EXCEPT !.pos = @ + n]
  BY Zenon DEF MdRead
<1>8. n \in Nat
  BY Md5SumAssumption
<1>9. at' = [name |-> at.name, pos |-> p + n] /\ at'.name = at.name /\ at'.pos = p + n
      /\ p + n \in Nat
  <2>1. at' = [name |-> at.name, pos |-> p + n]
    BY <1>4, <1>7
  <2> QED
    BY <2>1, <1>4, <1>8
<1>10. ContextOf(ctx', D, p + n)
  <2>1. p \in Nat /\ n \in Nat /\ p + n <= Len(D) /\ ContextOf(ctx, D, p)
        /\ ctx' = MD5Update(ctx, SubSeq(D, p + 1, p + n))
    BY <1>4, <1>5, <1>7, <1>8
  <2> HIDE DEF D, p
  <2>2. Part(SubSeq(D, p + 1, p + n), FileByte, D, p, p + n)
    BY <1>6, <2>1 DEF Part
  <2>3. p + n \in Nat /\ p <= p + n
    BY <2>1
  <2> QED
    BY <1>6, <2>1, <2>2, <2>3, UpdateKeeps
<1> HIDE DEF p
<1>11. Md5Shape'
  BY <1>1, <1>2, <1>4, <1>9 DEF Md5Shape, SameJob
<1>12. Md5Begun'
  BY <1>1 DEF Md5Begun
<1>13. Md5Named'
  BY <1>1, <1>3, <1>4, Zenon DEF Md5Named
<1>14. Md5Reading'
  <2>1. NameAt(turn)' = NameAt(turn) /\ turn' = turn /\ check' = check /\ job' = job
    BY <1>1, Zenon DEF NameAt, Names
  <2> HIDE DEF D
  <2>2. D' = D
    BY <1>9, <2>1 DEF D
  <2>3. ContextOf(ctx', D, at'.pos) /\ at'.pos <= Len(D)
    BY <1>7, <1>9, <1>10
  <2> QED
    BY <1>2, <1>5, <1>9, <2>1, <2>3, Zenon DEF Md5Reading, SameJob, D
<1>15. MainKept'
  <2>1. Digested' = Digested /\ Turns' = Turns /\ \A k : NameAt(k)' = NameAt(k)
    BY <1>1, <1>2, Zenon DEF Digested, SameJob
  <2>2. {NameAt(k) : k \in 1..(turn - 1)}' = {NameAt(k) : k \in 1..(turn - 1)}
    BY <1>1, <2>1
  <2> QED
    BY <1>1, <1>3, <2>1, <2>2, Zenon DEF Md5Inv, MainKept
<1>16. CheckKept'
  <2>1. AllRead(turn)' = AllRead(turn) /\ SomeRead(turn)' = SomeRead(turn)
        /\ SomeChanged(turn)' = SomeChanged(turn)
    BY <1>1, <1>2, Zenon DEF SameJob, AllRead, SomeRead, SomeChanged, Readable, Unchanged
  <2> QED
    BY <1>1, <1>3, <2>1, Zenon DEF Md5Inv, CheckKept
<1> QED
  BY <1>11, <1>12, <1>13, <1>14, <1>15, <1>16, Zenon DEF Md5Inv

\* A file that was read to its end has the digest of its bytes.
LEMMA DigestIs ==
  ASSUME Md5Inv, mpc = "read", at.pos = Len(job.files[at.name].data)
  PROVE  MD5Final(ctx) = Blocks(job.files[at.name].data)
<1> DEFINE D == job.files[at.name].data
<1>1. at.name \in DOMAIN job.files /\ ContextOf(ctx, D, at.pos) /\ IsJob(job)
  BY Zenon DEF Md5Inv, Md5Reading, Md5Shape
<1>2. D \in Seq(FileByte)
  BY <1>1, JobParts, Zenon
<1>3. at.pos = Len(D)
  OBVIOUS
<1> HIDE DEF D
<1>4. MD5Final(ctx) = Blocks(D)
  BY <1>1, <1>2, <1>3, FinalBlocks
<1> QED
  BY <1>4 DEF D

\* A name's file has been read.
LEMMA NameDone ==
  ASSUME Md5Inv, MdFinal, check = 0
  PROVE  Md5Inv'
<1> DEFINE name == at.name
           f == job.files[name]
<1>1. /\ mpc = "read" /\ at' = NoFile /\ turn' = turn + 1 /\ mpc' = "next"
      /\ UNCHANGED <<job, optind, sp, check, ctx, status>>
  BY Zenon DEF MdFinal
<1>2. SameJob
  BY <1>1, JobStays
<1>3. Ran
  BY <1>1 DEF Ran
<1>4. /\ IsJob(job) /\ optind \in 1..(Len(job.argv) + 1) /\ Md5Named
      /\ turn \in Nat \ {0} /\ ex \in {0, 2} /\ digests \in Seq(Replies)
      /\ failed \in Nat /\ checked \in Nat
  BY Zenon DEF Md5Inv, Md5Shape
<1>5. name \in DOMAIN job.files /\ turn <= Turns /\ name = NameAt(turn)
  BY <1>1, Zenon DEF Md5Inv, Md5Reading
<1>6. Turns \in Nat \ {0}
  BY <1>3, <1>4, NamesThere
<1>7. Md5Named'
  BY <1>1, <1>3, <1>4, Zenon DEF Md5Named
<1>8. Md5Begun' /\ Md5Reading' /\ CheckKept'
  BY <1>1 DEF Md5Begun, Md5Reading, CheckKept
<1>9. at'.pos \in Nat /\ at' = [name |-> at'.name, pos |-> at'.pos]
  BY <1>1 DEF NoFile
<1>10. turn + 1 \in Nat \ {0} /\ turn + 1 <= Turns + 1 /\ (turn + 1) - 1 = turn
  BY <1>4, <1>5, <1>6
<1>11. CASE f.bad
  <2>1. ex' = 2 /\ failed' = failed /\ checked' = checked /\ digests' = digests
    BY <1>11, Zenon DEF MdFinal, Answer
  <2>2. Md5Shape'
    BY <1>1, <1>2, <1>4, <1>9, <1>10, <2>1 DEF Md5Shape, SameJob
  <2>3. MainKept'
    BY <1>1, <1>2, <1>10, <2>1 DEF MainKept, SameJob
  <2> QED
    BY <1>7, <1>8, <2>2, <2>3, Zenon DEF Md5Inv
<1>12. CASE ~f.bad
  <2> DEFINE pair == <<name, Blocks(f.data)>>
  <2>1. at.pos = Len(f.data)
    BY <1>12, Zenon DEF MdFinal
  <2>2. MD5Final(ctx) = Blocks(f.data)
    BY <1>1, <2>1, DigestIs
  <2>3. Answer(f, MD5Final(ctx))
    BY Zenon DEF MdFinal
  <2>4. /\ digests' = Append(digests, pair)
        /\ ex' = ex /\ failed' = failed /\ checked' = checked
    BY <1>12, <2>2, <2>3 DEF Answer
  <2>5. pair \in Replies
    BY <1>5, Zenon DEF Replies
  <2>6. digests' \in Seq(Replies)
    BY <1>4, <2>4, <2>5
  <2>7. Md5Shape'
    BY <1>1, <1>2, <1>4, <1>9, <1>10, <2>4, <2>6 DEF Md5Shape, SameJob
  <2>8. Digested' = Digested \cup {name}
    <3>1. pair[1] = name
      OBVIOUS
    <3> HIDE DEF pair, name, f
    <3> DEFINE m == Len(digests)
    <3>2. /\ Len(digests') = m + 1 /\ digests'[m + 1] = pair /\ m \in Nat
          /\ \A k \in 1..m : digests'[k] = digests[k]
      BY <1>4, <2>4, <2>5
    <3>3. \A k : k \in 1..(m + 1) <=> k \in 1..m \/ k = m + 1
      BY <3>2
    <3> HIDE DEF m
    <3>4. Digested' = {digests'[k][1] : k \in 1..(m + 1)}
      BY <3>2, Zenon DEF Digested
    <3>5. Digested = {digests[k][1] : k \in 1..m}
      BY Zenon DEF Digested, m
    <3>6. ASSUME NEW x PROVE x \in Digested' <=> x \in Digested \/ x = name
      <4>1. x \in Digested' <=> \E k \in 1..(m + 1) : x = digests'[k][1]
        BY <3>4, Zenon
      <4>2. x \in Digested <=> \E k \in 1..m : x = digests[k][1]
        BY <3>5, Zenon
      <4>3. (\E k \in 1..(m + 1) : x = digests'[k][1])
              <=> (\E k \in 1..m : x = digests'[k][1]) \/ x = digests'[m + 1][1]
        BY <3>3, Zenon
      <4>4. (\E k \in 1..m : x = digests'[k][1]) <=> (\E k \in 1..m : x = digests[k][1])
        BY <3>2, Zenon
      <4> QED
        BY <3>1, <3>2, <4>1, <4>2, <4>3, <4>4, Zenon
    <3> QED
      BY <3>6, Zenon
  <2>9. {NameAt(k) : k \in 1..(turn - 1)}' = {NameAt(k) : k \in 1..(turn - 1)} \cup {name}
    <3>1. \A k : NameAt(k)' = NameAt(k)
      BY <1>2, Zenon DEF SameJob
    <3>2. {NameAt(k) : k \in 1..(turn - 1)}' = {NameAt(k) : k \in 1..turn}
      BY <1>1, <1>10, <3>1
    <3>3. \A k : k \in 1..turn <=> k \in 1..(turn - 1) \/ k = turn
      BY <1>4
    <3> HIDE DEF name
    <3> QED
      BY <1>5, <3>2, <3>3, Zenon
  <2>10. MainKept'
    <3>1. ex = 0 => Digested = {NameAt(k) : k \in 1..(turn - 1)}
      BY <1>3 DEF Md5Inv, MainKept
    <3>2. ex' = 0 => Digested' = {NameAt(k) : k \in 1..(turn - 1)}'
      BY <2>4, <2>8, <2>9, <3>1, Zenon
    <3>3. turn' <= Turns' + 1 /\ mpc' # "end"
      BY <1>1, <1>2, <1>10 DEF SameJob
    <3> QED
      BY <3>2, <3>3, Zenon DEF MainKept
  <2> QED
    BY <1>7, <1>8, <2>7, <2>10, Zenon DEF Md5Inv
<1> QED
  BY <1>11, <1>12

\* A listed file has been read.
LEMMA LineDone ==
  ASSUME Md5Inv, MdFinal, check = 1
  PROVE  Md5Inv'
<1> DEFINE name == at.name
           f == job.files[name]
<1>1. /\ mpc = "read" /\ at' = NoFile /\ turn' = turn + 1 /\ mpc' = "next"
      /\ UNCHANGED <<job, optind, sp, check, ctx, status>>
  BY Zenon DEF MdFinal
<1>2. SameJob
  BY <1>1, JobStays
<1>3. Ran
  BY <1>1 DEF Ran
<1>4. /\ IsJob(job) /\ optind \in 1..(Len(job.argv) + 1) /\ Md5Named
      /\ turn \in Nat \ {0} /\ ex \in {0, 2} /\ digests \in Seq(Replies)
      /\ failed \in Nat /\ checked \in Nat
  BY Zenon DEF Md5Inv, Md5Shape
<1>5. name \in DOMAIN job.files /\ turn \in Listed /\ name = job.lines[turn].name /\ f.opens
  BY <1>1, Zenon DEF Md5Inv, Md5Reading
<1>6. /\ job.lines \in Seq(ListLines) /\ turn \in 1..Len(job.lines)
      /\ f.data \in Seq(FileByte) /\ job.lines[turn].was \in Seq(FileByte) /\ f.bad \in BOOLEAN
  BY <1>4, <1>5, JobParts, Zenon
<1>7. Md5Named'
  BY <1>1, <1>3, <1>4, Zenon DEF Md5Named
<1>8. Md5Begun' /\ Md5Reading' /\ MainKept'
  BY <1>1 DEF Md5Begun, Md5Reading, MainKept
<1>9. at'.pos \in Nat /\ at' = [name |-> at'.name, pos |-> at'.pos]
  BY <1>1 DEF NoFile
<1>10. turn + 1 \in Nat \ {0} /\ turn + 1 <= Len(job.lines) + 1
  BY <1>4, <1>6
<1>11. /\ ex = 0 <=> AllRead(turn)
       /\ failed > 0 <=> SomeChanged(turn)
       /\ checked > 0 <=> SomeRead(turn)
  BY <1>3, Zenon DEF Md5Inv, CheckKept
<1>12. AllRead(turn)' = AllRead(turn + 1) /\ SomeRead(turn)' = SomeRead(turn + 1)
       /\ SomeChanged(turn)' = SomeChanged(turn + 1)
  BY <1>1, <1>2, Zenon DEF SameJob, AllRead, SomeRead, SomeChanged, Readable, Unchanged
<1>13. /\ AllRead(turn + 1) <=> AllRead(turn) /\ Readable(turn)
       /\ SomeRead(turn + 1) <=> SomeRead(turn) \/ Readable(turn)
       /\ SomeChanged(turn + 1) <=> SomeChanged(turn) \/ (Readable(turn) /\ ~Unchanged(turn))
  BY <1>4, <1>5, <1>6, TurnOn, Zenon
<1>14. Readable(turn) <=> ~f.bad
  BY <1>5, Zenon DEF Readable
<1>15. CASE f.bad
  <2>1. ex' = 2 /\ failed' = failed /\ checked' = checked /\ digests' = digests
    BY <1>15, Zenon DEF MdFinal, Answer
  <2>2. Md5Shape'
    BY <1>1, <1>2, <1>4, <1>9, <1>10, <2>1 DEF Md5Shape, SameJob
  <2>3. CheckKept'
    <3>1. ~AllRead(turn)' /\ (SomeRead(turn)' <=> checked > 0) /\ (SomeChanged(turn)' <=> failed > 0)
      BY <1>11, <1>12, <1>13, <1>14, <1>15, Zenon
    <3>2. turn' <= Len(job'.lines) + 1 /\ mpc' # "end" /\ 2 # 0
      BY <1>1, <1>10
    <3> QED
      BY <2>1, <3>1, <3>2, Zenon DEF CheckKept
  <2> QED
    BY <1>7, <1>8, <2>2, <2>3, Zenon DEF Md5Inv
<1>16. CASE ~f.bad
  <2> DEFINE was == job.lines[turn].was
  <2>1. at.pos = Len(f.data)
    BY <1>16, Zenon DEF MdFinal
  <2>2. MD5Final(ctx) = Blocks(f.data)
    BY <1>1, <2>1, DigestIs
  <2>3. Answer(f, MD5Final(ctx))
    BY Zenon DEF MdFinal
  <2>4. /\ failed' = IF Blocks(f.data) # Blocks(was) THEN failed + 1 ELSE failed
        /\ checked' = checked + 1 /\ ex' = ex /\ digests' = digests
    BY <1>16, <2>2, <2>3 DEF Answer
  <2>5. Blocks(f.data) = Blocks(was) <=> Unchanged(turn)
    <3>1. Unchanged(turn) <=> f.data = was
      BY <1>5, Zenon DEF Unchanged
    <3>2. f.data = was => Blocks(f.data) = Blocks(was)
      OBVIOUS
    <3>3. Blocks(f.data) = Blocks(was) => f.data = was
      BY <1>6, BlocksTell, Zenon
    <3> QED
      BY <3>1, <3>2, <3>3, Zenon
  <2> HIDE DEF was, f, name
  <2>6. failed' = (IF Unchanged(turn) THEN failed ELSE failed + 1)
    BY <2>4, <2>5
  <2>7. failed' \in Nat /\ checked' \in Nat /\ checked' > 0
        /\ (failed' > 0 <=> failed > 0 \/ ~Unchanged(turn))
    BY <1>4, <2>4, <2>6
  <2>8. Md5Shape'
    BY <1>1, <1>2, <1>4, <1>9, <1>10, <2>4, <2>7 DEF Md5Shape, SameJob
  <2>9. CheckKept'
    <3>1. /\ AllRead(turn)' <=> ex = 0
          /\ SomeRead(turn)'
          /\ SomeChanged(turn)' <=> failed' > 0
      BY <1>11, <1>12, <1>13, <1>14, <1>16, <2>7, Zenon
    <3>2. turn' <= Len(job'.lines) + 1 /\ mpc' # "end"
      BY <1>1, <1>10
    <3> QED
      BY <2>4, <2>7, <3>1, <3>2, Zenon DEF CheckKept
  <2> QED
    BY <1>7, <1>8, <2>8, <2>9, Zenon DEF Md5Inv
<1> QED
  BY <1>15, <1>16

LEMMA Md5Keeps == ASSUME Md5Inv, [Md5Next]_md5Vars PROVE Md5Inv'
<1>1. CASE Md5Next
  <2>1. check \in {0, 1}
    BY DEF Md5Inv, Md5Shape
  <2>2. CASE MdFinal
    BY <2>1, <2>2, NameDone, LineDone
  <2> QED
    BY <1>1, <2>2, GetoptKeeps, MainKeeps, CheckKeeps, MdReadKeeps, Zenon DEF Md5Next
<1>2. CASE UNCHANGED md5Vars
  <2>1. /\ UNCHANGED <<mpc, job, optind, sp, check, ctx, at, turn, ex, failed, checked, digests,
                       status>>
    BY <1>2 DEF md5Vars
  <2>2. Replies' = Replies /\ Listed' = Listed /\ Names' = Names /\ (Ran' <=> Ran)
    BY <2>1, Zenon DEF Replies, Listed, Names, Ran
  <2>3. Md5Shape' /\ Md5Begun' /\ Md5Named'
    BY <2>1, <2>2 DEF Md5Inv, Md5Shape, Md5Begun, Md5Named
  <2>4. Turns' = Turns /\ (\A k : NameAt(k)' = NameAt(k)) /\ Digested' = Digested
    BY <2>1, <2>2, Zenon DEF Turns, NameAt, Digested
  <2>5. Md5Reading'
    <3>1. NameAt(turn)' = NameAt(turn)
      BY <2>1, <2>2, Zenon DEF NameAt
    <3> QED
      BY <2>1, <2>2, <2>4, <3>1, Zenon DEF Md5Inv, Md5Reading
  <2>6. MainKept'
    <3>1. {NameAt(k) : k \in 1..(turn - 1)}' = {NameAt(k) : k \in 1..(turn - 1)}
      BY <2>1, <2>4
    <3> QED
      BY <2>1, <2>2, <2>4, <3>1, Zenon DEF Md5Inv, MainKept
  <2>7. CheckKept'
    <3>1. AllRead(turn)' = AllRead(turn) /\ SomeRead(turn)' = SomeRead(turn)
          /\ SomeChanged(turn)' = SomeChanged(turn)
      BY <2>1, <2>2, Zenon DEF AllRead, SomeRead, SomeChanged, Readable, Unchanged
    <3> QED
      BY <2>1, <2>2, <3>1, Zenon DEF Md5Inv, CheckKept
  <2> QED
    BY <2>3, <2>5, <2>6, <2>7, Zenon DEF Md5Inv
<1> QED
  BY <1>1, <1>2

----------------------------------------------------------------------------
(* What the invariant is for.                                             *)

LEMMA Md5Starts == ASSUME NEW jobs, \A j \in jobs : IsJob(j), Md5Init(jobs) PROVE Md5Inv
<1>1. /\ mpc = "getopt" /\ IsJob(job) /\ optind = 1 /\ check = 0 /\ at = NoFile /\ turn = 1
      /\ ex = 0 /\ failed = 0 /\ checked = 0 /\ digests = <<>>
  BY Zenon DEF Md5Init
<1>2. Len(job.argv) \in Nat
  BY <1>1, JobParts
<1>3. Md5Shape
  BY <1>1, <1>2 DEF Md5Shape, NoFile
<1>4. Md5Begun
  BY <1>1, Zenon DEF Md5Begun
<1>5. ~Ran /\ mpc # "read"
  BY <1>1 DEF Ran
<1> QED
  BY <1>3, <1>4, <1>5, Zenon DEF Md5Inv, Md5Named, Md5Reading, MainKept, CheckKept

\* The context says what the property asks of it.
LEMMA PartSaid == ASSUME Md5Inv PROVE ContextOfPart
<1> SUFFICES ASSUME mpc = "read"
             PROVE  /\ ctx.high * WordMod + ctx.low = 8 * at.pos
                    /\ Len(ctx.blocks) = at.pos \div BlockBytes
                    /\ \A k \in 1..(at.pos % BlockBytes) :
                         ctx.in[k] = job.files[at.name].data[(at.pos \div BlockBytes) * BlockBytes + k]
  BY Zenon DEF ContextOfPart
<1> DEFINE D == job.files[at.name].data
           n == at.pos
           l == (8 * n) % WordMod
           h == (8 * n) \div WordMod
<1>1. n \in Nat /\ ContextOf(ctx, D, n)
  BY Zenon DEF Md5Inv, Md5Shape, Md5Reading
<1> HIDE DEF D, n
<1>2. PICK i : Waits(i, D, n) /\ ctx = Context(l, h, i, FullBlocks(D, n \div BlockBytes))
  BY <1>1, Zenon DEF ContextOf, Holds
<1>3. /\ ctx.low = l /\ ctx.high = h /\ ctx.in = i
      /\ ctx.blocks = FullBlocks(D, n \div BlockBytes)
  BY <1>2, ContextFields
<1>4. h * WordMod + l = 8 * n
  <2>1. 8 * n \in Nat /\ WordMod \in Nat \ {0}
    BY <1>1, Md5Assumption
  <2> DEFINE m == 8 * n
  <2> HIDE DEF m
  <2>2. m = (m \div WordMod) * WordMod + (m % WordMod)
    BY <2>1, WholeAndRest DEF m
  <2> QED
    BY <2>2 DEF m
<1>5. n \div BlockBytes \in Nat
  BY <1>1, Md5Assumption
<1>6. Len(FullBlocks(D, n \div BlockBytes)) = n \div BlockBytes
  <2> DEFINE q == n \div BlockBytes
  <2> HIDE DEF q
  <2>1. q \in Nat
    BY <1>5 DEF q
  <2>2. Len(FullBlocks(D, q)) = q
    BY <2>1 DEF FullBlocks
  <2> QED
    BY <2>2 DEF q
<1>7. \A k \in 1..(n % BlockBytes) : i[k] = D[(n \div BlockBytes) * BlockBytes + k]
  BY <1>2, Zenon DEF Waits
<1> HIDE DEF l, h
<1>8. /\ ctx.high * WordMod + ctx.low = 8 * n
      /\ Len(ctx.blocks) = n \div BlockBytes
      /\ \A k \in 1..(n % BlockBytes) : ctx.in[k] = D[(n \div BlockBytes) * BlockBytes + k]
  BY <1>3, <1>4, <1>6, <1>7, Zenon
<1> QED
  BY <1>8, Zenon DEF D, n

LEMMA Md5InvTells == ASSUME Md5Inv PROVE DigestTrue
<1>1. IsJob(job) /\ digests \in Seq(Replies) /\ optind \in 1..(Len(job.argv) + 1) /\ turn \in Nat \ {0}
      /\ failed \in Nat /\ checked \in Nat /\ ex \in {0, 2}
  BY Zenon DEF Md5Inv, Md5Shape
<1>2. \A k \in 1..Len(digests) : digests[k][2] = Blocks(job.files[digests[k][1]].data)
  <2>1. ASSUME NEW k \in 1..Len(digests)
        PROVE  digests[k][2] = Blocks(job.files[digests[k][1]].data)
    <3>1. digests[k] \in Replies
      BY <1>1
    <3>2. PICK n \in DOMAIN job.files : digests[k] = <<n, Blocks(job.files[n].data)>>
      BY <3>1, Zenon DEF Replies
    <3>3. digests[k][1] = n /\ digests[k][2] = Blocks(job.files[n].data)
      BY <3>2
    <3> QED
      BY <3>3, Zenon
  <2> QED
    BY <2>1
<1>3. ASSUME mpc = "end", check = 1, status # 2
      PROVE  /\ status = 0 <=> (Listed # {} /\ \A k \in Listed : Readable(k) /\ Unchanged(k))
             /\ status = 1 => \E k \in Listed : Readable(k) /\ ~Unchanged(k)
             /\ status = 3 => \A k \in Listed : ~Readable(k)
  <2>1. /\ turn = Len(job.lines) + 1
        /\ ex = 0 <=> AllRead(turn)
        /\ failed > 0 <=> SomeChanged(turn)
        /\ checked > 0 <=> SomeRead(turn)
        /\ status = IF checked = 0 THEN 3 ELSE IF ex = 0 /\ failed > 0 THEN 1 ELSE ex
    BY <1>3, Zenon DEF Md5Inv, CheckKept, Ran
  <2>2. \A k \in Listed : k < turn
    <3>1. job.lines \in Seq(ListLines)
      BY <1>1, JobParts
    <3> QED
      BY <2>1, <3>1 DEF Listed
  <2>3. /\ ex = 0 <=> \A k \in Listed : Readable(k)
        /\ failed > 0 <=> \E k \in Listed : Readable(k) /\ ~Unchanged(k)
        /\ checked > 0 <=> \E k \in Listed : Readable(k)
    BY <2>1, <2>2, Zenon DEF AllRead, SomeChanged, SomeRead
  <2>4. /\ status = 0 <=> checked > 0 /\ ex = 0 /\ ~(failed > 0)
        /\ status = 1 => failed > 0
        /\ status = 3 => ~(checked > 0)
    BY <1>1, <1>3, <2>1
  <2> QED
    BY <2>3, <2>4, Zenon
<1>4. ASSUME mpc = "end", check = 0, status = 0
      PROVE  {digests[k][1] : k \in 1..Len(digests)}
               = IF Len(Names) = 0 THEN {"stdin"} ELSE {Names[k].name : k \in 1..Len(Names)}
  <2>1. Ran
    BY <1>4 DEF Ran
  <2>2. turn = Turns + 1 /\ Digested = {NameAt(k) : k \in 1..(turn - 1)}
    BY <1>4, <2>1, Zenon DEF Md5Inv, MainKept
  <2>3. Turns \in Nat \ {0}
    BY <1>1, <2>1, NamesThere DEF Md5Inv
  <2>4. Digested = {NameAt(k) : k \in 1..Turns}
    <3>1. turn - 1 = Turns
      BY <2>2, <2>3
    <3> QED
      BY <2>2, <3>1
  <2>5. CASE Len(Names) = 0
    <3>1. Turns = 1 /\ \A k : NameAt(k) = "stdin"
      BY <2>5, Zenon DEF Turns, NameAt
    <3>2. {NameAt(k) : k \in 1..1} = {"stdin"}
      BY <3>1
    <3> QED
      BY <2>4, <2>5, <3>1, <3>2, Zenon DEF Digested
  <2>6. CASE Len(Names) # 0
    <3>1. Turns = Len(Names) /\ \A k : NameAt(k) = Names[k].name
      BY <2>6, Zenon DEF Turns, NameAt
    <3>2. Digested = {Names[k].name : k \in 1..Len(Names)}
      BY <2>4, <3>1, Zenon
    <3> QED
      BY <2>6, <3>2, Zenon DEF Digested
  <2> QED
    BY <2>5, <2>6
<1>5. ContextOfPart
  BY PartSaid
<1> QED
  BY <1>2, <1>3, <1>4, <1>5, Zenon DEF DigestTrue

----------------------------------------------------------------------------
(* tftp: the request is what the command line asks for.                    *)

\* Of the first n arguments, none has one of these letters, or i is the last that has.
NoneOf(letters, n) == \A k \in 1..n : argv[k].opt \notin letters
LastOne(letters, n, i) ==
  /\ i \in 1..n /\ argv[i].opt \in letters
  /\ \A k \in 1..n : argv[k].opt \in letters => k <= i

\* What the first n arguments say of each of the things there are options for.
RemoteSeen(n) ==
  \/ NoneOf({"word"}, n) /\ remote = <<>>
  \/ \E i \in 1..n : /\ argv[i].opt = "word" /\ remote = argv[i].word
                     /\ \A k \in 1..n : argv[k].opt = "word" => i <= k
OpcodeSeen(n) ==
  \/ NoneOf({"r", "s"}, n) /\ opcode = "r"
  \/ \E i : LastOne({"r", "s"}, n, i) /\ opcode = argv[i].opt
ModeSeen(n) ==
  \/ NoneOf({"8", "a", "b", "m"}, n) /\ mode = "b"
  \/ \E i : /\ LastOne({"8", "a", "b", "m"}, n, i)
            /\ mode = IF argv[i].opt = "8" THEN "b" ELSE argv[i].opt
NumberSeen(letter, n, plain, v) ==
  \/ NoneOf({letter}, n) /\ v = plain
  \/ \E i : LastOne({letter}, n, i) /\ v = argv[i].num
SizeSeen(n, v) ==
  \/ NoneOf({"S"}, n) /\ v = -1
  \/ \E i : LastOne({"S"}, n, i) /\ v = 0

\* All of them, with time-out t and size s.
LineSeen(n, t, s) ==
  /\ RemoteSeen(n) /\ OpcodeSeen(n) /\ ModeSeen(n)
  /\ NumberSeen("B", n, 512, optB) /\ NumberSeen("T", n, 0, t) /\ SizeSeen(n, s)

\* An argument more: it has one of the letters and is the last, or it changes nothing.
LEMMA OneMore ==
  ASSUME NEW n \in Nat, NEW letters
  PROVE  /\ NoneOf(letters, 0)
         /\ argv[n + 1].opt \in letters => LastOne(letters, n + 1, n + 1)
         /\ argv[n + 1].opt \notin letters =>
              /\ NoneOf(letters, n) => NoneOf(letters, n + 1)
              /\ \A i : LastOne(letters, n, i) => LastOne(letters, n + 1, i)
<1>1. \A k \in 1..(n + 1) : k \in 1..n \/ k = n + 1
  OBVIOUS
<1>2. n + 1 \in 1..(n + 1) /\ 1..n \subseteq 1..(n + 1)
  OBVIOUS
<1>3. NoneOf(letters, 0)
  BY DEF NoneOf
<1>4. ASSUME argv[n + 1].opt \in letters PROVE LastOne(letters, n + 1, n + 1)
  BY <1>2, <1>4 DEF LastOne
<1>5. ASSUME argv[n + 1].opt \notin letters, NoneOf(letters, n) PROVE NoneOf(letters, n + 1)
  BY <1>1, <1>5 DEF NoneOf
<1>6. ASSUME argv[n + 1].opt \notin letters, NEW i, LastOne(letters, n, i)
      PROVE  LastOne(letters, n + 1, i)
  BY <1>1, <1>2, <1>6 DEF LastOne
<1> QED
  BY <1>3, <1>4, <1>5, <1>6

\* para() keeps what it has seen.
LEMMA ParaSees ==
  ASSUME IsLine(argv), argi \in Nat, LineSeen(argi, optT, optS),
         optB \in Nat, optT \in Nat, Para
  PROVE  /\ LineSeen(argi, optT, optS)' /\ argi' = argi + 1 /\ argi' \in 0..Len(argv')
         /\ optB' \in Nat /\ optT' \in Nat
<1>0. PICK n \in Nat : n = argi
  OBVIOUS
<1>1. /\ argi = n /\ n + 1 \in 1..Len(argv) /\ argi' = n + 1 /\ argv' = argv
      /\ n < Len(argv) /\ Len(argv) \in Nat
  BY <1>0, LenProperties DEF Para, IsLine
<1>2. Arg = argv[n + 1] /\ Arg.opt \in STRING /\ Arg.num \in Nat
  <2>1. argv[n + 1] \in [opt : STRING, num : Nat, word : Seq(STRING)]
    BY <1>1, ElementOfSeq, Zenon DEF IsLine
  <2> QED
    BY <1>1, <2>1 DEF Arg
<1>3. \A letters, k, i : NoneOf(letters, k)' = NoneOf(letters, k)
                         /\ LastOne(letters, k, i)' = LastOne(letters, k, i)
  BY <1>1 DEF NoneOf, LastOne
<1>4. Word \/ Switch
  BY DEF Para
<1>5. RemoteSeen(n + 1)'
  <2>1. \A k \in 1..(n + 1) : k \in 1..n \/ k = n + 1
    BY <1>1
  <2>2. CASE Arg.opt = "word" /\ remote = <<>>
    <3>1. NoneOf({"word"}, n)
      <4>1. ASSUME NEW i \in 1..n, argv[i].opt = "word", remote = argv[i].word PROVE FALSE
        BY <1>1, <2>2, <4>1, SMTT(40) DEF IsLine
      <4> QED
        BY <1>0, <2>2, <4>1 DEF LineSeen, RemoteSeen
    <3>2. remote' = argv[n + 1].word
      BY <1>2, <1>4, <2>2 DEF Word, Switch
    <3>3. \A k \in 1..(n + 1) : argv[k].opt = "word" => n + 1 <= k
      BY <1>1, <2>1, <3>1 DEF NoneOf
    <3>4. /\ n + 1 \in 1..(n + 1) /\ argv'[n + 1].opt = "word" /\ remote' = argv'[n + 1].word
          /\ \A k \in 1..(n + 1) : argv'[k].opt = "word" => n + 1 <= k
      BY <1>1, <1>2, <2>2, <3>2, <3>3
    <3> QED
      BY <3>4, Zenon DEF RemoteSeen
  <2>3. CASE Arg.opt # "word" \/ remote # <<>>
    <3>1. remote' = remote
      BY <1>4, <2>3 DEF Word, Switch
    <3>2. CASE remote = <<>>
      <4>1. NoneOf({"word"}, n)
        <5>1. ASSUME NEW i \in 1..n, argv[i].opt = "word", remote = argv[i].word PROVE FALSE
          BY <1>1, <3>2, <5>1, SMTT(40) DEF IsLine
        <5> QED
          BY <1>0, <3>2, <5>1 DEF LineSeen, RemoteSeen
      <4>2. NoneOf({"word"}, n + 1)
        BY <1>1, <1>2, <2>3, <3>2, <4>1, OneMore
      <4> QED
        BY <1>3, <3>1, <3>2, <4>2 DEF RemoteSeen
    <3>3. CASE remote # <<>>
      <4>1. PICK i \in 1..n : /\ argv[i].opt = "word" /\ remote = argv[i].word
                              /\ \A k \in 1..n : argv[k].opt = "word" => i <= k
        BY <1>0, <3>3 DEF LineSeen, RemoteSeen
      <4>2. i \in 1..(n + 1) /\ i <= n + 1
        BY <1>1
      <4>3. \A k \in 1..(n + 1) : argv[k].opt = "word" => i <= k
        BY <2>1, <4>1, <4>2
      <4>4. /\ argv'[i].opt = "word" /\ remote' = argv'[i].word
            /\ \A k \in 1..(n + 1) : argv'[k].opt = "word" => i <= k
        BY <1>1, <3>1, <4>1, <4>3
      <4> QED
        BY <4>2, <4>4, Zenon DEF RemoteSeen
    <3> QED
      BY <3>2, <3>3
  <2> QED
    BY <2>2, <2>3
<1>6. OpcodeSeen(n + 1)'
  <2>1. OpcodeSeen(n)
    BY <1>0 DEF LineSeen
  <2>2. CASE argv[n + 1].opt \in {"r", "s"}
    <3>1. opcode' = argv[n + 1].opt /\ LastOne({"r", "s"}, n + 1, n + 1)
      BY <1>1, <1>2, <1>4, <2>2, OneMore DEF Word, Switch
    <3> QED
      BY <1>1, <1>3, <3>1 DEF OpcodeSeen
  <2>3. CASE argv[n + 1].opt \notin {"r", "s"}
    <3>1. opcode' = opcode
      BY <1>2, <1>4, <2>3 DEF Word, Switch
    <3> QED
      BY <1>1, <1>3, <2>1, <2>3, <3>1, OneMore DEF OpcodeSeen
  <2> QED
    BY <2>2, <2>3
<1>7. ModeSeen(n + 1)'
  <2> DEFINE modes == {"8", "a", "b", "m"}
  <2>1. ModeSeen(n)
    BY <1>0 DEF LineSeen
  <2>2. CASE argv[n + 1].opt \in modes
    <3>1. mode' = (IF argv[n + 1].opt = "8" THEN "b" ELSE argv[n + 1].opt)
      BY <1>2, <1>4, <2>2 DEF Word, Switch
    <3>2. LastOne(modes, n + 1, n + 1)
      BY <1>1, <2>2, OneMore
    <3> QED
      BY <1>1, <1>3, <3>1, <3>2 DEF ModeSeen
  <2>3. CASE argv[n + 1].opt \notin modes
    <3>1. mode' = mode
      BY <1>2, <1>4, <2>3 DEF Word, Switch
    <3> QED
      BY <1>1, <1>3, <2>1, <2>3, <3>1, OneMore DEF ModeSeen
  <2> QED
    BY <2>2, <2>3
<1>8. NumberSeen("B", n + 1, 512, optB)' /\ NumberSeen("T", n + 1, 0, optT)' /\ optB' \in Nat /\ optT' \in Nat
  <2>1. NumberSeen("B", n, 512, optB) /\ NumberSeen("T", n, 0, optT)
    BY <1>0 DEF LineSeen
  <2>2. /\ optB' = (IF Arg.opt = "B" THEN Arg.num ELSE optB)
        /\ optT' = (IF Arg.opt = "T" THEN Arg.num ELSE optT)
    BY <1>2, <1>4 DEF Word, Switch
  <2>3. NumberSeen("B", n + 1, 512, optB)'
    <3>1. CASE argv[n + 1].opt = "B"
      <4>1. LastOne({"B"}, n + 1, n + 1) /\ optB' = argv[n + 1].num
        BY <1>1, <1>2, <2>2, <3>1, OneMore
      <4> QED
        BY <1>1, <1>3, <4>1 DEF NumberSeen
    <3>2. CASE argv[n + 1].opt # "B"
      <4>1. optB' = optB /\ argv[n + 1].opt \notin {"B"}
        BY <1>2, <2>2, <3>2
      <4> QED
        BY <1>1, <1>3, <2>1, <4>1, OneMore DEF NumberSeen
    <3> QED
      BY <3>1, <3>2
  <2>4. NumberSeen("T", n + 1, 0, optT)'
    <3>1. CASE argv[n + 1].opt = "T"
      <4>1. LastOne({"T"}, n + 1, n + 1) /\ optT' = argv[n + 1].num
        BY <1>1, <1>2, <2>2, <3>1, OneMore
      <4> QED
        BY <1>1, <1>3, <4>1 DEF NumberSeen
    <3>2. CASE argv[n + 1].opt # "T"
      <4>1. optT' = optT /\ argv[n + 1].opt \notin {"T"}
        BY <1>2, <2>2, <3>2
      <4> QED
        BY <1>1, <1>3, <2>1, <4>1, OneMore DEF NumberSeen
    <3> QED
      BY <3>1, <3>2
  <2> QED
    BY <1>2, <2>2, <2>3, <2>4
<1>9. SizeSeen(n + 1, optS)'
  <2>1. SizeSeen(n, optS)
    BY <1>0 DEF LineSeen
  <2>2. optS' = IF Arg.opt = "S" THEN 0 ELSE optS
    BY <1>2, <1>4 DEF Word, Switch
  <2>3. CASE argv[n + 1].opt = "S"
    <3>1. LastOne({"S"}, n + 1, n + 1) /\ optS' = 0
      BY <1>1, <1>2, <2>2, <2>3, OneMore
    <3> QED
      BY <1>1, <1>3, <3>1 DEF SizeSeen
  <2>4. CASE argv[n + 1].opt # "S"
    <3>1. optS' = optS /\ argv[n + 1].opt \notin {"S"}
      BY <1>2, <2>2, <2>4
    <3> QED
      BY <1>1, <1>3, <2>1, <3>1, OneMore DEF SizeSeen
  <2> QED
    BY <2>3, <2>4
<1>10. LineSeen(n + 1, optT, optS)'
  BY <1>5, <1>6, <1>7, <1>8, <1>9 DEF LineSeen
<1> QED
  BY <1>1, <1>8, <1>10

\* A sequence, of whatever.
IsSequence(s) == \E S : s \in Seq(S)

\* What two sequences make, whatever their elements are.
Joins(t, s, u) ==
  /\ IsSequence(t) /\ Len(s) \in Nat /\ Len(u) \in Nat /\ Len(t) = Len(s) + Len(u)
  /\ \A k \in 1..Len(s) : t[k] = s[k]
  /\ \A k \in 1..Len(u) : t[Len(s) + k] = u[k]

LEMMA JoiningMakes ==
  ASSUME NEW s, IsSequence(s), NEW u, IsSequence(u)
  PROVE  Joins(s \o u, s, u)
<1>1. PICK S : s \in Seq(S)
  BY DEF IsSequence
<1>2. PICK U : u \in Seq(U)
  BY DEF IsSequence
<1> DEFINE T == S \cup U
<1>3. s \in Seq(T)
  BY <1>1, ElementOfSeq, SeqDef, LenProperties
<1>4. u \in Seq(T)
  BY <1>2, ElementOfSeq, SeqDef, LenProperties
<1>5. s \o u \in Seq(T)
  BY <1>3, <1>4
<1> HIDE DEF T
<1>6. /\ Len(s) \in Nat /\ Len(u) \in Nat /\ Len(s \o u) = Len(s) + Len(u)
      /\ \A k \in 1..Len(s) : (s \o u)[k] = s[k]
      /\ \A k \in 1..Len(u) : (s \o u)[Len(s) + k] = u[k]
  BY <1>3, <1>4
<1> QED
  BY <1>5, <1>6 DEF IsSequence, Joins

\* Two cells are a sequence.
LEMMA TwoCells ==
  ASSUME NEW a, NEW b
  PROVE  /\ IsSequence(<<a, b>>) /\ Len(<<a, b>>) = 2
         /\ <<a, b>>[1] = a /\ <<a, b>>[2] = b
<1>1. <<a, b>> \in Seq({a, b})
  OBVIOUS
<1> QED
  BY <1>1 DEF IsSequence

\* What a request asks for, as the server reads it: m options behind two names.
AskedIn(s) ==
  {<<s[2 * i][2], s[2 * i + 2][2]>> : i \in {k \in 3..((Len(s) - 1) \div 2) : k % 2 = 1}}
IsRequest(s, m) == IsSequence(s) /\ m \in Nat /\ Len(s) = 4 * m + 5

\* A request for one file, number and mode, without options, and one that asks for more.
IsHead(s, number, name, way) ==
  /\ IsRequest(s, 0) /\ AskedIn(s) = {}
  /\ s[1] = number /\ s[2][2] = name /\ s[4][2] = way
AsksMore(t, s, m, more) ==
  /\ IsRequest(t, m) /\ AskedIn(t) = AskedIn(s) \cup more
  /\ t[1] = s[1] /\ t[2] = s[2] /\ t[4] = s[4]

\* The names and the number of the request.
LEMMA HeadAsked ==
  ASSUME NEW a, NEW b, NEW c
  PROVE  IsHead(<<a>> \o Strpcpy(Text(b)) \o Strpcpy(Text(c)), a, b, c)
<1> DEFINE one == <<a>>
           two == <<Text(b), Nul>>
           three == <<Text(c), Nul>>
           s == (one \o two) \o three
<1>1. IsSequence(one) /\ Len(one) = 1 /\ one[1] = a
  <2>1. one \in Seq({a})
    OBVIOUS
  <2> QED
    BY <2>1 DEF IsSequence
<1>2. /\ IsSequence(two) /\ Len(two) = 2 /\ two[1] = Text(b)
      /\ IsSequence(three) /\ Len(three) = 2 /\ three[1] = Text(c)
  BY TwoCells
<1> HIDE DEF one, two, three
<1>3. /\ IsSequence(one \o two) /\ Len(one \o two) = 3
      /\ (one \o two)[1] = a /\ (one \o two)[2] = Text(b)
  <2> DEFINE c3 == one \o two
  <2>1. Joins(c3, one, two)
    BY <1>1, <1>2, JoiningMakes, Zenon
  <2> HIDE DEF c3
  <2>2. c3[1] = one[1] /\ c3[1 + 1] = two[1]
    BY <1>1, <1>2, <2>1 DEF Joins
  <2>3. IsSequence(c3) /\ Len(c3) = 3 /\ c3[1] = a /\ c3[2] = Text(b)
    BY <1>1, <1>2, <2>1, <2>2 DEF Joins
  <2> QED
    BY <2>3, Zenon DEF c3
<1>4. IsSequence(s) /\ Len(s) = 5 /\ s[1] = a /\ s[2] = Text(b) /\ s[4] = Text(c)
  <2> DEFINE c3 == one \o two
  <2>1. Joins(s, c3, three)
    BY <1>2, <1>3, JoiningMakes, Zenon
  <2>2. /\ IsSequence(c3) /\ Len(c3) = 3 /\ c3[1] = a /\ c3[2] = Text(b)
    BY <1>3, Zenon
  <2> HIDE DEF s, c3
  <2>3. s[1] = c3[1] /\ s[2] = c3[2] /\ s[3 + 1] = three[1]
    BY <1>2, <2>1, <2>2 DEF Joins
  <2> QED
    BY <1>2, <2>1, <2>2, <2>3 DEF Joins
<1>5. Text(b)[2] = b /\ Text(c)[2] = c
  BY DEF Text
<1>6. AskedIn(s) = {}
  <2> HIDE DEF s
  <2>1. (Len(s) - 1) \div 2 = 2
    BY <1>4
  <2> QED
    BY <2>1 DEF AskedIn
<1>7. s = <<a>> \o Strpcpy(Text(b)) \o Strpcpy(Text(c))
  BY DEF one, two, three, Strpcpy
<1> HIDE DEF s
<1> QED
  <2>1. IsHead(s, a, b, c)
    BY <1>4, <1>5, <1>6 DEF IsRequest, IsHead
  <2> QED
    BY <1>7, <2>1, Zenon

\* An option more is asked for.
LEMMA OptionAsked ==
  ASSUME NEW s, NEW m, IsRequest(s, m), NEW name, NEW v
  PROVE  AsksMore(s \o Option(name, v), s, m + 1, {<<name, v>>})
<1> DEFINE two == <<Text(name), Nul>>
           three == <<Number(v), Nul>>
           four == two \o three
           t == s \o four
<1>1. /\ IsSequence(two) /\ Len(two) = 2 /\ two[1] = Text(name)
      /\ IsSequence(three) /\ Len(three) = 2 /\ three[1] = Number(v)
  BY TwoCells
<1>2. four = Option(name, v)
  BY DEF Option, Strpcpy
<1> HIDE DEF two, three
<1>3. IsSequence(four) /\ Len(four) = 4 /\ four[1] = Text(name) /\ four[3] = Number(v)
  <2>1. Joins(four, two, three)
    BY <1>1, JoiningMakes, Zenon
  <2> HIDE DEF four
  <2>2. four[1] = two[1] /\ four[2 + 1] = three[1]
    BY <1>1, <2>1 DEF Joins
  <2> QED
    BY <1>1, <2>1, <2>2 DEF Joins
<1> HIDE DEF four
<1>4. /\ IsSequence(t) /\ Len(t) = 4 * (m + 1) + 5
      /\ \A k \in 1..(4 * m + 5) : t[k] = s[k]
      /\ t[4 * m + 6] = Text(name) /\ t[4 * m + 8] = Number(v)
  <2>1. /\ m \in Nat /\ Len(s) = 4 * m + 5 /\ Len(t) = Len(s) + 4 /\ IsSequence(t)
        /\ \A k \in 1..Len(s) : t[k] = s[k]
        /\ t[Len(s) + 1] = four[1] /\ t[Len(s) + 3] = four[3]
    <3>1. Joins(t, s, four)
      BY <1>3, JoiningMakes, Zenon DEF IsRequest
    <3> HIDE DEF t
    <3> QED
      BY <1>3, <3>1 DEF IsRequest, Joins
  <2> HIDE DEF t
  <2> QED
    BY <1>3, <2>1
<1> HIDE DEF t
<1>5. m \in Nat /\ Len(s) = 4 * m + 5
  BY DEF IsRequest
<1>6. (Len(t) - 1) \div 2 = 2 * m + 4 /\ (Len(s) - 1) \div 2 = 2 * m + 2
  BY <1>4, <1>5
<1> DEFINE I == {k \in 3..(2 * m + 2) : k % 2 = 1}
           J == {k \in 3..(2 * m + 4) : k % 2 = 1}
           new == <<t[2 * (2 * m + 3)][2], t[2 * (2 * m + 3) + 2][2]>>
<1>7. J = I \cup {2 * m + 3} /\ \A i \in I : 2 * i \in 1..(4 * m + 5) /\ 2 * i + 2 \in 1..(4 * m + 5)
  <2>1. (2 * m + 3) % 2 = 1 /\ (2 * m + 4) % 2 = 0 /\ 2 * m + 3 \in 3..(2 * m + 4)
    BY <1>5
  <2>2. \A k \in 3..(2 * m + 4) : k \in 3..(2 * m + 2) \/ k = 2 * m + 3 \/ k = 2 * m + 4
    BY <1>5
  <2>3. J = I \cup {2 * m + 3}
    BY <1>5, <2>1, <2>2
  <2>4. ASSUME NEW i \in I PROVE 2 * i \in 1..(4 * m + 5) /\ 2 * i + 2 \in 1..(4 * m + 5)
    <3>1. i \in 3..(2 * m + 2) /\ i % 2 = 1 /\ (2 * m + 2) % 2 = 0
      BY <1>5
    <3>2. i <= 2 * m + 1
      BY <1>5, <3>1
    <3> QED
      BY <1>5, <3>1, <3>2
  <2> QED
    BY <2>3, <2>4
<1>8. /\ AskedIn(t) = {<<t[2 * i][2], t[2 * i + 2][2]>> : i \in J}
      /\ AskedIn(s) = {<<s[2 * i][2], s[2 * i + 2][2]>> : i \in I}
  BY <1>6 DEF AskedIn
<1>9. new = <<name, v>>
  <2>1. 2 * (2 * m + 3) = 4 * m + 6 /\ 2 * (2 * m + 3) + 2 = 4 * m + 8
    BY <1>5
  <2> QED
    BY <1>4, <2>1 DEF Text, Number
<1>10. \A i \in I : <<t[2 * i][2], t[2 * i + 2][2]>> = <<s[2 * i][2], s[2 * i + 2][2]>>
  BY <1>4, <1>7
<1>11. AskedIn(t) = AskedIn(s) \cup {new}
  <2> HIDE DEF I, J
  <2> QED
    BY <1>7, <1>8, <1>10
<1>12. t[1] = s[1] /\ t[2] = s[2] /\ t[4] = s[4]
  BY <1>4, <1>5
<1>13. t = s \o Option(name, v)
  BY <1>2 DEF t
<1> QED
  <2>1. AsksMore(t, s, m + 1, {<<name, v>>})
    BY <1>4, <1>5, <1>9, <1>11, <1>12 DEF IsRequest, AsksMore
  <2> QED
    BY <1>13, <2>1, Zenon

\* The options that a block size b, a time-out t and a size s ask for.
OptionSet(b, t, s) ==
  (IF b # 512 THEN {<<"blksize", b>>} ELSE {})
  \cup (IF t # 0 THEN {<<"timeout", t>>} ELSE {})
  \cup (IF s >= 0 THEN {<<"tsize", s>>} ELSE {})

\* The request that is sent asks for them, with the names of the file and the mode.
Sent(t) ==
  /\ \E m \in Nat : IsRequest(spkt, m)
  /\ spkt[1] = (IF opcode = "s" THEN 2 ELSE 1)
  /\ spkt[2][2] = RemoteFile /\ spkt[4][2] = TransMode
  /\ AskedIn(spkt) = OptionSet(optB, t, optS)

\* An option that may be there or not.
LEMMA PerhapsAsked ==
  ASSUME NEW s, NEW m \in Nat, IsRequest(s, m), NEW c \in BOOLEAN, NEW name, NEW v
  PROVE  \E n \in Nat : AsksMore(s \o (IF c THEN Option(name, v) ELSE <<>>), s, n,
                                 IF c THEN {<<name, v>>} ELSE {})
<1>1. CASE c
  <2>1. AsksMore(s \o Option(name, v), s, m + 1, {<<name, v>>}) /\ m + 1 \in Nat
    BY OptionAsked
  <2> QED
    BY <1>1, <2>1, Zenon
<1>2. CASE ~c
  <2>1. s \o <<>> = s
    <3>1. PICK S : s \in Seq(S)
      BY DEF IsRequest, IsSequence
    <3> QED
      BY <3>1
  <2>2. AsksMore(s, s, m, {})
    BY DEF AsksMore
  <2> QED
    BY <1>2, <2>1, <2>2, Zenon
<1> QED
  BY <1>1, <1>2, Zenon

\* The request asks for the options that differ from the protocol's own values.
LEMMA RequestAsks ==
  ASSUME optS \in Int
  PROVE  /\ \E m \in Nat : IsRequest(Request, m)
         /\ Request[1] = (IF opcode = "s" THEN 2 ELSE 1)
         /\ Request[2][2] = RemoteFile /\ Request[4][2] = TransMode
         /\ AskedIn(Request) = OptionSet(optB, optT, optS)
<1> DEFINE a == IF opcode = "s" THEN 2 ELSE 1
           s0 == <<a>> \o Strpcpy(Text(RemoteFile)) \o Strpcpy(Text(TransMode))
           s1 == s0 \o BlksizeOption
           s2 == s1 \o TimeoutOption
           s3 == s2 \o TsizeOption
<1>1. IsHead(s0, a, RemoteFile, TransMode)
  BY HeadAsked, Zenon
<1> HIDE DEF s0, a
<1>2. /\ (optB # 512) \in BOOLEAN /\ (optT # 0) \in BOOLEAN /\ (optS >= 0) \in BOOLEAN
      /\ 0 \in Nat
  OBVIOUS
<1>3. PICK m3 \in Nat : AsksMore(s1, s0, m3, IF optB # 512 THEN {<<"blksize", optB>>} ELSE {})
  BY <1>1, <1>2, PerhapsAsked, Zenon DEF BlksizeOption, IsHead
<1> HIDE DEF s1
<1>4. PICK m4 \in Nat : AsksMore(s2, s1, m4, IF optT # 0 THEN {<<"timeout", optT>>} ELSE {})
  <2>1. IsRequest(s1, m3)
    BY <1>3, Zenon DEF AsksMore
  <2> QED
    BY <1>2, <2>1, PerhapsAsked, Zenon DEF TimeoutOption
<1> HIDE DEF s2
<1>5. PICK m5 \in Nat : AsksMore(s3, s2, m5, IF optS >= 0 THEN {<<"tsize", optS>>} ELSE {})
  <2>1. IsRequest(s2, m4)
    BY <1>4, Zenon DEF AsksMore
  <2> QED
    BY <1>2, <2>1, PerhapsAsked, Zenon DEF TsizeOption
<1>6. Request = s3
  BY Zenon DEF Request, s0, s1, s2, a
<1> HIDE DEF s3
<1>7. AskedIn(s3) = OptionSet(optB, optT, optS)
  BY <1>1, <1>3, <1>4, <1>5 DEF OptionSet, IsHead, AsksMore
<1>8. IsRequest(s3, m5) /\ s3[1] = a /\ s3[2][2] = RemoteFile /\ s3[4][2] = TransMode
  BY <1>1, <1>3, <1>4, <1>5, Zenon DEF IsHead, AsksMore
<1> QED
  BY <1>5, <1>6, <1>7, <1>8, Zenon DEF a

\* The server reads what was sent.
LEMMA ServerReads ==
  ASSUME NEW m \in Nat, IsRequest(spkt, m)
  PROVE  /\ Strings[1] = spkt[2][2] /\ Strings[2] = spkt[4][2]
         /\ AskedFor = AskedIn(spkt)
<1>1. (Len(spkt) - 1) \div 2 = 2 * m + 2
  BY DEF IsRequest
<1> DEFINE n == 2 * m + 2
           I == {k \in 3..n : k % 2 = 1}
<1>2. n \in Nat /\ 1 \in 1..n /\ 2 \in 1..n
  OBVIOUS
<1>3. Strings = [i \in 1..n |-> spkt[2 * i][2]]
  BY <1>1 DEF Strings
<1>4. Len(Strings) = n
  BY <1>2, <1>3
<1>5. Strings[1] = spkt[2][2] /\ Strings[2] = spkt[4][2]
  BY <1>2, <1>3
<1>6. \A i \in I : <<Strings[i], Strings[i + 1]>> = <<spkt[2 * i][2], spkt[2 * i + 2][2]>>
  <2> SUFFICES ASSUME NEW i \in I
               PROVE  <<Strings[i], Strings[i + 1]>> = <<spkt[2 * i][2], spkt[2 * i + 2][2]>>
    OBVIOUS
  <2>1. i \in 1..n /\ i + 1 \in 1..n /\ 2 * (i + 1) = 2 * i + 2
    <3>1. i \in 3..n /\ i % 2 = 1 /\ n % 2 = 0
      OBVIOUS
    <3> QED
      BY <1>2, <3>1
  <2> QED
    BY <1>3, <2>1
<1>7. AskedFor = {<<Strings[i], Strings[i + 1]>> : i \in I}
  BY <1>4 DEF AskedFor
<1>8. AskedIn(spkt) = {<<spkt[2 * i][2], spkt[2 * i + 2][2]>> : i \in I}
  BY <1>1 DEF AskedIn
<1> HIDE DEF I, n
<1>9. AskedFor = AskedIn(spkt)
  BY <1>6, <1>7, <1>8
<1> QED
  BY <1>5, <1>9

\* An agreement on options: no more than one value for each.
OneEach(S) == IsFiniteSet(S) /\ \A o, p \in S : o[1] = p[1] => o = p

\* The value of an option is what was agreed, or its own.
Heeded(S, name, plain, v) ==
  \/ (\A o \in S : o[1] # name) /\ v = plain
  \/ \E o \in S : o[1] = name /\ v = o[2]

\* The server took the request for what it asks for.
Served(t, s) ==
  /\ server.asked = <<IF opcode = "s" THEN 2 ELSE 1, RemoteFile, TransMode, OptionSet(optB, t, s)>>
  /\ server.host = SubSeq(remote, 1, Colon - 1)
  /\ OneEach(server.agreed)

\* The value agreed is the only one.
LEMMA HeededTells ==
  ASSUME NEW S, OneEach(S), NEW name, NEW plain, NEW v, Heeded(S, name, plain, v)
  PROVE  LET n == {o[2] : o \in {o \in S : o[1] = name}}
         IN  (IF n = {} THEN plain ELSE The(n)) = v
<1> DEFINE n == {o[2] : o \in {o \in S : o[1] = name}}
<1>1. CASE (\A o \in S : o[1] # name) /\ v = plain
  <2>1. n = {}
    BY <1>1
  <2> QED
    BY <1>1, <2>1
<1>2. CASE \E o \in S : o[1] = name /\ v = o[2]
  <2>1. PICK o \in S : o[1] = name /\ v = o[2]
    BY <1>2
  <2>2. n = {v}
    BY <2>1 DEF OneEach
  <2>3. The({v}) = v
    BY DEF The
  <2> HIDE DEF n
  <2>4. n # {} /\ The(n) = v
    BY <2>2, <2>3
  <2> QED
    BY <2>4 DEF n
<1> QED
  BY <1>1, <1>2 DEF Heeded

\* The last argument with one of these letters is the one that was seen last.
LEMMA LastTold ==
  ASSUME IsLine(argv), NEW letters
  PROVE  /\ NoneOf(letters, Len(argv)) => LastOf(letters) = {}
         /\ \A i : LastOne(letters, Len(argv), i) => LastOf(letters) = {i} /\ The(LastOf(letters)) = i
<1>1. Len(argv) \in Nat
  BY LenProperties DEF IsLine
<1>2. NoneOf(letters, Len(argv)) => LastOf(letters) = {}
  BY DEF NoneOf, LastOf
<1>3. ASSUME NEW i, LastOne(letters, Len(argv), i)
      PROVE  LastOf(letters) = {i} /\ The(LastOf(letters)) = i
  <2>1. LastOf(letters) = {i}
    BY <1>1, <1>3 DEF LastOne, LastOf
  <2>2. The({i}) = i
    BY DEF The
  <2> QED
    BY <2>1, <2>2
<1> QED
  BY <1>2, <1>3

\* So the command line asks for the number that was seen.
LEMMA NumberTold ==
  ASSUME IsLine(argv), NEW letter, NEW name, NEW plain, NEW v,
         NumberSeen(letter, Len(argv), plain, v)
  PROVE  Asked(letter, name, plain) = IF v # plain THEN {<<name, v>>} ELSE {}
<1>1. CASE NoneOf({letter}, Len(argv)) /\ v = plain
  <2>1. LastOf({letter}) = {}
    BY <1>1, LastTold
  <2> QED
    BY <1>1, <2>1 DEF Asked
<1>2. CASE \E i : LastOne({letter}, Len(argv), i) /\ v = argv[i].num
  <2>1. PICK i : LastOne({letter}, Len(argv), i) /\ v = argv[i].num
    BY <1>2
  <2>2. LastOf({letter}) = {i}
    BY <2>1, LastTold
  <2> QED
    BY <2>1, <2>2 DEF Asked
<1> QED
  BY <1>1, <1>2 DEF NumberSeen

LEMMA SizeTold ==
  ASSUME IsLine(argv), NEW s, SizeSeen(Len(argv), s)
  PROVE  /\ s = (IF LastOf({"S"}) = {} THEN -1 ELSE 0)
         /\ {<<"tsize", 0>> : i \in LastOf({"S"})} = IF s >= 0 THEN {<<"tsize", s>>} ELSE {}
<1>1. CASE NoneOf({"S"}, Len(argv)) /\ s = -1
  <2>1. LastOf({"S"}) = {}
    BY <1>1, LastTold
  <2> QED
    BY <1>1, <2>1
<1>2. CASE \E i : LastOne({"S"}, Len(argv), i) /\ s = 0
  <2>1. PICK i : LastOne({"S"}, Len(argv), i) /\ s = 0
    BY <1>2
  <2>2. LastOf({"S"}) = {i}
    BY <2>1, LastTold
  <2> QED
    BY <2>1, <2>2
<1> QED
  BY <1>1, <1>2 DEF SizeSeen

\* The least of some places.
LEMMA LowestIs ==
  ASSUME NEW S \in SUBSET Int, NEW i \in S, \A k \in S : i <= k
  PROVE  Lowest(S) = i
<1>1. Lowest(S) \in S /\ \A k \in S : Lowest(S) <= k
  BY DEF Lowest
<1>2. Lowest(S) \in Int /\ i \in Int /\ Lowest(S) <= i /\ i <= Lowest(S)
  BY <1>1
<1> QED
  BY <1>2

\* The first word is the remote name.
LEMMA RemoteTold ==
  ASSUME IsLine(argv), RemoteSeen(Len(argv)), remote # <<>>
  PROVE  argv[Lowest(Words)].word = remote
<1>1. PICK i \in 1..Len(argv) :
        /\ argv[i].opt = "word" /\ remote = argv[i].word
        /\ \A k \in 1..Len(argv) : argv[k].opt = "word" => i <= k
  BY DEF RemoteSeen
<1>2. Len(argv) \in Nat
  BY LenProperties DEF IsLine
<1>3. i \in Words /\ \A k \in Words : i <= k
  BY <1>1 DEF Words
<1>4. Words \in SUBSET Int
  BY <1>2 DEF Words
<1>5. Lowest(Words) = i
  BY <1>3, <1>4, LowestIs
<1> QED
  BY <1>1, <1>5

\* The number of the request and the mode are those that were asked for last.
LEMMA OpcodeTold ==
  ASSUME IsLine(argv), OpcodeSeen(Len(argv))
  PROVE  opcode = IF LastOf({"r", "s"}) = {} THEN "r" ELSE argv[The(LastOf({"r", "s"}))].opt
<1>1. CASE NoneOf({"r", "s"}, Len(argv)) /\ opcode = "r"
  BY <1>1, LastTold
<1>2. CASE \E i : LastOne({"r", "s"}, Len(argv), i) /\ opcode = argv[i].opt
  <2>1. PICK i : LastOne({"r", "s"}, Len(argv), i) /\ opcode = argv[i].opt
    BY <1>2
  <2>2. LastOf({"r", "s"}) = {i} /\ The(LastOf({"r", "s"})) = i
    BY <2>1, LastTold
  <2> QED
    BY <2>1, <2>2
<1> QED
  BY <1>1, <1>2 DEF OpcodeSeen

LEMMA ModeTold ==
  ASSUME IsLine(argv), ModeSeen(Len(argv))
  PROVE  LET latest == LastOf({"8", "a", "b", "m"})
             says == IF latest = {} THEN "b" ELSE argv[The(latest)].opt
         IN  TransMode = CASE says = "a" -> "netascii" [] says = "m" -> "mail" [] OTHER -> "octet"
<1> DEFINE modes == {"8", "a", "b", "m"}
           latest == LastOf(modes)
           says == IF latest = {} THEN "b" ELSE argv[The(latest)].opt
<1>1. says \in modes /\ mode = IF says = "8" THEN "b" ELSE says
  <2>1. CASE NoneOf(modes, Len(argv)) /\ mode = "b"
    BY <2>1, LastTold
  <2>2. CASE \E i : LastOne(modes, Len(argv), i) /\ mode = IF argv[i].opt = "8" THEN "b" ELSE argv[i].opt
    <3>1. PICK i : LastOne(modes, Len(argv), i) /\ mode = IF argv[i].opt = "8" THEN "b" ELSE argv[i].opt
      BY <2>2
    <3>2. latest = {i} /\ The(latest) = i
      BY <3>1, LastTold
    <3> HIDE DEF latest
    <3>3. says = argv[i].opt /\ argv[i].opt \in modes
      BY <3>1, <3>2 DEF LastOne
    <3> HIDE DEF says
    <3> QED
      BY <3>1, <3>3
  <2> QED
    BY <2>1, <2>2 DEF ModeSeen
<1> HIDE DEF says
<1>2. TransMode = CASE says = "a" -> "netascii" [] says = "m" -> "mail" [] OTHER -> "octet"
  BY <1>1 DEF TransMode
<1> QED
  BY <1>2 DEF says

\* So the transfer is the one the command line asks for.
LEMMA TransferTold ==
  ASSUME IsLine(argv), remote # <<>>, NEW t, NEW s, LineSeen(Len(argv), t, s), Served(t, s),
         Heeded(server.agreed, "blksize", 512, blocksize),
         opcode = "r" => /\ Heeded(server.agreed, "timeout", t, optT)
                         /\ Heeded(server.agreed, "tsize", s, optS)
  PROVE  RequestAsAsked
<1> DEFINE options == Asked("B", "blksize", 512) \cup Asked("T", "timeout", 0)
                      \cup {<<"tsize", 0>> : i \in LastOf({"S"})}
           waits == IF Asked("T", "timeout", 0) = {} THEN 0 ELSE The(Asked("T", "timeout", 0))[2]
<1>1. /\ RemoteSeen(Len(argv)) /\ OpcodeSeen(Len(argv)) /\ ModeSeen(Len(argv))
      /\ NumberSeen("B", Len(argv), 512, optB) /\ NumberSeen("T", Len(argv), 0, t)
      /\ SizeSeen(Len(argv), s)
  BY DEF LineSeen
<1>2. argv[Lowest(Words)].word = remote
  BY <1>1, RemoteTold
<1>3. opcode = IF LastOf({"r", "s"}) = {} THEN "r" ELSE argv[The(LastOf({"r", "s"}))].opt
  BY <1>1, OpcodeTold
<1>4. Asked("T", "timeout", 0) = (IF t # 0 THEN {<<"timeout", t>>} ELSE {})
  BY <1>1, NumberTold
<1>5. options = OptionSet(optB, t, s)
  <2>1. Asked("B", "blksize", 512) = (IF optB # 512 THEN {<<"blksize", optB>>} ELSE {})
    BY <1>1, NumberTold
  <2>2. {<<"tsize", 0>> : i \in LastOf({"S"})} = (IF s >= 0 THEN {<<"tsize", s>>} ELSE {})
    BY <1>1, SizeTold
  <2> QED
    BY <1>4, <2>1, <2>2 DEF OptionSet
<1>6. waits = t
  <2>1. CASE t = 0
    BY <1>4, <2>1
  <2>2. CASE t # 0
    <3>1. The({<<"timeout", t>>}) = <<"timeout", t>>
      BY DEF The
    <3>2. Asked("T", "timeout", 0) = {<<"timeout", t>>}
      BY <1>4, <2>2, Zenon
    <3>3. {<<"timeout", t>>} # {} /\ <<"timeout", t>>[2] = t
      OBVIOUS
    <3> QED
      BY <3>1, <3>2, <3>3, Zenon
  <2> QED
    BY <2>1, <2>2
<1>7. s = IF LastOf({"S"}) = {} THEN -1 ELSE 0
  BY <1>1, SizeTold
<1> DEFINE agreed(name, plain) ==
             LET n == {o[2] : o \in {o \in server.agreed : o[1] = name}}
             IN  IF n = {} THEN plain ELSE The(n)
<1>8. /\ blocksize = agreed("blksize", 512)
      /\ opcode = "r" => optT = agreed("timeout", t) /\ optS = agreed("tsize", s)
  BY HeededTells DEF Served
<1>9. /\ server.host = SubSeq(remote, 1, Lowest(Places(remote, ":")) - 1)
      /\ server.asked = <<IF opcode = "s" THEN 2 ELSE 1,
                          SubSeq(remote, Lowest(Places(remote, ":")) + 1, Len(remote)),
                          TransMode, options>>
  BY <1>5, Zenon DEF Served, Colon, RemoteFile
<1>10. LET latest == LastOf({"8", "a", "b", "m"})
           says == IF latest = {} THEN "b" ELSE argv[The(latest)].opt
       IN  TransMode = CASE says = "a" -> "netascii" [] says = "m" -> "mail" [] OTHER -> "octet"
  BY <1>1, ModeTold
<1> QED
  BY <1>2, <1>3, <1>6, <1>7, <1>8, <1>9, <1>10, Zenon DEF RequestAsAsked

\* At most three options are asked for, each once.
LEMMA OptionsAreFew ==
  ASSUME NEW b, NEW t, NEW s
  PROVE  /\ IsFiniteSet(OptionSet(b, t, s))
         /\ \A o \in OptionSet(b, t, s) :
              \/ o = <<"blksize", b>> \/ o = <<"timeout", t>> \/ o = <<"tsize", s>>
<1>1. OptionSet(b, t, s) \subseteq {<<"blksize", b>>} \cup {<<"timeout", t>>} \cup {<<"tsize", s>>}
  BY DEF OptionSet
<1>2. IsFiniteSet({<<"blksize", b>>} \cup {<<"timeout", t>>} \cup {<<"tsize", s>>})
  BY FS_Singleton, FS_Union
<1> QED
  BY <1>1, <1>2, FS_Subset

\* What the server agrees to are values for some of them.
LEMMA AgreedOnce ==
  ASSUME NEW b, NEW t, NEW s, NEW taken \in SUBSET OptionSet(b, t, s)
  PROVE  OneEach({Granted(o) : o \in taken})
<1>1. \A o \in taken : \/ o = <<"blksize", b>> \/ o = <<"timeout", t>> \/ o = <<"tsize", s>>
  BY OptionsAreFew
<1>2. IsFiniteSet({Granted(o) : o \in taken})
  <2> DEFINE x == Granted(<<"blksize", b>>)
             y == Granted(<<"timeout", t>>)
             z == Granted(<<"tsize", s>>)
  <2>1. {Granted(o) : o \in taken} \subseteq {x} \cup {y} \cup {z}
    BY <1>1
  <2> HIDE DEF x, y, z
  <2>2. IsFiniteSet({x} \cup {y} \cup {z})
    BY FS_Singleton, FS_Union
  <2> QED
    BY <2>1, <2>2, FS_Subset
<1>3. \A o \in taken : Granted(o)[1] = o[1]
  BY <1>1 DEF Granted
<1>4. \A o, p \in taken : o[1] = p[1] => o = p
  BY <1>1
<1> QED
  BY <1>2, <1>3, <1>4 DEF OneEach

\* The cells of an OACK: the name, a nul, the number, a nul.
LEMMA CellsAre ==
  ASSUME NEW n \in Nat, NEW S, NEW order \in [1..n -> S]
  PROVE  /\ Len(Cells(order)) = 4 * n
         /\ \A j \in 0..(n - 1) :
              /\ Cells(order)[4 * j + 1] = Text(order[j + 1][1])
              /\ Cells(order)[4 * j + 2] = Nul
              /\ Cells(order)[4 * j + 3] = Number(order[j + 1][2])
              /\ Cells(order)[4 * j + 4] = Nul
<1>1. Len(order) = n
  OBVIOUS
<1> DEFINE c == [i \in 1..(4 * n) |->
                   CASE i % 4 = 1 -> Text(order[(i + 3) \div 4][1])
                     [] i % 4 = 3 -> Number(order[(i + 3) \div 4][2])
                     [] OTHER -> Nul]
<1>2. Cells(order) = c
  BY <1>1 DEF Cells
<1>3. Len(c) = 4 * n
  OBVIOUS
<1>4. ASSUME NEW j \in 0..(n - 1)
      PROVE  /\ c[4 * j + 1] = Text(order[j + 1][1]) /\ c[4 * j + 2] = Nul
             /\ c[4 * j + 3] = Number(order[j + 1][2]) /\ c[4 * j + 4] = Nul
  <2>1. /\ 4 * j + 1 \in 1..(4 * n) /\ 4 * j + 2 \in 1..(4 * n)
        /\ 4 * j + 3 \in 1..(4 * n) /\ 4 * j + 4 \in 1..(4 * n)
    OBVIOUS
  <2>2. /\ (4 * j + 1) % 4 = 1 /\ (4 * j + 2) % 4 = 2 /\ (4 * j + 3) % 4 = 3 /\ (4 * j + 4) % 4 = 0
        /\ (4 * j + 1 + 3) \div 4 = j + 1 /\ (4 * j + 3 + 3) \div 4 = j + 1
    OBVIOUS
  <2>3. c[4 * j + 1] = Text(order[j + 1][1])
    BY <2>1, <2>2
  <2>4. c[4 * j + 3] = Number(order[j + 1][2])
    BY <2>1, <2>2
  <2>5. \A k \in 1..(4 * n) : k % 4 # 1 /\ k % 4 # 3 => c[k] = Nul
    OBVIOUS
  <2>6. c[4 * j + 2] = Nul /\ c[4 * j + 4] = Nul
    <3> HIDE DEF c
    <3> QED
      BY <2>1, <2>2, <2>5
  <2> QED
    BY <2>3, <2>4, <2>6
<1> HIDE DEF c
<1> QED
  BY <1>2, <1>3, <1>4

\* A string is not its terminator, and tells what it is.
LEMMA CellsDiffer ==
  ASSUME NEW x, NEW y
  PROVE  /\ Text(x) # Nul /\ Number(x) # Nul
         /\ Text(x) = Text(y) <=> x = y
         /\ Number(x)[2] = x
<1>1. <<"s", x>> # <<"nul">> /\ <<"n", x>> # <<"nul">>
  OBVIOUS
<1>2. <<"s", x>>[2] = x /\ <<"s", y>>[2] = y /\ <<"n", x>>[2] = x
  OBVIOUS
<1> QED
  BY <1>1, <1>2 DEF Text, Number, Nul

\* tftp_analyze_oack() has read the first j of the n options agreed on.
ReadFirst(t, s, n, order, j) ==
  /\ \A o \in server.agreed : \E i \in 1..n : order[i] = o
  /\ rpkt = Cells(order) /\ oi = 4 * j + 1
  /\ Heeded({order[i] : i \in 1..j}, "blksize", 512, blocksize)
  /\ Heeded({order[i] : i \in 1..j}, "timeout", t, optT)
  /\ Heeded({order[i] : i \in 1..j}, "tsize", s, optS)
Reading(t, s) ==
  \E n \in Nat : \E order \in [1..n -> server.agreed] : \E j \in 0..n :
    ReadFirst(t, s, n, order, j)

\* One value more: it is heeded when it has the name, and otherwise the one before is.
LEMMA HeedsOneMore ==
  ASSUME NEW S, NEW name, NEW plain, NEW v, Heeded(S, name, plain, v), NEW o
  PROVE  Heeded(S \cup {o}, name, plain, IF o[1] = name THEN o[2] ELSE v)
<1>1. CASE o[1] = name
  BY <1>1 DEF Heeded
<1>2. CASE o[1] # name
  BY <1>2 DEF Heeded
<1> QED
  BY <1>1, <1>2

\* A pass of the loop reads the option that comes next.
LEMMA AnalyzeReads ==
  ASSUME NEW t, NEW s, Reading(t, s), AnalyzeOack, opcode = "r"
  PROVE  Reading(t, s)'
<1>0. PICK n \in Nat : \E order \in [1..n -> server.agreed] : \E j \in 0..n :
                         ReadFirst(t, s, n, order, j)
  BY DEF Reading
<1>1. PICK order \in [1..n -> server.agreed], j \in 0..n :
        /\ \A o \in server.agreed : \E i \in 1..n : order[i] = o
        /\ rpkt = Cells(order) /\ oi = 4 * j + 1
        /\ Heeded({order[i] : i \in 1..j}, "blksize", 512, blocksize)
        /\ Heeded({order[i] : i \in 1..j}, "timeout", t, optT)
        /\ Heeded({order[i] : i \in 1..j}, "tsize", s, optS)
  BY <1>0 DEF ReadFirst
<1> DEFINE o == order[j + 1]
<1>2. Len(rpkt) = 4 * n /\ oi <= Len(rpkt)
  BY <1>1, CellsAre DEF AnalyzeOack
<1>3. j \in 0..(n - 1) /\ j + 1 \in 0..n
  BY <1>1, <1>2
<1>4. /\ rpkt[4 * j + 1] = Text(o[1]) /\ rpkt[4 * j + 2] = Nul
      /\ rpkt[4 * j + 3] = Number(o[2]) /\ rpkt[4 * j + 4] = Nul
  <2>1. \A k \in 0..(n - 1) :
          /\ Cells(order)[4 * k + 1] = Text(order[k + 1][1])
          /\ Cells(order)[4 * k + 2] = Nul
          /\ Cells(order)[4 * k + 3] = Number(order[k + 1][2])
          /\ Cells(order)[4 * k + 4] = Nul
    BY CellsAre, ZenonT(60)
  <2> QED
    BY <1>1, <1>3, <2>1
<1> HIDE DEF o
<1>5. EndOf(oi) = 4 * j + 2
  <2> DEFINE U == {k \in oi..Len(rpkt) : rpkt[k] = Nul}
  <2>1. U \in SUBSET Int
    BY <1>1, <1>2
  <2>2. 4 * j + 2 \in U
    BY <1>1, <1>2, <1>3, <1>4
  <2>3. 4 * j + 1 \notin U
    BY <1>4, CellsDiffer
  <2>4. \A k \in U : 4 * j + 2 <= k
    BY <1>1, <1>2, <1>3, <2>3
  <2> HIDE DEF U
  <2>5. Lowest(U) = 4 * j + 2
    BY <2>1, <2>2, <2>4, LowestIs
  <2> QED
    BY <2>5 DEF EndOf, U
<1>6. EndOf(4 * j + 3) = 4 * j + 4
  <2> DEFINE U == {k \in (4 * j + 3)..Len(rpkt) : rpkt[k] = Nul}
  <2>1. U \in SUBSET Int
    BY <1>1, <1>2
  <2>2. 4 * j + 4 \in U
    BY <1>1, <1>2, <1>3, <1>4
  <2>3. 4 * j + 3 \notin U
    BY <1>4, CellsDiffer
  <2>4. \A k \in U : 4 * j + 4 <= k
    BY <1>1, <1>2, <1>3, <2>3
  <2> HIDE DEF U
  <2>5. Lowest(U) = 4 * j + 4
    BY <2>1, <2>2, <2>4, LowestIs
  <2> QED
    BY <2>5 DEF EndOf, U
<1>7. EndOf(oi) + 1 = 4 * j + 3 /\ EndOf(EndOf(oi) + 1) + 1 = 4 * (j + 1) + 1
  BY <1>3, <1>5, <1>6
<1>8. OackName = Text(o[1]) /\ OackValue = o[2]
  BY <1>1, <1>4, <1>7, CellsDiffer DEF OackName, OackValue
<1>9. /\ blocksize' = (IF o[1] = "blksize" THEN o[2] ELSE blocksize)
      /\ optT' = (IF o[1] = "timeout" THEN o[2] ELSE optT)
      /\ optS' = (IF o[1] = "tsize" THEN o[2] ELSE optS)
      /\ oi' = 4 * (j + 1) + 1 /\ rpkt' = rpkt /\ server' = server
  <2>1. /\ Text(o[1]) = Text("blksize") <=> o[1] = "blksize"
        /\ Text(o[1]) = Text("timeout") <=> o[1] = "timeout"
        /\ Text(o[1]) = Text("tsize") <=> o[1] = "tsize"
    BY CellsDiffer
  <2> QED
    BY <1>7, <1>8, <2>1 DEF AnalyzeOack
<1>10. {order[i] : i \in 1..(j + 1)} = {order[i] : i \in 1..j} \cup {o}
  <2>1. \A i \in 1..(j + 1) : i \in 1..j \/ i = j + 1
    BY <1>3
  <2>2. 1..j \subseteq 1..(j + 1) /\ j + 1 \in 1..(j + 1)
    BY <1>3
  <2> QED
    BY <2>1, <2>2 DEF o
<1> DEFINE seen == {order[i] : i \in 1..(j + 1)}
<1>11. /\ Heeded(seen, "blksize", 512, IF o[1] = "blksize" THEN o[2] ELSE blocksize)
       /\ Heeded(seen, "timeout", t, IF o[1] = "timeout" THEN o[2] ELSE optT)
       /\ Heeded(seen, "tsize", s, IF o[1] = "tsize" THEN o[2] ELSE optS)
  <2> DEFINE before == {order[i] : i \in 1..j}
  <2>1. /\ Heeded(before, "blksize", 512, blocksize)
        /\ Heeded(before, "timeout", t, optT) /\ Heeded(before, "tsize", s, optS)
    BY <1>1
  <2>2. seen = before \cup {o}
    BY <1>10
  <2> HIDE DEF before, seen
  <2>3. /\ Heeded(before \cup {o}, "blksize", 512, IF o[1] = "blksize" THEN o[2] ELSE blocksize)
        /\ Heeded(before \cup {o}, "timeout", t, IF o[1] = "timeout" THEN o[2] ELSE optT)
        /\ Heeded(before \cup {o}, "tsize", s, IF o[1] = "tsize" THEN o[2] ELSE optS)
    BY <2>1, HeedsOneMore, Zenon
  <2> QED
    BY <2>2, <2>3, Zenon
<1>12. /\ Heeded(seen, "blksize", 512, blocksize)'
       /\ Heeded(seen, "timeout", t, optT)' /\ Heeded(seen, "tsize", s, optS)'
  <2> HIDE DEF seen
  <2> QED
    BY <1>9, <1>11 DEF Heeded
<1> QED
  <2>1. ReadFirst(t, s, n, order, j + 1)'
    BY <1>1, <1>9, <1>12 DEF ReadFirst
  <2>2. order \in [1..n -> server'.agreed]
    BY <1>9
  <2> QED
    BY <1>3, <2>1, <2>2 DEF Reading

\* At the end of the packet all that was agreed has been read.
LEMMA OackAllRead ==
  ASSUME NEW t, NEW s, Reading(t, s), oi > Len(rpkt)
  PROVE  /\ Heeded(server.agreed, "blksize", 512, blocksize)
         /\ Heeded(server.agreed, "timeout", t, optT)
         /\ Heeded(server.agreed, "tsize", s, optS)
<1>0. PICK n \in Nat : \E order \in [1..n -> server.agreed] : \E j \in 0..n :
                         ReadFirst(t, s, n, order, j)
  BY DEF Reading
<1>1. PICK order \in [1..n -> server.agreed], j \in 0..n :
        /\ \A o \in server.agreed : \E i \in 1..n : order[i] = o
        /\ rpkt = Cells(order) /\ oi = 4 * j + 1
        /\ Heeded({order[i] : i \in 1..j}, "blksize", 512, blocksize)
        /\ Heeded({order[i] : i \in 1..j}, "timeout", t, optT)
        /\ Heeded({order[i] : i \in 1..j}, "tsize", s, optS)
  BY <1>0 DEF ReadFirst
<1>2. j = n
  <2>1. Len(rpkt) = 4 * n
    BY <1>1, CellsAre
  <2> QED
    BY <1>1, <2>1
<1>3. {order[i] : i \in 1..n} = server.agreed
  BY <1>1
<1> QED
  BY <1>1, <1>2, <1>3

\* The transfer goes with the values that were agreed, or its own.
AllHeeded(t, s) ==
  /\ Heeded(server.agreed, "blksize", 512, blocksize)
  /\ opcode = "r" => /\ Heeded(server.agreed, "timeout", t, optT)
                     /\ Heeded(server.agreed, "tsize", s, optS)

\* At each place of the program: what the options are, what was sent, and what was
\* agreed.
ArgsInv ==
  /\ IsLine(argv) /\ argi \in 0..Len(argv) /\ optB \in Nat
  /\ apc \in {"para", "request", "answer", "oack", "going", "exit"}
  /\ apc \in {"para", "request", "answer"} => blocksize = 512
  /\ apc = "para" => LineSeen(argi, optT, optS) /\ optT \in Nat
  /\ apc = "request" => remote # <<>> /\ LineSeen(Len(argv), optT, optS)
  /\ apc = "answer" =>
       /\ remote # <<>>
       /\ \E t : LineSeen(Len(argv), t, optS) /\ Sent(t) /\ (opcode = "r" => optT = t)
  /\ apc = "oack" =>
       /\ remote # <<>> /\ opcode = "r"
       /\ \E t, s : LineSeen(Len(argv), t, s) /\ Served(t, s) /\ Reading(t, s)
  /\ apc = "going" =>
       remote # <<>> /\ \E t, s : LineSeen(Len(argv), t, s) /\ Served(t, s) /\ AllHeeded(t, s)

\* So the request that is served is the one asked for.
LEMMA ArgsTell == ASSUME ArgsInv PROVE RequestAsAsked
<1>1. CASE apc = "going"
  <2>1. /\ IsLine(argv) /\ remote # <<>>
        /\ \E t, s : LineSeen(Len(argv), t, s) /\ Served(t, s) /\ AllHeeded(t, s)
    BY <1>1 DEF ArgsInv
  <2>2. PICK t, s : LineSeen(Len(argv), t, s) /\ Served(t, s) /\ AllHeeded(t, s)
    BY <2>1
  <2> QED
    BY <2>1, <2>2, TransferTold DEF AllHeeded
<1>2. CASE apc # "going"
  BY <1>2 DEF RequestAsAsked
<1> QED
  BY <1>1, <1>2

LEMMA ArgsStarts ==
  ASSUME NEW lines, \A args \in lines : IsLine(args), ArgsInit(lines)
  PROVE  ArgsInv
<1>1. /\ IsLine(argv) /\ apc = "para" /\ argi = 0 /\ remote = <<>> /\ opcode = "r" /\ mode = "b"
      /\ optB = 512 /\ optT = 0 /\ optS = -1 /\ blocksize = 512
  BY DEF ArgsInit
<1>2. Len(argv) \in Nat
  BY <1>1, LenProperties DEF IsLine
<1>3. \A letters : NoneOf(letters, 0)
  BY DEF NoneOf
<1>4. LineSeen(argi, optT, optS)
  BY <1>1, <1>3 DEF LineSeen, RemoteSeen, OpcodeSeen, ModeSeen, NumberSeen, SizeSeen
<1> QED
  BY <1>1, <1>2, <1>4 DEF ArgsInv

\* What was seen depends on the command line and what was taken from it.
LEMMA SeenFrame ==
  ASSUME UNCHANGED <<argv, remote, opcode, mode, optB>>
  PROVE  \A n, t, s : LineSeen(n, t, s)' <=> LineSeen(n, t, s)
BY DEF LineSeen, RemoteSeen, OpcodeSeen, ModeSeen, NumberSeen, SizeSeen, NoneOf, LastOne

\* The request is made of what was seen.
LEMMA SendRequestKeeps ==
  ASSUME ArgsInv, SendRequest
  PROVE  ArgsInv'
<1>1. /\ apc = "request" /\ apc' = "answer" /\ spkt' = Request
      /\ optT' = (IF opcode = "s" /\ optT = 0 THEN 3 ELSE optT)
      /\ UNCHANGED <<argv, argi, remote, opcode, mode, optB, optS, blocksize>>
  BY DEF SendRequest
<1>2. remote # <<>> /\ LineSeen(Len(argv), optT, optS) /\ blocksize = 512
      /\ IsLine(argv) /\ argi \in 0..Len(argv) /\ optB \in Nat
  BY <1>1 DEF ArgsInv
<1>3. optS \in Int
  BY <1>2 DEF LineSeen, SizeSeen
<1>4. RemoteFile' = RemoteFile /\ TransMode' = TransMode
  BY <1>1 DEF RemoteFile, Colon, TransMode
<1>5. PICK t : t = optT
  OBVIOUS
<1>6. Sent(t)'
  BY <1>1, <1>3, <1>4, <1>5, RequestAsks, Zenon DEF Sent
<1>7. LineSeen(Len(argv), t, optS)'
  <2>1. PICK n : n = Len(argv)
    OBVIOUS
  <2>2. PICK s : s = optS
    OBVIOUS
  <2>3. LineSeen(n, t, s)'
    BY <1>1, <1>2, <1>5, <2>1, <2>2, SeenFrame
  <2> QED
    BY <1>1, <2>1, <2>2, <2>3
<1>8. opcode' = "r" => optT' = t
  BY <1>1, <1>5
<1> QED
  BY <1>1, <1>2, <1>6, <1>7, <1>8 DEF ArgsInv

\* The server takes what it was sent.
LEMMA ServerAnswerKeeps ==
  ASSUME ArgsInv, ServerAnswer
  PROVE  ArgsInv'
<1>1. PICK taken \in SUBSET {o \in AskedFor : opcode = "r"} :
      \E order \in Orders({Granted(o) : o \in taken}) :
       /\ rpkt' = Cells(order)
       /\ apc' = IF taken = {} THEN "going" ELSE "oack"
       /\ server' = [asked |-> <<spkt[1], Strings[1], Strings[2], AskedFor>>,
                     agreed |-> {Granted(o) : o \in taken}, host |-> SubSeq(remote, 1, Colon - 1)]
  BY DEF ServerAnswer
<1> DEFINE S == {Granted(o) : o \in taken}
<1>2. PICK order \in Orders(S) :
       /\ rpkt' = Cells(order)
       /\ apc' = IF taken = {} THEN "going" ELSE "oack"
       /\ server' = [asked |-> <<spkt[1], Strings[1], Strings[2], AskedFor>>,
                     agreed |-> S, host |-> SubSeq(remote, 1, Colon - 1)]
  BY <1>1
<1>3. /\ apc = "answer" /\ oi' = 1
      /\ UNCHANGED <<argv, argi, remote, opcode, mode, optB, optT, optS, blocksize, spkt>>
  BY DEF ServerAnswer
<1>4. /\ remote # <<>> /\ blocksize = 512 /\ IsLine(argv) /\ argi \in 0..Len(argv) /\ optB \in Nat
      /\ \E t : LineSeen(Len(argv), t, optS) /\ Sent(t) /\ (opcode = "r" => optT = t)
  BY <1>3 DEF ArgsInv
<1>5. PICK t : LineSeen(Len(argv), t, optS) /\ Sent(t) /\ (opcode = "r" => optT = t)
  BY <1>4
<1>6. /\ Strings[1] = RemoteFile /\ Strings[2] = TransMode /\ spkt[1] = (IF opcode = "s" THEN 2 ELSE 1)
      /\ AskedFor = OptionSet(optB, t, optS)
  BY <1>5, ServerReads DEF Sent
<1>7. taken \subseteq OptionSet(optB, t, optS) /\ OneEach(S)
  BY <1>1, <1>6, AgreedOnce
<1> HIDE DEF S
<1>8. PICK s : s = optS
  OBVIOUS
<1>9. RemoteFile' = RemoteFile /\ TransMode' = TransMode /\ Colon' = Colon
  BY <1>3 DEF RemoteFile, Colon, TransMode
<1>10. Served(t, s)' /\ server'.agreed = S
  BY <1>2, <1>3, <1>6, <1>7, <1>8, <1>9 DEF Served
<1>11. LineSeen(Len(argv), t, s)'
  <2>1. PICK n : n = Len(argv)
    OBVIOUS
  <2>2. LineSeen(n, t, s)'
    BY <1>3, <1>5, <1>8, <2>1, SeenFrame
  <2> QED
    BY <1>3, <2>1, <2>2
<1>12. CASE taken = {}
  <2>1. S = {} /\ apc' = "going"
    BY <1>2, <1>12 DEF S
  <2>2. \A name, plain : Heeded({}, name, plain, plain)
    BY DEF Heeded
  <2>3. Heeded(server.agreed, "blksize", 512, blocksize)'
    BY <1>3, <1>4, <1>10, <2>1, <2>2
  <2>4. opcode' = "r" => /\ Heeded(server.agreed, "timeout", t, optT)'
                         /\ Heeded(server.agreed, "tsize", s, optS)'
    BY <1>3, <1>5, <1>8, <1>10, <2>1, <2>2
  <2>5. AllHeeded(t, s)'
    BY <2>3, <2>4 DEF AllHeeded
  <2> QED
    BY <1>3, <1>4, <1>10, <1>11, <2>1, <2>5 DEF ArgsInv
<1>13. CASE taken # {}
  <2>1. apc' = "oack" /\ opcode = "r" /\ optT = t
    BY <1>1, <1>2, <1>5, <1>13
  <2>2. Reading(t, s)'
    <3>1. PICK n : n = Cardinality(S)
      OBVIOUS
    <3>2. n \in Nat
      BY <1>7, <3>1, FS_CardinalityType DEF OneEach
    <3>3. order \in [1..n -> S] /\ \A o \in S : \E i \in 1..n : order[i] = o
      BY <3>1 DEF Orders
    <3>4. ReadFirst(t, s, n, order, 0)'
      <4>1. {order[i] : i \in 1..0} = {}
        OBVIOUS
      <4>2. \A name, v : Heeded({}, name, v, v)
        BY DEF Heeded
      <4>3. /\ Heeded({order[i] : i \in 1..0}, "blksize", 512, blocksize')
            /\ Heeded({order[i] : i \in 1..0}, "timeout", t, optT')
            /\ Heeded({order[i] : i \in 1..0}, "tsize", s, optS')
        BY <1>3, <1>4, <1>8, <2>1, <4>1, <4>2
      <4>4. rpkt' = Cells(order) /\ oi' = 4 * 0 + 1 /\ server'.agreed = S
        BY <1>2, <1>3, <1>10
      <4> QED
        BY <3>3, <4>3, <4>4 DEF ReadFirst, Heeded
    <3> QED
      BY <1>10, <3>2, <3>3, <3>4 DEF Reading
  <2> QED
    BY <1>3, <1>4, <1>10, <1>11, <2>1, <2>2 DEF ArgsInv
<1> QED
  BY <1>12, <1>13

\* The OACK is read to its end.
LEMMA OackKeeps ==
  ASSUME ArgsInv, AnalyzeOack \/ OackRead
  PROVE  ArgsInv'
<1>1. apc = "oack" /\ UNCHANGED <<argv, argi, remote, opcode, mode, optB, server>>
  BY DEF AnalyzeOack, OackRead
<1>2. /\ remote # <<>> /\ opcode = "r" /\ IsLine(argv) /\ argi \in 0..Len(argv) /\ optB \in Nat
      /\ \E t, s : LineSeen(Len(argv), t, s) /\ Served(t, s) /\ Reading(t, s)
  BY <1>1 DEF ArgsInv
<1>3. PICK t, s : LineSeen(Len(argv), t, s) /\ Served(t, s) /\ Reading(t, s)
  BY <1>2
<1>4. LineSeen(Len(argv), t, s)'
  <2>1. PICK n : n = Len(argv)
    OBVIOUS
  <2>2. LineSeen(n, t, s)'
    BY <1>1, <1>3, <2>1, SeenFrame
  <2> QED
    BY <1>1, <2>1, <2>2
<1>5. Served(t, s)'
  <2>1. RemoteFile' = RemoteFile /\ TransMode' = TransMode /\ Colon' = Colon
    BY <1>1 DEF RemoteFile, Colon, TransMode
  <2> QED
    BY <1>1, <1>3, <2>1 DEF Served
<1>6. CASE AnalyzeOack
  <2>1. Reading(t, s)' /\ apc' = "oack"
    BY <1>2, <1>3, <1>6, AnalyzeReads DEF AnalyzeOack
  <2> QED
    BY <1>1, <1>2, <1>4, <1>5, <2>1 DEF ArgsInv
<1>7. CASE OackRead
  <2>1. oi > Len(rpkt) /\ apc' = "going" /\ UNCHANGED <<blocksize, optT, optS>>
    BY <1>7 DEF OackRead
  <2>2. /\ Heeded(server.agreed, "blksize", 512, blocksize)'
        /\ Heeded(server.agreed, "timeout", t, optT)'
        /\ Heeded(server.agreed, "tsize", s, optS)'
    BY <1>1, <1>3, <2>1, OackAllRead
  <2>3. AllHeeded(t, s)'
    BY <2>2 DEF AllHeeded
  <2> QED
    BY <1>1, <1>2, <1>4, <1>5, <2>1, <2>3 DEF ArgsInv
<1> QED
  BY <1>6, <1>7

\* Every step of the program and the server keeps what is known.
LEMMA ArgsKeeps ==
  ASSUME ArgsInv, [ArgsNext]_argsVars
  PROVE  ArgsInv'
<1>1. CASE Para
  <2>1. /\ apc = "para" /\ apc' = "para" /\ blocksize' = blocksize /\ argv' = argv
        /\ IsLine(argv) /\ argi \in Nat /\ LineSeen(argi, optT, optS) /\ optB \in Nat
        /\ optT \in Nat /\ blocksize = 512
    BY <1>1 DEF Para, ArgsInv
  <2>2. /\ LineSeen(argi, optT, optS)' /\ argi' \in 0..Len(argv')
        /\ optB' \in Nat /\ optT' \in Nat
    BY <1>1, <2>1, ParaSees
  <2> QED
    BY <2>1, <2>2 DEF ArgsInv
<1>2. CASE Usage
  BY <1>2 DEF Usage, ArgsInv
<1>3. CASE AutoMode
  <2>1. /\ apc = "para" /\ argi = Len(argv) /\ remote # <<>> /\ apc' \in {"exit", "request"}
        /\ UNCHANGED <<argv, argi, remote, opcode, mode, optB, optT, optS, blocksize>>
        /\ IsLine(argv) /\ argi \in 0..Len(argv) /\ optB \in Nat /\ blocksize = 512
        /\ LineSeen(argi, optT, optS)
    BY <1>3 DEF AutoMode, ArgsInv
  <2>2. LineSeen(Len(argv), optT, optS)'
    <3>1. PICK n, t, s : n = argi /\ t = optT /\ s = optS
      OBVIOUS
    <3>2. LineSeen(n, t, s)'
      BY <2>1, <3>1, SeenFrame
    <3> QED
      BY <2>1, <3>1, <3>2
  <2> QED
    BY <2>1, <2>2 DEF ArgsInv
<1>4. CASE UNCHANGED argsVars
  <2>1. UNCHANGED <<apc, argv, argi, remote, local, opcode, mode, optB, optT, optS,
                    blocksize, spkt, rpkt, oi, server>>
    BY <1>4 DEF argsVars
  <2>2. \A n, t, s : LineSeen(n, t, s)' <=> LineSeen(n, t, s)
    BY <2>1, SeenFrame
  <2>3. RemoteFile' = RemoteFile /\ TransMode' = TransMode /\ Colon' = Colon
    BY <2>1 DEF RemoteFile, Colon, TransMode
  <2>4. \A t, s : /\ Sent(t)' <=> Sent(t)
                  /\ Served(t, s)' <=> Served(t, s)
                  /\ AllHeeded(t, s)' <=> AllHeeded(t, s)
    BY <2>1, <2>3 DEF Sent, Served, AllHeeded, Heeded
  <2>5. \A t, s : Reading(t, s)' <=> Reading(t, s)
    BY <2>1 DEF Reading, ReadFirst, Heeded
  <2>6. LineSeen(argi, optT, optS)' <=> LineSeen(argi, optT, optS)
    <3>1. PICK n, t, s : n = argi /\ t = optT /\ s = optS
      OBVIOUS
    <3> QED
      BY <2>1, <2>2, <3>1
  <2>7. \A t, s : LineSeen(Len(argv), t, s)' <=> LineSeen(Len(argv), t, s)
    <3>1. PICK n : n = Len(argv)
      OBVIOUS
    <3> QED
      BY <2>1, <2>2, <3>1
  <2>8. /\ LineSeen(Len(argv), optT, optS)' <=> LineSeen(Len(argv), optT, optS)
        /\ \A t : LineSeen(Len(argv), t, optS)' <=> LineSeen(Len(argv), t, optS)
    <3>1. PICK t, s : t = optT /\ s = optS
      OBVIOUS
    <3> QED
      BY <2>1, <2>7, <3>1
  <2> QED
    BY <2>1, <2>4, <2>5, <2>6, <2>7, <2>8, Zenon DEF ArgsInv
<1> QED
  BY <1>1, <1>2, <1>3, <1>4, SendRequestKeeps, ServerAnswerKeeps, OackKeeps DEF ArgsNext

----------------------------------------------------------------------------
(* The machine that runs any of the programs.  What they share, the UDP    *)
(* handle and its buffer, is part of the invariants of sntpget and of      *)
(* udpecho: they hold while their program runs, and the program that does  *)
(* not run has done nothing.                                               *)

SntpPart == IF prog = "sntpget" THEN SntpInv ELSE spc = "search"
EchoPart == IF prog = "udpecho" THEN EchoInv ELSE shown = <<>>
Md5Part == IF prog = "md5sum" THEN Md5Inv ELSE mpc = "getopt" /\ digests = <<>>

ArgsPart == IF prog = "tftp" THEN ArgsInv ELSE apc = "para"
SmallInv == SntpPart /\ EchoPart /\ PingInv /\ Md5Part /\ FmInv /\ ArgsPart /\ OpenIInv

LEMMA SmallStarts == Init => SmallInv
<1> HAVE Init
<1>1. SntpPart
  <2>1. SntpInit /\ (SntpInit => spc = "search")
    BY Zenon DEF Init, SntpInit
  <2> QED
    BY <2>1, SntpInitInv, Zenon DEF SntpPart
<1>2. EchoPart
  <2>1. EchoInit /\ (EchoInit => shown = <<>>)
    BY Zenon DEF Init, EchoInit
  <2> QED
    BY <2>1, EchoInitInv, Zenon DEF EchoPart
<1>3. PingInv /\ FmInv
  BY PingInitInv, FmStarts, Zenon DEF Init
<1>4. OpenIInv
  <2>1. OpenInit(Inputs("esenet", OpenLines))
    BY Zenon DEF Init
  <2> QED
    BY <2>1, OpenInitIInv, Zenon
<1>5. Md5Part
  <2>1. Md5Init(Inputs("md5sum", Md5Jobs))
    BY Zenon DEF Init
  <2>2. CASE prog = "md5sum"
    <3>1. Md5Init(Md5Jobs)
      BY <2>1, <2>2 DEF Inputs
    <3> QED
      BY <2>2, <3>1, Md5JobsAssumption, Md5Starts, Zenon DEF Md5Part
  <2>3. CASE prog # "md5sum"
    BY <2>1, <2>3, Zenon DEF Md5Init, Md5Part
  <2> QED
    BY <2>2, <2>3, Zenon
<1>6. ArgsPart
  <2>1. ArgsInit(Inputs("tftp", TftpLines))
    BY Zenon DEF Init
  <2>2. CASE prog = "tftp"
    <3>1. ArgsInit(TftpLines)
      BY <2>1, <2>2 DEF Inputs
    <3> QED
      BY <2>2, <3>1, TftpArgsAssumption, ArgsStarts, Zenon DEF ArgsPart
  <2>3. CASE prog # "tftp"
    BY <2>1, <2>3, Zenon DEF ArgsInit, ArgsPart
  <2> QED
    BY <2>2, <2>3, Zenon
<1> QED
  BY <1>1, <1>2, <1>3, <1>4, <1>5, <1>6 DEF SmallInv

\* A step of the machine is one of the program that runs, and of the others at most
\* what the handle does to them.
LEMMA StepParts ==
  ASSUME [Next]_vars
  PROVE  /\ prog' = prog
         /\ prog = "sntpget" => [SntpNext]_sntpVars
         /\ prog # "sntpget" => spc' = spc
         /\ prog = "udpecho" => [EchoNext]_echoVars
         /\ prog # "udpecho" => shown' = shown
         /\ prog = "md5sum" => [Md5Next]_md5Vars
         /\ prog # "md5sum" => mpc' = mpc /\ digests' = digests
         /\ [PingNext]_pingVars /\ [FmNext]_fmVars /\ [OpenNext]_openVars
         /\ prog = "tftp" => [ArgsNext]_argsVars
         /\ prog # "tftp" => apc' = apc
<1> USE DEF SntpAtRest, EchoAtRest, NetAtRest, OthersAtRest, sntpVars, echoVars, md5Vars,
            argsVars
<1>1. CASE RunSntp
  BY <1>1, Zenon DEF RunSntp
<1>2. CASE RunEcho
  BY <1>2, Zenon DEF RunEcho
<1>3. CASE RunPing
  BY <1>3, Zenon DEF RunPing
<1>4. CASE RunMd5
  BY <1>4, Zenon DEF RunMd5
<1>5. CASE RunFm
  BY <1>5, Zenon DEF RunFm
<1>6. CASE RunTftp
  BY <1>6, Zenon DEF RunTftp
<1>7. CASE RunEsenet
  BY <1>7, Zenon DEF RunEsenet
<1>8. CASE UNCHANGED vars
  BY <1>8, Zenon DEF vars
<1> QED
  BY <1>1, <1>2, <1>3, <1>4, <1>5, <1>6, <1>7, <1>8, Zenon DEF Next

LEMMA SmallKeeps == SmallInv /\ [Next]_vars => SmallInv'
<1> HAVE SmallInv /\ [Next]_vars
<1>1. SntpPart'
  BY StepParts, SntpKeepsInv, Zenon DEF SmallInv, SntpPart
<1>2. EchoPart'
  BY StepParts, EchoKeepsInv, Zenon DEF SmallInv, EchoPart
<1>3. PingInv'
  BY StepParts, PingKeepsInv, Zenon DEF SmallInv
<1>4. FmInv'
  BY StepParts, FmKeepsInv, Zenon DEF SmallInv
<1>5. OpenIInv'
  BY StepParts, OpenKeepsIInv, Zenon DEF SmallInv
<1>6. Md5Part'
  BY StepParts, Md5Keeps, Zenon DEF SmallInv, Md5Part
<1>7. ArgsPart'
  BY StepParts, ArgsKeeps, Zenon DEF SmallInv, ArgsPart
<1> QED
  BY <1>1, <1>2, <1>3, <1>4, <1>5, <1>6, <1>7 DEF SmallInv

\* What the parts are for, the program running or not.
LEMMA SmallSafe ==
  ASSUME SmallInv
  PROVE  /\ ClockSetRight /\ AnswerLag /\ DelayFromItsRequest /\ LossIsShare
         /\ ConnectionReleased /\ ChannelsIndependent /\ DigestTrue /\ RequestAsAsked
<1>1. ClockSetRight
  <2>1. CASE prog = "sntpget"
    BY <2>1, Zenon DEF SmallInv, SntpPart, SntpInv
  <2>2. CASE prog # "sntpget"
    BY <2>2 DEF SmallInv, SntpPart, ClockSetRight
  <2> QED
    BY <2>1, <2>2, Zenon
<1>2. AnswerLag
  <2>1. CASE prog = "udpecho"
    BY <2>1, EchoInvLags, Zenon DEF SmallInv, EchoPart
  <2>2. CASE prog # "udpecho"
    <3>1. shown = <<>>
      BY <2>2, Zenon DEF SmallInv, EchoPart
    <3> QED
      BY <3>1 DEF AnswerLag
  <2> QED
    BY <2>1, <2>2, Zenon
<1>3. DelayFromItsRequest
  BY Zenon DEF SmallInv, PingInv, PingPrinted
<1>4. LossIsShare /\ ConnectionReleased /\ ChannelsIndependent
  BY PingInvShares, IInvReleases, ChannelsKept, Zenon DEF SmallInv
<1>5. DigestTrue
  <2>1. CASE prog = "md5sum"
    BY <2>1, Md5InvTells, Zenon DEF SmallInv, Md5Part
  <2>2. CASE prog # "md5sum"
    <3>1. mpc = "getopt" /\ digests = <<>>
      BY <2>2, Zenon DEF SmallInv, Md5Part
    <3> QED
      BY <3>1 DEF DigestTrue, ContextOfPart
  <2> QED
    BY <2>1, <2>2, Zenon
<1>6. RequestAsAsked
  <2>1. CASE prog = "tftp"
    BY <2>1, ArgsTell, Zenon DEF SmallInv, ArgsPart
  <2>2. CASE prog # "tftp"
    BY <2>2 DEF SmallInv, ArgsPart, RequestAsAsked
  <2> QED
    BY <2>1, <2>2, Zenon
<1> QED
  BY <1>1, <1>2, <1>3, <1>4, <1>5, <1>6

THEOREM SmallInvHolds == Spec => []SmallInv
  BY SmallStarts, SmallKeeps, PTL DEF Spec

\* On the machine that runs any of them: sntpget's clock, udpecho's answers, ping's
\* delays and loss, and esenet's handle are as their own theorems say.
THEOREM SmallToolsSafe ==
  Spec => [](ClockSetRight /\ AnswerLag /\ DelayFromItsRequest /\ LossIsShare
             /\ ConnectionReleased)
<1>1. SmallInv => ClockSetRight /\ AnswerLag /\ DelayFromItsRequest /\ LossIsShare
                  /\ ConnectionReleased
  BY SmallSafe
<1> QED
  BY <1>1, SmallInvHolds, PTL

\* A digest is that of the file's bytes, whatever pieces fread brings them in, and the
\* exit status of a check says what has become of the files listed: for blocks, words
\* and reads of any size, and any command lines and files.
THEOREM DigestTrueHolds == Spec => []DigestTrue
<1>1. SmallInv => DigestTrue
  BY SmallSafe
<1> QED
  BY <1>1, SmallInvHolds, PTL

\* The request tftp sends says what the command line says, if its numbers are allowed
\* and it asks for the size of no file that is sent, to the host it names, and the
\* transfer goes with the numbers the server agreed to, in whatever order it gives
\* them: for any command lines, and any server.
THEOREM RequestAsAskedHolds == Spec => []RequestAsAsked
<1>1. SmallInv => RequestAsAsked
  BY SmallSafe
<1> QED
  BY <1>1, SmallInvHolds, PTL

\* Whatever is called for the other channels, a channel has on the chip the patch last
\* loaded for it and the tone last played, at its pitch and volume, sounding until it
\* is stopped: for any channels, frequencies and number of calls.
THEOREM ChannelsIndependentHolds == Spec => []ChannelsIndependent
<1>1. SmallInv => ChannelsIndependent
  BY SmallSafe
<1> QED
  BY <1>1, SmallInvHolds, PTL

----------------------------------------------------------------------------
(* The types of the programs' state, each with the bounds that keep it.    *)
----------------------------------------------------------------------------
(* sntpget: the tries that are left bound the requests.                    *)

SntpBounds ==
  /\ handle \in {"closed", "service"} /\ Len(rbuf) <= RbufMax
  /\ stry \in 0..Tries /\ (spc = "recv" => stry < Tries)
  /\ now <= MaxNow /\ chosenAt \in 0..MaxNow
  /\ chosen = <<>> \/ chosen \in SntpAnswers

LEMMA SntpBegins == ASSUME SntpInit PROVE SntpBounds
<1>1. /\ handle = "closed" /\ Len(rbuf) = 0 /\ stry = 0 /\ spc = "search" /\ now = Start
      /\ chosen = <<>> /\ chosenAt = 0
  BY DEF SntpInit
<1> QED
  BY <1>1, TimesAssumption, TriesAssumption, RbufMaxAssumption DEF SntpBounds

\* What the handle does to its buffer.
LEMMA HandleBounds ==
  ASSUME NEW S, rbuf \in Seq(S), Len(rbuf) <= RbufMax
  PROVE  /\ \A kind : NetUdpOpen(kind) => Len(rbuf') <= RbufMax
         /\ NetUdpClose => Len(rbuf') <= RbufMax
         /\ NetUdpRecvfrom => Len(rbuf') <= RbufMax /\ Head(rbuf) \in S
         /\ \A p : UdpArrive(p) => Len(rbuf') <= RbufMax
<1>1. RbufMax \in Nat /\ Len(<<>>) = 0
  BY RbufMaxAssumption
<1>2. ASSUME NetUdpRecvfrom PROVE Len(rbuf') <= RbufMax /\ Head(rbuf) \in S
  <2>1. rbuf # <<>> /\ rbuf' = Tail(rbuf)
    BY <1>2 DEF NetUdpRecvfrom
  <2>2. Len(Tail(rbuf)) = Len(rbuf) - 1 /\ Head(rbuf) \in S
    BY <2>1
  <2> QED
    BY <1>1, <2>1, <2>2
<1>3. ASSUME NEW p, UdpArrive(p) PROVE Len(rbuf') <= RbufMax
  <2>1. CASE rbuf' = rbuf
    BY <2>1
  <2>2. CASE rbuf' = Append(rbuf, p) /\ Len(rbuf) < RbufMax
    <3>1. Len(Append(rbuf, p)) = Len(rbuf) + 1
      OBVIOUS
    <3> QED
      BY <1>1, <2>2, <3>1
  <2> QED
    BY <1>3, <2>1, <2>2 DEF UdpArrive
<1> QED
  BY <1>1, <1>2, <1>3 DEF NetUdpOpen, NetUdpClose

\* A step of the program.
LEMMA SntpClientBounded == ASSUME SntpKept, SntpBounds, SntpClient PROVE SntpBounds'
<1>1. Tries \in Nat /\ MaxNow \in Nat /\ stry \in 0..Tries /\ now \in Nat /\ now <= MaxNow
  BY TriesAssumption, TimesAssumption DEF SntpBounds, SntpKept
<1>2. rbuf \in Seq(SntpAnswers) /\ Len(rbuf) <= RbufMax
  BY DEF SntpBounds, SntpKept
<1>3. CASE SntpFound
  <2>1. Len(rbuf') <= RbufMax
    BY <1>2, <1>3, HandleBounds DEF SntpFound
  <2> QED
    BY <1>3, <2>1 DEF SntpBounds, SntpFound, NetUdpOpen
<1>4. CASE SntpSend
  <2>1. stry < Tries /\ now' <= MaxNow
    BY <1>4 DEF SntpSend, MoreTries, Passes
  <2> QED
    BY <1>4, <2>1 DEF SntpBounds, SntpSend, udpVars
<1>5. CASE SntpGiveUp
  BY <1>5 DEF SntpBounds, SntpGiveUp, udpVars
<1>6. CASE SntpNoData
  <2>1. stry' \in 0..Tries /\ spc' = "send"
    BY <1>1, <1>6 DEF SntpBounds, SntpNoData, NextTry
  <2> QED
    BY <1>6, <2>1 DEF SntpBounds, SntpNoData, udpVars
<1>7. CASE SntpRecv
  <2>1. Len(rbuf') <= RbufMax /\ chosen' \in SntpAnswers
    BY <1>2, <1>7, HandleBounds DEF SntpRecv
  <2>2. now' <= MaxNow /\ chosenAt' \in 0..MaxNow
    BY <1>1, <1>7 DEF SntpRecv, Passes
  <2> QED
    BY <1>7, <2>1, <2>2 DEF SntpBounds, SntpRecv, NetUdpRecvfrom
<1>8. CASE SntpSet
  <2>1. now' <= MaxNow /\ spc' = "close"
    BY <1>8 DEF SntpSet, Passes
  <2> QED
    BY <1>8, <2>1 DEF SntpBounds, SntpSet, udpVars
<1>9. CASE SntpClose
  <2>1. Len(rbuf') <= RbufMax
    BY <1>2, <1>9, HandleBounds DEF SntpClose
  <2> QED
    BY <1>9, <2>1 DEF SntpBounds, SntpClose, NetUdpClose
<1> QED
  BY <1>3, <1>4, <1>5, <1>6, <1>7, <1>8, <1>9 DEF SntpClient

LEMMA SntpBounded ==
  ASSUME SntpKept, SntpBounds, [SntpNext]_sntpVars
  PROVE  SntpBounds'
<1>1. rbuf \in Seq(SntpAnswers) /\ Len(rbuf) <= RbufMax
  BY DEF SntpBounds, SntpKept
<1>2. CASE SntpNotFound \/ SntpServe \/ UNCHANGED sntpVars
  BY <1>2 DEF SntpBounds, SntpNotFound, SntpServe, udpVars, sntpVars
<1>3. CASE SntpArrive
  <2>1. Len(rbuf') <= RbufMax
    BY <1>1, <1>3, HandleBounds DEF SntpArrive
  <2> QED
    BY <1>3, <2>1 DEF SntpBounds, SntpArrive, UdpArrive
<1>4. CASE SntpTick
  <2>1. now' <= MaxNow
    BY <1>4 DEF SntpTick, Passes
  <2> QED
    BY <1>4, <2>1 DEF SntpBounds, SntpTick, udpVars
<1> QED
  BY <1>2, <1>3, <1>4, SntpClientBounded DEF SntpNext

LEMMA SntpTyped == ASSUME SntpKept, SntpBounds PROVE SntpTypeOK
  BY TimesAssumption DEF SntpKept, SntpBounds, SntpTypeOK

----------------------------------------------------------------------------
(* udpecho: a string takes its line from the keys.                         *)

EchoQueued == [tid : {Service, "other"}, num : 0..MaxKeys]
EchoSeen == [num : 0..MaxKeys, wait : 1..MaxKeys]

EchoBounds ==
  /\ handle \in HandleKinds /\ rbuf \in Seq(EchoQueued) /\ Len(rbuf) <= RbufMax
  /\ epc \in {"search", "host", "ask", "wait", "close", "end"}
  /\ connected \in BOOLEAN /\ disturbed \in BOOLEAN
  /\ kbd \in Seq({"char", "enter"}) /\ keys \in 0..MaxKeys
  /\ question \in Nat /\ question + Len(kbd) <= keys /\ (epc = "wait" => question > 0)
  /\ wire \in Seq(1..MaxKeys) /\ shown \in Seq(EchoSeen)
  /\ aborts \in Nat /\ foreign \in 0..MaxForeign

LEMMA EchoBegins == ASSUME EchoInit PROVE EchoBounds
<1>1. MaxKeys \in Nat /\ MaxForeign \in Nat /\ RbufMax \in Nat /\ Len(<<>>) = 0
  BY EchoBoundAssumption, RbufMaxAssumption
<1>2. \A S : <<>> \in Seq(S)
  OBVIOUS
<1>3. /\ handle = "closed" /\ rbuf = <<>> /\ epc = "search" /\ connected \in BOOLEAN
      /\ kbd = <<>> /\ keys = 0 /\ question = 0 /\ wire = <<>> /\ shown = <<>> /\ aborts = 0
      /\ foreign = 0 /\ disturbed = FALSE
  BY DEF EchoInit
<1>4. /\ rbuf \in Seq(EchoQueued) /\ kbd \in Seq({"char", "enter"})
      /\ wire \in Seq(1..MaxKeys) /\ shown \in Seq(EchoSeen)
  BY <1>2, <1>3, Zenon
<1>5. Len(rbuf) <= RbufMax /\ question + Len(kbd) <= keys
  BY <1>1, <1>3
<1>6. /\ handle \in HandleKinds /\ keys \in 0..MaxKeys /\ question \in Nat /\ aborts \in Nat
      /\ foreign \in 0..MaxForeign
      /\ epc \in {"search", "host", "ask", "wait", "close", "end"} /\ epc # "wait"
  BY <1>1, <1>3 DEF HandleKinds
<1>7. disturbed \in BOOLEAN /\ connected \in BOOLEAN
  BY <1>3, Zenon
<1> QED
  BY <1>4, <1>5, <1>6, <1>7, Zenon DEF EchoBounds

\* A line is taken from the keys with all before it.
LEMMA LineTakes ==
  ASSUME EchoBounds, NEW n \in 1..Len(kbd), Line(n)
  PROVE  kbd' \in Seq({"char", "enter"}) /\ Len(kbd') = Len(kbd) - n /\ Len(kbd) \in Nat
<1>1. kbd \in Seq({"char", "enter"}) /\ Len(kbd) \in Nat
  BY DEF EchoBounds
<1>2. kbd' = SubSeq(kbd, n + 1, Len(kbd)) /\ n \in Nat /\ n <= Len(kbd)
  BY <1>1 DEF Line
<1> QED
  BY <1>1, <1>2

\* A datagram that arrives is queued or dropped.
LEMMA QueueOn ==
  ASSUME NEW S, rbuf \in Seq(S), Len(rbuf) <= RbufMax, NEW p \in S, UdpArrive(p)
  PROVE  rbuf' \in Seq(S) /\ Len(rbuf') <= RbufMax /\ handle' = handle
<1>1. Append(rbuf, p) \in Seq(S)
  OBVIOUS
<1>2. rbuf' = rbuf \/ rbuf' = Append(rbuf, p)
  BY DEF UdpArrive
<1>3. rbuf' \in Seq(S)
  BY <1>1, <1>2
<1>4. \A q : UdpArrive(q) => Len(rbuf') <= RbufMax
  BY HandleBounds, Zenon
<1> QED
  BY <1>3, <1>4 DEF UdpArrive

\* A step of the program.
LEMMA EchoClientBounded ==
  ASSUME EchoBounds,
         EchoFound \/ EchoNotFound \/ EchoHost \/ EchoAsk \/ EchoRecv \/ EchoAbort \/ EchoClose
  PROVE  EchoBounds'
<1>1. MaxKeys \in Nat /\ RbufMax \in Nat /\ Len(<<>>) = 0 /\ <<>> \in Seq(EchoQueued)
  BY EchoBoundAssumption, RbufMaxAssumption
<1>2. /\ Len(kbd) \in Nat /\ keys \in 0..MaxKeys /\ question \in Nat
      /\ question + Len(kbd) <= keys
  BY DEF EchoBounds
<1>3. CASE EchoFound \/ EchoClose
  <2>1. /\ rbuf' = <<>> /\ handle' \in HandleKinds /\ epc' \in {"ask", "host", "end"}
        /\ UNCHANGED <<connected, kbd, keys, question, wire, shown, aborts, foreign, disturbed>>
    BY <1>3 DEF EchoFound, EchoClose, NetUdpOpen, NetUdpClose, HandleKind, HandleKinds, EchoStart
  <2> QED
    BY <1>1, <2>1 DEF EchoBounds
<1>4. CASE EchoNotFound
  BY <1>4 DEF EchoNotFound, udpVars, EchoBounds
<1>5. CASE EchoHost
  <2>1. PICK n \in 1..Len(kbd) : Line(n) /\ epc' = (IF n = 1 THEN "close" ELSE "ask")
    BY <1>5 DEF EchoHost
  <2>2. kbd' \in Seq({"char", "enter"}) /\ question + Len(kbd') <= keys
    BY <1>2, <2>1, LineTakes
  <2> QED
    BY <1>5, <2>1, <2>2 DEF EchoHost, udpVars, EchoBounds
<1>6. CASE EchoAsk
  <2>1. PICK n \in 1..Len(kbd), answered \in BOOLEAN :
          /\ Line(n)
          /\ IF n = 1
             THEN epc' = "close" /\ UNCHANGED <<question, wire>>
             ELSE /\ epc' = "wait"
                  /\ question' = question + 1
                  /\ wire' = IF answered THEN Append(wire, question + 1) ELSE wire
    BY <1>6 DEF EchoAsk
  <2>2. kbd' \in Seq({"char", "enter"}) /\ Len(kbd') = Len(kbd) - n
    BY <2>1, LineTakes
  <2>3. UNCHANGED <<udpVars, connected, keys, shown, aborts, foreign, disturbed>>
    BY <1>6 DEF EchoAsk
  <2>4. CASE n = 1
    BY <1>2, <2>1, <2>2, <2>3, <2>4 DEF udpVars, EchoBounds
  <2>5. CASE n # 1
    <3>1. question' \in Nat /\ question' + Len(kbd') <= keys /\ question' > 0 /\ epc' = "wait"
      BY <1>2, <2>1, <2>2, <2>5
    <3>2. question + 1 \in 1..MaxKeys
      BY <1>1, <1>2, <2>1, <2>5
    <3>3. wire \in Seq(1..MaxKeys)
      BY DEF EchoBounds
    <3>4. wire' \in Seq(1..MaxKeys)
      <4> DEFINE S == 1..MaxKeys
      <4> HIDE DEF S
      <4>1. wire \in Seq(S) /\ question + 1 \in S
        BY <3>2, <3>3 DEF S
      <4>2. Append(wire, question + 1) \in Seq(S)
        BY <4>1
      <4>3. wire' \in Seq(S)
        BY <2>1, <2>5, <4>1, <4>2
      <4> QED
        BY <4>3 DEF S
    <3> QED
      BY <2>2, <2>3, <3>1, <3>4 DEF udpVars, EchoBounds
  <2> QED
    BY <2>4, <2>5
<1>7. CASE EchoRecv
  <2>1. /\ epc = "wait" /\ rbuf # <<>> /\ rbuf' = Tail(rbuf) /\ handle' = handle
        /\ shown' = Append(shown, [num |-> Head(rbuf).num, wait |-> question])
        /\ epc' \in {"ask", "host"}
        /\ UNCHANGED <<connected, kbd, keys, question, wire, aborts, foreign, disturbed>>
    BY <1>7 DEF EchoRecv, NetUdpRecvfrom, EchoStart
  <2>2. rbuf \in Seq(EchoQueued) /\ Len(rbuf) <= RbufMax
    BY DEF EchoBounds
  <2>3. rbuf' \in Seq(EchoQueued) /\ Head(rbuf) \in EchoQueued /\ Len(rbuf') <= RbufMax
    <3>1. Len(Tail(rbuf)) = Len(rbuf) - 1 /\ Tail(rbuf) \in Seq(EchoQueued)
          /\ Head(rbuf) \in EchoQueued
      BY <2>1, <2>2
    <3> QED
      BY <1>1, <2>1, <2>2, <3>1
  <2>4. question \in 1..MaxKeys
    BY <1>1, <1>2, <2>1 DEF EchoBounds
  <2>5. [num |-> Head(rbuf).num, wait |-> question] \in EchoSeen
    BY <2>3, <2>4 DEF EchoQueued, EchoSeen
  <2>6. shown' \in Seq(EchoSeen)
    BY <2>1, <2>5 DEF EchoBounds
  <2> QED
    BY <2>1, <2>3, <2>6 DEF EchoBounds
<1>8. CASE EchoAbort
  <2>1. aborts' \in Nat /\ epc' \in {"ask", "host"}
    BY <1>8 DEF EchoBounds, EchoAbort, EchoStart
  <2> QED
    BY <1>8, <2>1 DEF EchoAbort, udpVars, EchoBounds
<1> QED
  BY <1>3, <1>4, <1>5, <1>6, <1>7, <1>8

\* A key, or a datagram.
LEMMA EchoBounded ==
  ASSUME EchoBounds, [EchoNext]_echoVars
  PROVE  EchoBounds'
<1>1. MaxKeys \in Nat /\ MaxForeign \in Nat
  BY EchoBoundAssumption
<1>2. /\ rbuf \in Seq(EchoQueued) /\ Len(rbuf) <= RbufMax /\ wire \in Seq(1..MaxKeys)
      /\ foreign \in 0..MaxForeign
  BY DEF EchoBounds
<1>3. Foreign \in EchoQueued /\ \A n \in 1..MaxKeys : Echo(n) \in EchoQueued
  BY <1>1 DEF Foreign, Echo, EchoQueued
<1>4. \A k \in 1..Len(wire) : wire[k] \in 1..MaxKeys
  <2> DEFINE S == 1..MaxKeys
  <2> HIDE DEF S
  <2>1. wire \in Seq(S)
    BY <1>2 DEF S
  <2>2. \A k \in 1..Len(wire) : wire[k] \in S
    BY <2>1
  <2> QED
    BY <2>2 DEF S
<1>5. CASE EchoKey
  <2>1. PICK k \in {"char", "enter"} : kbd' = Append(kbd, k)
    BY <1>5 DEF EchoKey
  <2>2. kbd \in Seq({"char", "enter"})
    BY DEF EchoBounds
  <2>3. kbd' \in Seq({"char", "enter"}) /\ Len(kbd') = Len(kbd) + 1 /\ Len(kbd) \in Nat
    BY <2>1, <2>2
  <2>4. keys' \in 0..MaxKeys /\ question + Len(kbd') <= keys'
    BY <1>1, <1>5, <2>3 DEF EchoKey, EchoBounds
  <2> QED
    BY <1>5, <2>3, <2>4 DEF EchoKey, udpVars, EchoBounds
<1>6. CASE EchoArrive
  <2>1. wire # <<>> /\ UdpArrive(Echo(Head(wire))) /\ wire' = Tail(wire)
    BY <1>6 DEF EchoArrive
  <2>2. Head(wire) \in 1..MaxKeys /\ wire' \in Seq(1..MaxKeys)
    <3> DEFINE S == 1..MaxKeys
    <3> HIDE DEF S
    <3>1. wire \in Seq(S)
      BY <1>2 DEF S
    <3>2. Head(wire) \in S /\ Tail(wire) \in Seq(S)
      BY <2>1, <3>1
    <3> QED
      BY <2>1, <3>2 DEF S
  <2>3. rbuf' \in Seq(EchoQueued) /\ Len(rbuf') <= RbufMax /\ handle' = handle
    BY <1>2, <1>3, <2>1, <2>2, QueueOn
  <2> QED
    BY <1>6, <2>2, <2>3 DEF EchoArrive, EchoBounds
<1>7. CASE EchoDisturb
  <2>1. PICK k \in 1..Len(wire) : UdpArrive(Echo(wire[k]))
    BY <1>7 DEF EchoDisturb
  <2>2. Echo(wire[k]) \in EchoQueued
    BY <1>3, <1>4, <2>1
  <2>3. rbuf' \in Seq(EchoQueued) /\ Len(rbuf') <= RbufMax /\ handle' = handle
    BY <1>2, <2>1, <2>2, QueueOn
  <2>4. foreign' \in 0..MaxForeign /\ disturbed' = TRUE
        /\ UNCHANGED <<epc, connected, kbd, keys, question, wire, shown, aborts>>
    BY <1>1, <1>2, <1>7 DEF EchoDisturb
  <2> QED
    BY <2>3, <2>4 DEF EchoBounds
<1>8. CASE EchoForeign
  <2>1. rbuf' \in Seq(EchoQueued) /\ Len(rbuf') <= RbufMax /\ handle' = handle
    BY <1>2, <1>3, <1>8, QueueOn DEF EchoForeign
  <2>2. foreign' \in 0..MaxForeign /\ disturbed' \in BOOLEAN
        /\ UNCHANGED <<epc, connected, kbd, keys, question, wire, shown, aborts>>
    BY <1>1, <1>2, <1>8 DEF EchoForeign
  <2> QED
    BY <2>1, <2>2 DEF EchoBounds
<1>9. CASE UNCHANGED echoVars
  BY <1>9 DEF echoVars, udpVars, EchoBounds
<1> QED
  BY <1>5, <1>6, <1>7, <1>8, <1>9, EchoClientBounded DEF EchoNext

LEMMA EchoTypesKept == ASSUME EchoBounds PROVE EchoTypeOK
<1>1. /\ \A k \in 1..Len(rbuf) : rbuf[k] \in EchoQueued
      /\ \A k \in 1..Len(shown) : shown[k] \in EchoSeen
  BY DEF EchoBounds
<1>2. Len(kbd) <= keys /\ question \in 0..MaxKeys
  <2>1. Len(kbd) \in Nat /\ MaxKeys \in Nat
    BY EchoBoundAssumption DEF EchoBounds
  <2> QED
    BY <2>1 DEF EchoBounds
<1> QED
  BY <1>1, <1>2 DEF EchoBounds, EchoTypeOK, EchoQueued, EchoSeen

----------------------------------------------------------------------------
(* ping: an answer printed has arrived.                                    *)

PingBounds ==
  /\ PingTypeOK
  /\ Len(printed) + (IF Counts(slot) THEN 1 ELSE 0) <= arrived

LEMMA PingBegins == ASSUME PingInit PROVE PingBounds
<1>1. /\ ppc = "turn" /\ mtime = 0 /\ pnow = 0 /\ last = 0 /\ sentcount = 0 /\ receivedcount = 0
      /\ requests = {} /\ slot = [type |-> "none", seq |-> 0, ts |-> 0] /\ arrived = 0
      /\ Len(printed) = 0 /\ loss = -1
  BY DEF PingInit, NoMessage
<1>2. UintMod \in Nat \ {0} /\ MaxTime \in Nat /\ MaxReplies \in Nat
  BY PingAssumption
<1>3. slot \in [type : {"none", "other", "reply"}, seq : 0..UintMod - 1, ts : 0..mtime]
  BY <1>1, <1>2
<1> QED
  BY <1>1, <1>2, <1>3 DEF PingBounds, PingTypeOK, Counts

\* A percentage in uints is one.
LEMMA PercentType ==
  ASSUME NEW s \in Nat \ {0}, NEW r \in Nat
  PROVE  Percent(s, r) \in 0..(UintMod - 1)
<1> DEFINE x == (s - r) * Hundred
           m == x % UintMod
<1>1. UintMod \in Nat \ {0} /\ x \in Int
  BY PingAssumption
<1> HIDE DEF x
<1>2. m \in 0..(UintMod - 1)
  BY <1>1
<1> HIDE DEF m
<1>3. m \in Nat /\ m \div s \in Nat /\ (m \div s) * s <= m
  BY <1>1, <1>2, Quotient
<1> DEFINE q == m \div s
<1> HIDE DEF q
<1>4. q \in Nat /\ q * s <= m
  BY <1>3 DEF q
<1>5. q * 1 <= q * s
  BY <1>4
<1>6. q <= m
  BY <1>3, <1>4, <1>5
<1>7. q \in 0..(UintMod - 1)
  BY <1>1, <1>2, <1>4, <1>6
<1> QED
  BY <1>7 DEF q, m, x, Percent

LEMMA PingTurnBounded == ASSUME PingInv, PingBounds, PingTurn PROVE PingBounds'
<1>1. /\ ppc = "turn" /\ ppc' = "look" /\ pnow' = mtime
      /\ UNCHANGED <<mtime, receivedcount, slot, arrived, printed, loss>>
  BY DEF PingTurn
<1>2. UintMod \in Nat \ {0} /\ MaxTime \in Nat
  BY PingAssumption
<1>3. mtime \in 0..MaxTime /\ pnow' \in 0..mtime
  BY <1>1, <1>2 DEF PingBounds, PingTypeOK
<1>4. /\ last' \in 0..mtime /\ sentcount' \in 0..UintMod - 1
      /\ requests' \subseteq [seq : 0..UintMod - 1, ts : 0..mtime]
  <2>1. CASE UNCHANGED <<requests, last, sentcount>>
    BY <2>1 DEF PingBounds, PingTypeOK
  <2>2. CASE PingSend
    <3>1. /\ requests' = requests \cup {[seq |-> sentcount, ts |-> mtime]}
          /\ last' = mtime /\ sentcount' = (sentcount + 1) % UintMod
      BY <2>2 DEF PingSend
    <3>2. sentcount \in 0..UintMod - 1 /\ requests \subseteq [seq : 0..UintMod - 1, ts : 0..mtime]
      BY DEF PingBounds, PingTypeOK
    <3>3. sentcount' \in 0..UintMod - 1
      BY <1>2, <3>1, <3>2, UintParts
    <3>4. mtime \in 0..mtime
      BY <1>2, <1>3
    <3> QED
      BY <3>1, <3>2, <3>3, <3>4
  <2> QED
    BY <2>1, <2>2 DEF PingTurn
<1>5. PingTypeOK'
  BY <1>1, <1>3, <1>4 DEF PingBounds, PingTypeOK
<1> QED
  BY <1>1, <1>5 DEF PingBounds, Counts

LEMMA PingTakeBounded == ASSUME PingInv, PingBounds, PingTake PROVE PingBounds'
<1>1. /\ ppc = "look" /\ slot' = NoMessage /\ ~Counts(slot')
      /\ UNCHANGED <<mtime, pnow, last, sentcount, requests, arrived>>
  BY DEF PingTake, NoMessage, Counts
<1>2. UintMod \in Nat \ {0} /\ MaxTime \in Nat /\ MaxReplies \in Nat
  BY PingAssumption
<1>3. /\ mtime \in 0..MaxTime /\ pnow \in 0..mtime /\ sentcount \in 0..UintMod - 1
      /\ receivedcount \in 0..UintMod - 1
      /\ slot \in [type : {"none", "other", "reply"}, seq : 0..UintMod - 1, ts : 0..mtime]
      /\ Len(printed) + (IF Counts(slot) THEN 1 ELSE 0) <= arrived
      /\ \A k \in 1..Len(printed) : printed[k] \in [seq : 0..UintMod - 1, start : Int]
      /\ arrived \in 0..MaxReplies
  BY DEF PingBounds, PingTypeOK
<1>4. slot' \in [type : {"none", "other", "reply"}, seq : 0..UintMod - 1, ts : 0..mtime]
  BY <1>1, <1>2, <1>3 DEF NoMessage
<1>5. /\ receivedcount' \in 0..UintMod - 1 /\ Len(printed') <= arrived
      /\ \A k \in 1..Len(printed') : (printed')[k] \in [seq : 0..UintMod - 1, start : Int]
  <2>1. CASE ~Counts(slot)
    <3>1. UNCHANGED <<receivedcount, printed>>
      BY <2>1 DEF PingTake
    <3> QED
      BY <1>3, <2>1, <3>1
  <2>2. CASE Counts(slot)
    <3> DEFINE new == [seq |-> slot.seq, start |-> pnow - Delay(slot)]
    <3>1. receivedcount' = (receivedcount + 1) % UintMod /\ printed' = Append(printed, new)
      BY <2>2 DEF PingTake
    <3>2. new \in [seq : 0..UintMod - 1, start : Int]
      BY <1>2, <1>3 DEF Delay
    <3> HIDE DEF new
    <3>3. printed \in Seq(PingLines)
      BY DEF PingInv, PingPrinted
    <3>4. /\ Len(printed') = Len(printed) + 1 /\ Len(printed) \in Nat
          /\ \A k \in 1..Len(printed') :
               (k \in 1..Len(printed) /\ (printed')[k] = printed[k]) \/ (printed')[k] = new
      BY <3>1, <3>3
    <3>5. receivedcount' \in 0..UintMod - 1
      BY <1>2, <1>3, <3>1, UintParts
    <3>6. \A k \in 1..Len(printed') : (printed')[k] \in [seq : 0..UintMod - 1, start : Int]
      BY <1>3, <3>2, <3>4
    <3> QED
      BY <1>3, <2>2, <3>4, <3>5, <3>6
  <2> QED
    BY <2>1, <2>2
<1>6. ppc' \in {"turn", "end", "fault"} /\ (ppc' = "end" => sentcount # 0)
  BY DEF PingTake
<1>7. loss' \in -1..UintMod - 1
  <2>1. CASE UNCHANGED loss
    BY <2>1 DEF PingBounds, PingTypeOK
  <2>2. CASE sentcount # 0 /\ loss' = Percent(sentcount, receivedcount')
    <3>1. sentcount \in Nat \ {0} /\ receivedcount' \in Nat
      BY <1>2, <1>3, <1>5, <2>2
    <3>2. loss' \in 0..(UintMod - 1)
      BY <2>2, <3>1, PercentType
    <3> QED
      BY <1>2, <3>2
  <2> QED
    BY <2>1, <2>2 DEF PingTake
<1>8. ppc' = "end" => sentcount' > 0
  BY <1>1, <1>2, <1>3, <1>6
<1>9. UNCHANGED <<mtime, pnow, last, sentcount, requests, arrived>>
  BY <1>1
<1>10. PingTypeOK'
  BY <1>4, <1>5, <1>6, <1>7, <1>8, <1>9 DEF PingBounds, PingTypeOK
<1>11. Len(printed') + (IF Counts(slot') THEN 1 ELSE 0) <= arrived'
  <2>1. Len(printed') \in Nat
    <3>1. (printed \in Seq(PingLines))'
      BY PingTakeKeepsInv DEF PingInv, PingPrinted
    <3> QED
      BY <3>1
  <2> QED
    BY <1>1, <1>5, <2>1
<1> QED
  BY <1>10, <1>11 DEF PingBounds

LEMMA PingNetworkBounded ==
  ASSUME PingInv, PingBounds, PingReply \/ PingOther \/ PingTick
  PROVE  PingBounds'
<1>1. UintMod \in Nat \ {0} /\ MaxTime \in Nat /\ MaxReplies \in Nat
  BY PingAssumption
<1>2. UNCHANGED <<ppc, pnow, last, sentcount, receivedcount, requests, printed, loss>>
  BY DEF PingReply, PingOther, PingTick
<1>3. /\ mtime \in 0..MaxTime /\ pnow \in 0..mtime /\ last \in 0..mtime
      /\ requests \subseteq [seq : 0..UintMod - 1, ts : 0..mtime]
      /\ slot \in [type : {"none", "other", "reply"}, seq : 0..UintMod - 1, ts : 0..mtime]
      /\ arrived \in 0..MaxReplies
      /\ Len(printed) + (IF Counts(slot) THEN 1 ELSE 0) <= arrived /\ Len(printed) <= arrived
  BY DEF PingBounds, PingTypeOK
<1>4. Len(printed) \in Nat
  BY DEF PingInv, PingPrinted
<1>5. CASE PingReply \/ PingOther
  <2>1. arrived' = arrived + 1 /\ arrived < MaxReplies /\ mtime' = mtime
    BY <1>5 DEF PingReply, PingOther
  <2>2. slot' \in [type : {"none", "other", "reply"}, seq : 0..UintMod - 1, ts : 0..mtime]
    <3>1. CASE PingReply
      <4>1. PICK r \in requests : slot' = [type |-> "reply", seq |-> r.seq, ts |-> r.ts]
        BY <3>1 DEF PingReply
      <4>2. r \in [seq : 0..UintMod - 1, ts : 0..mtime]
        BY <1>3
      <4> QED
        BY <4>1, <4>2
    <3>2. CASE PingOther
      <4>1. slot' = [type |-> "other", seq |-> 0, ts |-> 0]
        BY <3>2 DEF PingOther, NoMessage
      <4> QED
        BY <1>1, <1>3, <4>1
    <3> QED
      BY <1>5, <3>1, <3>2
  <2>3. arrived' \in 0..MaxReplies /\ Len(printed) <= arrived' /\ Len(printed) + 1 <= arrived'
    BY <1>1, <1>3, <1>4, <2>1
  <2>4. PingTypeOK'
    BY <1>2, <2>1, <2>2, <2>3 DEF PingBounds, PingTypeOK
  <2>5. Len(printed') + (IF Counts(slot') THEN 1 ELSE 0) <= arrived'
    BY <1>2, <1>4, <2>3
  <2> QED
    BY <2>4, <2>5 DEF PingBounds
<1>6. CASE PingTick
  <2>1. mtime' = mtime + 1 /\ mtime < MaxTime /\ UNCHANGED <<slot, arrived>>
    BY <1>6 DEF PingTick
  <2>2. mtime' \in 0..MaxTime /\ 0..mtime \subseteq 0..mtime'
    BY <1>1, <1>3, <2>1
  <2>3. /\ pnow \in 0..mtime' /\ last \in 0..mtime'
        /\ requests \subseteq [seq : 0..UintMod - 1, ts : 0..mtime']
        /\ slot \in [type : {"none", "other", "reply"}, seq : 0..UintMod - 1, ts : 0..mtime']
    <3> DEFINE T == 0..mtime
               U == 0..mtime'
    <3>1. T \subseteq U /\ pnow \in T /\ last \in T
          /\ requests \subseteq [seq : 0..UintMod - 1, ts : T]
          /\ slot \in [type : {"none", "other", "reply"}, seq : 0..UintMod - 1, ts : T]
      BY <1>3, <2>2
    <3> HIDE DEF T, U
    <3>2. /\ pnow \in U /\ last \in U
          /\ requests \subseteq [seq : 0..UintMod - 1, ts : U]
          /\ slot \in [type : {"none", "other", "reply"}, seq : 0..UintMod - 1, ts : U]
      BY <3>1
    <3> QED
      BY <3>2 DEF U
  <2>4. PingTypeOK'
    BY <1>2, <2>1, <2>2, <2>3 DEF PingBounds, PingTypeOK
  <2> QED
    BY <1>2, <2>1, <2>4 DEF PingBounds, Counts
<1> QED
  BY <1>5, <1>6

LEMMA PingBounded == ASSUME PingInv, PingBounds, [PingNext]_pingVars PROVE PingBounds'
<1>1. CASE UNCHANGED pingVars
  BY <1>1 DEF pingVars, PingBounds, PingTypeOK, Counts
<1> QED
  BY <1>1, PingTurnBounded, PingTakeBounded, PingNetworkBounded DEF PingNext

----------------------------------------------------------------------------
(* md5sum: a context keeps its form, whatever is read into it.             *)

Md5Bounds ==
  /\ sp \in Nat \ {0} /\ status \in {-1, 0, 1, 2, 3} /\ failed <= checked
  /\ ctx.low \in 0..(WordMod - 1) /\ Len(ctx.in) = BlockBytes

\* A context of any part of a message has the form.
LEMMA ContextForm ==
  ASSUME NEW c, NEW D, NEW n \in Nat, ContextOf(c, D, n)
  PROVE  c.low \in 0..(WordMod - 1) /\ Len(c.in) = BlockBytes
<1>1. PICK i : Waits(i, D, n)
               /\ c = Context((8 * n) % WordMod, (8 * n) \div WordMod, i,
                              FullBlocks(D, n \div BlockBytes))
  BY Zenon DEF ContextOf, Holds
<1>2. c.low = (8 * n) % WordMod /\ c.in = i
  BY <1>1, ContextFields
<1>3. WordMod \in Nat \ {0} /\ BlockBytes \in Nat
  BY Md5Assumption
<1>4. (8 * n) % WordMod \in 0..(WordMod - 1)
  BY <1>3
<1>5. Len(i) = BlockBytes
  BY <1>1, <1>3 DEF Waits
<1> QED
  BY <1>2, <1>4, <1>5

\* The empty one, too.
LEMMA EmptyForm == MD5Init.low \in 0..(WordMod - 1) /\ Len(MD5Init.in) = BlockBytes
  BY ContextBegins, ContextForm

LEMMA Md5Begins == ASSUME NEW jobs, Md5Init(jobs) PROVE Md5Bounds
<1>1. sp = 1 /\ ctx = MD5Init /\ failed = 0 /\ checked = 0 /\ status = -1
  BY Zenon DEF Md5Init
<1>2. ctx.low \in 0..(WordMod - 1) /\ Len(ctx.in) = BlockBytes
  BY <1>1, EmptyForm, Zenon
<1> QED
  BY <1>1, <1>2 DEF Md5Bounds

\* The next of the names or lines, its file opened or passed by.
LEMMA OpenForm ==
  ASSUME Md5Bounds, NEW name, OpenFile(name)
  PROVE  ctx'.low \in 0..(WordMod - 1) /\ Len(ctx'.in) = BlockBytes
<1>1. ctx' = MD5Init \/ ctx' = ctx
  BY Zenon DEF OpenFile
<1> QED
  BY <1>1, EmptyForm, Zenon DEF Md5Bounds

LEMMA Md5Bounded == ASSUME Md5Inv, Md5Bounds, [Md5Next]_md5Vars PROVE Md5Bounds'
<1>1. failed \in Nat /\ checked \in Nat /\ check \in {0, 1} /\ ex \in {0, 2}
  BY DEF Md5Inv, Md5Shape
<1>2. CASE Getopt
  <2>1. UNCHANGED <<ctx, failed, checked>>
    BY <1>2, Zenon DEF Getopt
  <2>2. sp' \in Nat \ {0} /\ status' \in {-1, 0, 1, 2, 3}
    <3>1. sp' = sp \/ sp' = 1 \/ sp' = sp + 1
      BY <1>2, Zenon DEF Getopt, GetoptEof, GetoptLetter
    <3>2. status' = status \/ status' = 2
      BY <1>2, Zenon DEF Getopt, GetoptEof, GetoptLetter, Exit
    <3> QED
      BY <3>1, <3>2 DEF Md5Bounds
  <2> QED
    BY <2>1, <2>2 DEF Md5Bounds
<1>3. CASE MainNext
  <2>1. UNCHANGED <<sp, failed, checked>>
    BY <1>3, Zenon DEF MainNext
  <2>2. (\E name : OpenFile(name) /\ status' = status) \/ (ctx' = ctx /\ status' = ex)
    BY <1>3, Zenon DEF MainNext, Exit
  <2>3. ctx'.low \in 0..(WordMod - 1) /\ Len(ctx'.in) = BlockBytes
    BY <2>2, OpenForm, Zenon DEF Md5Bounds
  <2>4. status' \in {-1, 0, 1, 2, 3}
    BY <1>1, <2>2 DEF Md5Bounds
  <2> QED
    BY <2>1, <2>3, <2>4 DEF Md5Bounds
<1>4. CASE DoCheck
  <2>1. UNCHANGED <<sp, failed, checked>>
    BY <1>4, Zenon DEF DoCheck
  <2>2. \/ \E name : OpenFile(name) /\ status' = status
        \/ ctx' = ctx /\ status' = status
        \/ ctx' = ctx /\ status' = 2
        \/ ctx' = ctx
           /\ status' = (IF checked = 0 THEN 3 ELSE IF ex = 0 /\ failed > 0 THEN 1 ELSE ex)
    BY <1>4, Zenon DEF DoCheck, Exit
  <2>3. ctx'.low \in 0..(WordMod - 1) /\ Len(ctx'.in) = BlockBytes
    BY <2>2, OpenForm, Zenon DEF Md5Bounds
  <2>4. status' \in {-1, 0, 1, 2, 3}
    BY <1>1, <2>2 DEF Md5Bounds
  <2> QED
    BY <2>1, <2>3, <2>4 DEF Md5Bounds
<1>5. CASE MdRead
  <2>1. mpc' = "read" /\ UNCHANGED <<sp, failed, checked, status>>
    BY <1>5, Zenon DEF MdRead
  <2>2. ContextOf(ctx', job'.files[at'.name].data, at'.pos) /\ at'.pos \in Nat
    BY <1>5, <2>1, MdReadKeeps, Zenon DEF Md5Inv, Md5Reading, Md5Shape
  <2>3. ctx'.low \in 0..(WordMod - 1) /\ Len(ctx'.in) = BlockBytes
    BY <2>2, ContextForm, Zenon
  <2> QED
    BY <2>1, <2>3 DEF Md5Bounds
<1>6. CASE MdFinal
  <2>1. UNCHANGED <<sp, ctx, status>>
    BY <1>6, Zenon DEF MdFinal
  <2>2. PICK f, digest : Answer(f, digest)
    BY <1>6, Zenon DEF MdFinal
  <2>3. failed' <= checked'
    <3>1. \/ UNCHANGED <<failed, checked>>
          \/ failed' \in {failed, failed + 1} /\ checked' = checked + 1
      BY <2>2 DEF Answer
    <3> QED
      BY <1>1, <3>1 DEF Md5Bounds
  <2> QED
    BY <2>1, <2>3 DEF Md5Bounds
<1>7. CASE UNCHANGED md5Vars
  BY <1>7 DEF md5Vars, Md5Bounds
<1> QED
  BY <1>2, <1>3, <1>4, <1>5, <1>6, <1>7, Zenon DEF Md5Next

LEMMA Md5Typed == ASSUME Md5Inv, Md5Bounds PROVE Md5TypeOK
<1>1. /\ mpc \in {"getopt", "next", "read", "end"} /\ check \in {0, 1} /\ ex \in {0, 2}
      /\ optind \in 1..(Len(job.argv) + 1)
  BY Zenon DEF Md5Inv, Md5Shape
<1> QED
  BY <1>1, Zenon DEF Md5Bounds, Md5TypeOK

----------------------------------------------------------------------------
(* tftp: what the options and the server say are numbers.                  *)

\* Options have numbers for values.
Numbered(S) == \A o \in S : o[2] \in Nat

ArgsBounds ==
  /\ opcode \in {"r", "s"} /\ mode \in {"a", "b", "m"}
  /\ optT \in Nat /\ blocksize \in Nat /\ optS \in Nat \cup {-1}
  /\ oi \in 1..(Len(rpkt) + 1)
  /\ apc = "oack" => Numbered(server.agreed)

LEMMA ArgsBegins == ASSUME NEW lines, ArgsInit(lines) PROVE ArgsBounds
<1>1. /\ apc = "para" /\ opcode = "r" /\ mode = "b" /\ optT = 0 /\ optS = -1 /\ blocksize = 512
      /\ Len(rpkt) = 0 /\ oi = 1
  BY DEF ArgsInit
<1> QED
  BY <1>1 DEF ArgsBounds

\* An argument's number is one.
LEMMA ParaBounded == ASSUME ArgsInv, ArgsBounds, Para PROVE ArgsBounds'
<1>1. /\ IsLine(argv) /\ argi \in 0..Len(argv) /\ argi < Len(argv) /\ apc' = "para"
      /\ UNCHANGED <<blocksize, rpkt, oi>> /\ (Word \/ Switch)
  BY DEF ArgsInv, Para
<1> DEFINE T == [opt : STRING, num : Nat, word : Seq(STRING)]
<1>2. argv \in Seq(T)
  BY <1>1 DEF IsLine
<1> HIDE DEF T
<1>3. argi + 1 \in 1..Len(argv)
  BY <1>1, <1>2
<1>4. Arg \in T
  BY <1>2, <1>3 DEF Arg
<1>5. Arg.num \in Nat
  BY <1>4 DEF T
<1>6. CASE Word
  BY <1>1, <1>6 DEF Word, ArgsBounds
<1>7. CASE Switch
  <2>1. opcode' \in {"r", "s"} /\ mode' \in {"a", "b", "m"}
    BY <1>7 DEF Switch, ArgsBounds
  <2>2. optS' \in Nat \cup {-1} /\ optT' \in Nat
    BY <1>5, <1>7 DEF Switch, ArgsBounds
  <2> QED
    BY <1>1, <2>1, <2>2 DEF ArgsBounds
<1> QED
  BY <1>1, <1>6, <1>7

\* What the server grants is a number.
LEMMA GrantsNumbers ==
  ASSUME NEW b \in Nat, NEW t \in Nat, NEW s \in Nat \cup {-1},
         NEW taken \in SUBSET OptionSet(b, t, s)
  PROVE  Numbered({Granted(o) : o \in taken})
<1>1. ServerBlkMax \in Nat /\ TftpFileSize \in Nat
  BY TftpArgsAssumption
<1>2. ASSUME NEW o \in taken PROVE Granted(o)[2] \in Nat
  <2>1. o = <<"blksize", b>> \/ o = <<"timeout", t>> \/ o = <<"tsize", s>>
    BY <1>2, OptionsAreFew
  <2> QED
    BY <1>1, <2>1 DEF Granted
<1> QED
  BY <1>2 DEF Numbered

\* The number of a request's time-out is what para left.
LEMMA SeenIsNumber ==
  ASSUME IsLine(argv), NEW n \in 0..Len(argv), NEW t, NEW s, LineSeen(n, t, s)
  PROVE  t \in Nat
<1>1. (NoneOf({"T"}, n) /\ t = 0) \/ \E i : LastOne({"T"}, n, i) /\ t = argv[i].num
  BY DEF LineSeen, NumberSeen
<1>2. ASSUME NEW i, LastOne({"T"}, n, i) PROVE argv[i].num \in Nat
  <2> DEFINE T == [opt : STRING, num : Nat, word : Seq(STRING)]
  <2>1. argv \in Seq(T) /\ i \in 1..n
    BY <1>2 DEF IsLine, LastOne
  <2> HIDE DEF T
  <2>2. argv[i] \in T
    BY <2>1
  <2> QED
    BY <2>2 DEF T
<1> QED
  BY <1>1, <1>2

LEMMA ServerBounded == ASSUME ArgsInv, ArgsBounds, ServerAnswer PROVE ArgsBounds'
<1>1. PICK taken \in SUBSET {o \in AskedFor : opcode = "r"} :
      \E order \in Orders({Granted(o) : o \in taken}) :
       /\ rpkt' = Cells(order)
       /\ server' = [asked |-> <<spkt[1], Strings[1], Strings[2], AskedFor>>,
                     agreed |-> {Granted(o) : o \in taken}, host |-> SubSeq(remote, 1, Colon - 1)]
  BY DEF ServerAnswer
<1> DEFINE S == {Granted(o) : o \in taken}
<1>2. PICK order \in Orders(S) :
       /\ rpkt' = Cells(order)
       /\ server' = [asked |-> <<spkt[1], Strings[1], Strings[2], AskedFor>>,
                     agreed |-> S, host |-> SubSeq(remote, 1, Colon - 1)]
  BY <1>1
<1>3. apc = "answer" /\ oi' = 1 /\ UNCHANGED <<opcode, mode, optT, optS, blocksize>>
  BY DEF ServerAnswer
<1>4. /\ IsLine(argv) /\ optB \in Nat
      /\ \E t : LineSeen(Len(argv), t, optS) /\ Sent(t) /\ (opcode = "r" => optT = t)
  BY <1>3 DEF ArgsInv
<1>5. PICK t : LineSeen(Len(argv), t, optS) /\ Sent(t)
  BY <1>4
<1>6. t \in Nat /\ optS \in Nat \cup {-1}
  <2>1. Len(argv) \in Nat /\ Len(argv) \in 0..Len(argv)
    BY <1>4 DEF IsLine
  <2> QED
    BY <1>4, <1>5, <2>1, SeenIsNumber DEF ArgsBounds
<1>7. AskedFor = OptionSet(optB, t, optS)
  BY <1>5, ServerReads DEF Sent
<1>8. taken \subseteq OptionSet(optB, t, optS)
  BY <1>1, <1>7
<1>9. Numbered(S) /\ OneEach(S)
  BY <1>4, <1>6, <1>8, GrantsNumbers, AgreedOnce
<1> HIDE DEF S
<1>10. PICK n : n = Cardinality(S)
  OBVIOUS
<1>11. n \in Nat /\ order \in [1..n -> S]
  BY <1>2, <1>9, <1>10, FS_CardinalityType DEF OneEach, Orders
<1>12. Len(rpkt') = 4 * n
  BY <1>2, <1>11, CellsAre
<1>13. oi' \in 1..(Len(rpkt') + 1)
  BY <1>3, <1>11, <1>12
<1> QED
  BY <1>2, <1>3, <1>9, <1>13 DEF ArgsBounds

\* A value that is heeded is a number.
LEMMA HeededIsNumber ==
  ASSUME NEW S, Numbered(S), NEW name, NEW plain, NEW v, Heeded(S, name, plain, v)
  PROVE  v = plain \/ v \in Nat
  BY DEF Heeded, Numbered

LEMMA OackBounded == ASSUME ArgsInv, ArgsBounds, AnalyzeOack PROVE ArgsBounds'
<1>1. /\ apc = "oack" /\ apc' = "oack"
      /\ UNCHANGED <<argv, argi, remote, opcode, mode, optB, server, rpkt>>
  BY DEF AnalyzeOack
<1>2. /\ opcode = "r" /\ IsLine(argv) /\ Numbered(server.agreed)
      /\ \E t, s : LineSeen(Len(argv), t, s) /\ Served(t, s) /\ Reading(t, s)
  BY <1>1 DEF ArgsInv, ArgsBounds
<1>3. PICK t, s : LineSeen(Len(argv), t, s) /\ Reading(t, s)
  BY <1>2
<1>4. t \in Nat /\ s \in Nat \cup {-1}
  <2>1. Len(argv) \in Nat /\ Len(argv) \in 0..Len(argv)
    BY <1>2 DEF IsLine
  <2>2. s = -1 \/ s = 0
    BY <1>3 DEF LineSeen, SizeSeen
  <2> QED
    BY <1>2, <1>3, <2>1, <2>2, SeenIsNumber
<1>5. Reading(t, s)'
  BY <1>2, <1>3, AnalyzeReads
<1>6. PICK n \in Nat : \E order \in [1..n -> server.agreed] : \E j \in 0..n :
                         ReadFirst(t, s, n, order, j)'
  BY <1>1, <1>5 DEF Reading
<1>7. PICK order \in [1..n -> server.agreed], j \in 0..n :
        /\ rpkt' = Cells(order) /\ oi' = 4 * j + 1
        /\ Heeded({order[i] : i \in 1..j}, "blksize", 512, blocksize')
        /\ Heeded({order[i] : i \in 1..j}, "timeout", t, optT')
        /\ Heeded({order[i] : i \in 1..j}, "tsize", s, optS')
  BY <1>6 DEF ReadFirst, Heeded
<1>8. blocksize' \in Nat /\ optT' \in Nat /\ optS' \in Nat \cup {-1}
  <2> DEFINE A == server.agreed
             Heard == {order[i] : i \in 1..j}
  <2>1. /\ Heeded(Heard, "blksize", 512, blocksize') /\ Heeded(Heard, "timeout", t, optT')
        /\ Heeded(Heard, "tsize", s, optS')
    BY <1>7
  <2>2. Numbered(Heard)
    <3>1. order \in [1..n -> A] /\ j \in 0..n /\ n \in Nat
      BY <1>6, <1>7
    <3> HIDE DEF A
    <3>2. \A i \in 1..j : order[i] \in A
      BY <3>1
    <3>3. \A o \in Heard : o \in A
      BY <3>2
    <3> QED
      BY <1>2, <3>3 DEF Numbered, A
  <2> HIDE DEF Heard
  <2>3. /\ blocksize' = 512 \/ blocksize' \in Nat
        /\ optT' = t \/ optT' \in Nat
        /\ optS' = s \/ optS' \in Nat
    BY <2>1, <2>2, HeededIsNumber, Zenon
  <2> QED
    BY <1>4, <2>3
<1>9. oi' \in 1..(Len(rpkt') + 1)
  <2>1. Len(rpkt') = 4 * n
    BY <1>7, CellsAre
  <2> QED
    BY <1>7, <2>1
<1> QED
  BY <1>1, <1>8, <1>9 DEF ArgsBounds

LEMMA ArgsBounded == ASSUME ArgsInv, ArgsBounds, [ArgsNext]_argsVars PROVE ArgsBounds'
<1>1. CASE Usage \/ AutoMode \/ OackRead \/ UNCHANGED argsVars
  BY <1>1 DEF Usage, AutoMode, OackRead, argsVars, ArgsBounds
<1>2. CASE SendRequest
  <2>1. optT' \in Nat
    BY <1>2 DEF SendRequest, ArgsBounds
  <2> QED
    BY <1>2, <2>1 DEF SendRequest, ArgsBounds
<1> QED
  BY <1>1, <1>2, ParaBounded, ServerBounded, OackBounded DEF ArgsNext

LEMMA ArgsTyped == ASSUME ArgsInv, ArgsBounds PROVE ArgsTypeOK
  BY DEF ArgsInv, ArgsBounds, ArgsTypeOK

----------------------------------------------------------------------------
(* esenet: the handle is one the stack has, or the error's.                *)

OpenBounds == line \in Seq(STRING) /\ read \in 0..Len(line) /\ given \subseteq Handles
              /\ tcp \in {"error", "search", "opening", "open", "hisclosing", "myclosing",
                          "closing", "closed"}

LEMMA OpenBegins ==
  ASSUME NEW lines \in SUBSET Seq(STRING), OpenInit(lines)
  PROVE  OpenBounds
<1>1. line \in Seq(STRING) /\ read = 0 /\ given = {} /\ tcp = "error"
  BY DEF OpenInit
<1> QED
  BY <1>1 DEF OpenBounds

LEMMA OpenBounded == ASSUME OpenBounds, [OpenNext]_openVars PROVE OpenBounds'
<1>1. Len(line) \in Nat
  BY DEF OpenBounds
<1>2. CASE Argument
  BY <1>1, <1>2 DEF Argument, OpenBounds
<1>3. CASE WrongLine \/ NoStart
  BY <1>3 DEF WrongLine, NoStart, Ends, OpenBounds
<1>4. CASE SetTarget \/ Opened \/ Connected
  BY <1>4 DEF SetTarget, Opened, Connected, OpenBounds
<1>5. CASE ActiveOpen
  <2>1. given' \subseteq Handles /\ tcp' \in {"search", tcp} /\ UNCHANGED <<line, read>>
    BY <1>5 DEF ActiveOpen, OpenBounds
  <2> QED
    BY <2>1 DEF OpenBounds
<1>6. CASE Cancel \/ Refused \/ Disconnected
  <2>1. TcpClose /\ UNCHANGED <<line, read>>
    BY <1>6 DEF Cancel, Refused, Disconnected, Ends
  <2> QED
    BY <2>1 DEF TcpClose, OpenBounds
<1>7. CASE MainLoopEnds
  BY <1>7 DEF MainLoopEnds, OpenBounds
<1>8. CASE OpenStack
  <2>1. UNCHANGED <<line, read, given>>
    BY <1>8 DEF OpenStack, Found, Unknown, Accepted, Failed, HisClose, Gone, Cut, TcpGoes
  <2>2. tcp' \in {"opening", "closed", "open", "hisclosing"}
    BY <1>8 DEF OpenStack, Found, Unknown, Accepted, Failed, HisClose, Gone, Cut, TcpGoes
  <2> QED
    BY <2>1, <2>2 DEF OpenBounds
<1>9. CASE UNCHANGED openVars
  BY <1>9 DEF openVars, OpenBounds
<1> QED
  BY <1>2, <1>3, <1>4, <1>5, <1>6, <1>7, <1>8, <1>9 DEF OpenNext, OpenClient

LEMMA OpenTyped == ASSUME OpenIInv, OpenBounds PROVE OpenTypeOK
  BY DEF OpenIInv, HandlePhase, OpenBounds, OpenTypeOK

----------------------------------------------------------------------------
(* The machine: the state of the program that runs has its type.           *)

SmallBounds ==
  /\ prog = "sntpget" => SntpBounds
  /\ prog = "udpecho" => EchoBounds
  /\ PingBounds
  /\ prog = "md5sum" => Md5Bounds
  /\ prog = "tftp" => ArgsBounds
  /\ prog = "esenet" => OpenBounds

LEMMA SmallBegins == Init => SmallBounds
<1> HAVE Init
<1>1. SntpBounds /\ EchoBounds /\ PingBounds
  BY SntpBegins, EchoBegins, PingBegins, Zenon DEF Init
<1>2. Md5Bounds
  BY Md5Begins, Zenon DEF Init
<1>3. ArgsBounds
  BY ArgsBegins, Zenon DEF Init
<1>4. ASSUME prog = "esenet" PROVE OpenBounds
  <2>1. OpenInit(OpenLines)
    BY <1>4 DEF Init, Inputs
  <2> QED
    BY <2>1, OpenBegins, OpenLinesAssumption
<1> QED
  BY <1>1, <1>2, <1>3, <1>4, Zenon DEF SmallBounds

LEMMA SmallBounded == SmallBounds /\ SmallInv /\ [Next]_vars => SmallBounds'
<1> HAVE SmallBounds /\ SmallInv /\ [Next]_vars
<1>1. /\ prog' = prog /\ PingInv
      /\ prog = "sntpget" => SntpInv
      /\ prog = "md5sum" => Md5Inv
      /\ prog = "tftp" => ArgsInv
  BY StepParts, Zenon DEF SmallInv, SntpPart, Md5Part, ArgsPart
<1>2. ASSUME prog = "sntpget" PROVE SntpBounds'
  BY <1>1, <1>2, StepParts, SntpBounded, Zenon DEF SmallBounds, SntpInv
<1>3. ASSUME prog = "udpecho" PROVE EchoBounds'
  BY <1>3, StepParts, EchoBounded, Zenon DEF SmallBounds
<1>4. PingBounds'
  BY <1>1, StepParts, PingBounded, Zenon DEF SmallBounds
<1>5. ASSUME prog = "md5sum" PROVE Md5Bounds'
  BY <1>1, <1>5, StepParts, Md5Bounded, Zenon DEF SmallBounds
<1>6. ASSUME prog = "tftp" PROVE ArgsBounds'
  BY <1>1, <1>6, StepParts, ArgsBounded, Zenon DEF SmallBounds
<1>7. ASSUME prog = "esenet" PROVE OpenBounds'
  BY <1>7, StepParts, OpenBounded, Zenon DEF SmallBounds
<1> QED
  BY <1>1, <1>2, <1>3, <1>4, <1>5, <1>6, <1>7, Zenon DEF SmallBounds

\* The two invariants together say all that the types do.
LEMMA SmallTyped == SmallBounds /\ SmallInv => TypeOK
<1> HAVE SmallBounds /\ SmallInv
<1>1. prog = "sntpget" => SntpTypeOK
  BY SntpTyped, Zenon DEF SmallInv, SmallBounds, SntpPart, SntpInv
<1>2. prog = "udpecho" => EchoTypeOK
  BY EchoTypesKept, Zenon DEF SmallBounds
<1>3. PingTypeOK /\ FmTypeOK
  BY ChannelsKept, Zenon DEF SmallBounds, PingBounds, SmallInv
<1>4. prog = "md5sum" => Md5TypeOK
  BY Md5Typed, Zenon DEF SmallInv, SmallBounds, Md5Part
<1>5. prog = "tftp" => ArgsTypeOK
  BY ArgsTyped, Zenon DEF SmallInv, SmallBounds, ArgsPart
<1>6. prog = "esenet" => OpenTypeOK
  BY OpenTyped, Zenon DEF SmallInv, SmallBounds
<1> QED
  BY <1>1, <1>2, <1>3, <1>4, <1>5, <1>6, Zenon DEF TypeOK

\* The program that runs keeps its state in its type and its bounds - no more tries,
\* keys, answers or datagrams than there can be, a loss and numbers of a request that
\* are numbers, contexts and registers of their width: for any values of the constants.
THEOREM SmallTypesHold == Spec => []TypeOK
  BY PTL, SmallInvHolds, SmallBegins, SmallBounded, SmallTyped DEF Spec
=============================================================================
