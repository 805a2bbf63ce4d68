------------------------------ MODULE SntpGet ------------------------------
(***************************************************************************)
(* The SNTP client teen/sntp/sntpget.c, udptime() and calc_time(): up to   *)
(* ten requests, each followed by one look for an answer, and the clock    *)
(* set from the first answer found.                                        *)
(*                                                                         *)
(* Time is counted in ticks, H to a second, the hundredths of the code; a  *)
(* tick is the most that passes while the program makes two DOS calls in   *)
(* a row.  DOS gives the date and the time of day by separate calls, and   *)
(* takes them by separate calls too, so that midnight can fall between.    *)
(***************************************************************************)
EXTENDS TeenUdp

CONSTANTS
  H,              \* ticks to a second (100), even
  Day,            \* ticks to a day
  IntMod,         \* values of an int (2^16)
  Tries,          \* requests at most (10)
  Clocks,         \* what the machine's clock may show at first
  Start, MaxNow   \* the time at first, and a bound on it

ASSUME ClockAssumption ==
  /\ H \in Nat \ {0} /\ H % 2 = 0 /\ Day \in Nat \ {0} /\ Day % H = 0
  /\ IntMod \in Nat \ {0} /\ IntMod % 2 = 0
ASSUME TriesAssumption == Tries \in Nat \ {0}
ASSUME TimesAssumption ==
  Start \in Nat /\ MaxNow \in Nat /\ Start <= MaxNow /\ Clocks \subseteq Nat

VARIABLES
  spc,            \* "search", "send", "recv", "set", "close" or "end"
  stry,           \* i, the requests made
  now,            \* the time
  skew,           \* what the machine's clock is ahead of it
  asked,          \* requests on their way: when sent, and by the clock
  answers,        \* answers on their way
  sum,            \* what calc_time converts to an int, before it is halved
  chosen,         \* the answer the clock is set from, or <<>> if none was found
  chosenAt,       \* when it was read
  torn            \* midnight fell between two DOS calls that belong together

sntpVars == <<udpVars, spc, stry, now, skew, asked, answers, sum, chosen, chosenAt, torn>>

SntpInit ==
  /\ handle = "closed" /\ rbuf = <<>>
  /\ spc = "search" /\ stry = 0
  /\ now = Start /\ skew \in {c - Start : c \in Clocks}
  /\ asked = {} /\ answers = {}
  /\ sum = 0 /\ chosen = <<>> /\ chosenAt = 0 /\ torn = FALSE

Clock == now + skew
Second(tick) == tick \div H

\* Time passes by d ticks, none or one, in the middle of what the program does.
Passes(d) ==
  /\ now + d <= MaxNow
  /\ now' = now + d

\* The date of one moment with the time of day of another.
Joined(date, time) == (date \div Day) * Day + (time % Day)

\* A slip: the date is believed.
DateThenTimeOnce(c, d) == Joined(c, c + d)

\* _dos_getdate and _dos_gettime with the test for 0:00:00, after which both are
\* read again: the date is always the one that belongs to the time.
DateThenTime(c, d) ==
  IF Second((c + d) % Day) = 0 THEN c + d ELSE Joined(c, c + d)

\* _dos_gettime and then _dos_getdate, without such a test.
TimeThenDate(c, d) == Joined(c + d, c)

\* What a conversion to int leaves of a number of seconds.
ToInt(n) == ((n + IntMod \div 2) % IntMod) - IntMod \div 2

\* An (int) of half the seconds, and the ticks in the half that it drops.
Whole(halves) == IF halves >= 0 THEN halves \div 2 ELSE -((-halves) \div 2)
HalfTicks(halves) == (halves - 2 * Whole(halves)) * (H \div 2)

----------------------------------------------------------------------------

\* The host is looked up; a key or an unknown host ends the search.
SntpFound ==
  /\ spc = "search"
  /\ spc' = "send"
  /\ NetUdpOpen("service")
  /\ UNCHANGED <<stry, now, skew, asked, answers, sum, chosen, chosenAt, torn>>

SntpNotFound ==
  /\ spc = "search"
  /\ spc' = "close"
  /\ UNCHANGED <<udpVars, stry, now, skew, asked, answers, sum, chosen, chosenAt, torn>>

\* A slip: one request too many.
MoreTriesInclusive == stry <= Tries

\* i < 10
MoreTries == stry < Tries

\* One more request, stamped with the clock; a failure of udp_send is only told.
SntpSend ==
  /\ spc = "send" /\ MoreTries
  /\ spc' = "recv"
  /\ \E d \in 0..1, sent \in BOOLEAN :
       /\ Passes(d)
       /\ asked' = IF sent
                   THEN asked \cup {[at |-> now + d,
                                     org |-> Second(DateThenTime(Clock, d))]}
                   ELSE asked
  /\ UNCHANGED <<udpVars, stry, skew, answers, sum, chosen, chosenAt, torn>>

\* After the last request there is no answer to wait for.
SntpGiveUp ==
  /\ spc = "send" /\ stry = Tries
  /\ spc' = "close"
  /\ UNCHANGED <<udpVars, stry, now, skew, asked, answers, sum, chosen, chosenAt, torn>>

\* A slip: the request is not counted.
SameTry == stry

NextTry == stry + 1

\* udp_recv finds nothing, and the next request follows at once.
SntpNoData ==
  /\ spc = "recv" /\ rbuf = <<>>
  /\ spc' = "send" /\ stry' = NextTry
  /\ UNCHANGED <<udpVars, now, skew, asked, answers, sum, chosen, chosenAt, torn>>

\* What calc_time makes of an answer read when the clock shows second s.
Offset(a, s) == a.rcv - a.org + a.rcv - s

\* udp_recv finds an answer, to whichever request.
SntpRecv ==
  /\ spc = "recv"
  /\ NetUdpRecvfrom
  /\ spc' = "set"
  /\ \E d \in 0..1 :
       /\ Passes(d)
       /\ chosenAt' = now + d
       /\ sum' = Offset(Head(rbuf), Second(TimeThenDate(Clock, d)))
       /\ torn' = (TimeThenDate(Clock, d) # Clock + d)
  /\ chosen' = Head(rbuf)
  /\ UNCHANGED <<stry, skew, asked, answers>>

\* The clock moved by half the sum: whole seconds, and a carry from the hundredths.
Moved(c, halves) ==
  LET h == (c % H) + HalfTicks(halves)
      s == IF h < 0 THEN -1 ELSE IF h >= H THEN 1 ELSE 0
  IN (Second(c) + Whole(halves) + s) * H + h - s * H

\* _dos_settime and then _dos_setdate: a tick between them that ends the day it
\* was set to is lost with the date the clock had turned to.
TimeThenDateSet(c, d) == Joined(c, c + d)

\* The clock is read again and set.
SntpSet ==
  /\ spc = "set"
  /\ spc' = "close"
  /\ \E d1 \in 0..1, d2 \in 0..1 :
       /\ Passes(d1 + d2)
       /\ LET c == Moved(DateThenTime(Clock, d1), ToInt(sum)) IN
            /\ skew' = TimeThenDateSet(c, d2) - now'
            /\ torn' = (torn \/ TimeThenDateSet(c, d2) # c + d2)
  /\ UNCHANGED <<udpVars, stry, asked, answers, sum, chosen, chosenAt>>

\* udp_close, and exit.
SntpClose ==
  /\ spc = "close"
  /\ spc' = "end"
  /\ NetUdpClose
  /\ UNCHANGED <<stry, now, skew, asked, answers, sum, chosen, chosenAt, torn>>

SntpClient ==
  \/ SntpFound \/ SntpSend \/ SntpGiveUp \/ SntpNoData \/ SntpRecv \/ SntpSet
  \/ SntpClose

----------------------------------------------------------------------------
(* The server and the network: any request is answered at any time, any    *)
(* number of times or never, and so does any answer arrive.  The server    *)
(* receives and answers in one second.                                     *)

SntpServe ==
  /\ spc \in {"send", "recv"}
  /\ \E r \in asked :
       answers' = answers \cup {[tid |-> Service, at |-> r.at, org |-> r.org,
                                 rcv |-> Second(now)]}
  /\ UNCHANGED <<udpVars, spc, stry, now, skew, asked, sum, chosen, chosenAt, torn>>

SntpArrive ==
  /\ spc \in {"send", "recv"}
  /\ \E a \in answers : UdpArrive(a)
  /\ UNCHANGED <<spc, stry, now, skew, asked, answers, sum, chosen, chosenAt, torn>>

SntpTick ==
  /\ spc # "end"
  /\ Passes(1)
  /\ UNCHANGED <<udpVars, spc, stry, skew, asked, answers, sum, chosen, chosenAt, torn>>

SntpNext ==
  \/ SntpClient \/ SntpNotFound
  \/ SntpServe \/ SntpArrive \/ SntpTick

SntpSpec == SntpInit /\ [][SntpNext]_sntpVars

----------------------------------------------------------------------------

SntpRequests == [at : Start..MaxNow, org : Int]
SntpAnswers == [tid : {Service}, at : Start..MaxNow, org : Int, rcv : Int]

SntpTypeOK ==
  /\ handle \in {"closed", "service"}
  /\ rbuf \in Seq(SntpAnswers) /\ Len(rbuf) <= RbufMax
  /\ spc \in {"search", "send", "recv", "set", "close", "end"}
  /\ stry \in 0..Tries
  /\ now \in Start..MaxNow /\ skew \in Int
  /\ asked \subseteq SntpRequests /\ answers \subseteq SntpAnswers
  /\ chosen = <<>> \/ chosen \in SntpAnswers
  /\ sum \in Int /\ chosenAt \in 0..MaxNow /\ torn \in BOOLEAN

Magnitude(n) == IF n < 0 THEN -n ELSE n

\* Whichever of its requests was answered, and however late the answer, a clock
\* that was set is off by at most half the round trip of that request and the
\* second that the dropped fractions may cost, provided that the difference fits
\* an int and that midnight did not fall between two calls.
ClockSetRight ==
  (/\ spc \in {"close", "end"} /\ chosen # <<>>
   /\ ToInt(sum) = sum /\ ~torn)
  => 2 * Magnitude(skew) <= chosenAt - chosen.at + 2 * H
=============================================================================
