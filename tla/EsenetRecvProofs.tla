-------------------------- MODULE EsenetRecvProofs --------------------------
(***************************************************************************)
(* For buffers of any size and streams of any length: the screen and the   *)
(* answers of the receiving half are those of a reader that is given the   *)
(* stream of the host one byte at a time.                                  *)
(***************************************************************************)
EXTENDS EsenetRecv, StreamLemmas

Byte == 0..255

\* Commands begun: nothing, IAC, or IAC and a byte that a third one follows.
Parts == {p \in Seq(Byte) : /\ Len(p) <= 2
                            /\ p # <<>> => p[1] = IAC
                            /\ Len(p) = 2 => p[2] \in WILL..DONT}

\* A reader: the command it has begun, what it has put on the screen and answered,
\* and the options granted so far.
Readers == [part : Parts, screen : Seq(Byte), answers : Seq(Byte), agreed : SUBSET Granted]

Reader(p, s, a, o) == [part |-> p, screen |-> s, answers |-> a, agreed |-> o]

\* What a command of three bytes has answered when the options of o are granted, and
\* what is granted after it.
Owed(c, o) ==
  IF c[2] = WILL /\ c[3] \in Granted
  THEN IF c[3] \in o THEN <<>> ELSE <<IAC, DO, c[3]>>
  ELSE IF c[2] = WILL THEN <<IAC, DONT, c[3]>>
  ELSE IF c[2] = DO THEN <<IAC, WONT, c[3]>> ELSE <<>>

Agreed(c, o) == IF c[2] = WILL THEN o \cup ({c[3]} \cap Granted) ELSE o

\* The reader r after the byte x outside a command, and after the command c is
\* begun or complete.
Plain(r, x) ==
  IF x = 0 THEN r
  ELSE IF x = IAC THEN Reader(<<IAC>>, r.screen, r.answers, r.agreed)
  ELSE Reader(<<>>, r.screen \o <<x>>, r.answers, r.agreed)

Commanded(r, c) ==
  IF ~Whole(c) THEN Reader(c, r.screen, r.answers, r.agreed)
  ELSE IF Len(c) = 2 THEN Reader(<<>>, r.screen \o Screen(c), r.answers, r.agreed)
  ELSE Reader(<<>>, r.screen, r.answers \o Owed(c, r.agreed), Agreed(c, r.agreed))

Step(r, x) == IF r.part = <<>> THEN Plain(r, x) ELSE Commanded(r, r.part \o <<x>>)

\* The stream s, read byte by byte, takes the reader a to b.
Leads(a, s, b) ==
  \E f \in [0..Len(s) -> Readers] :
    /\ f[0] = a /\ f[Len(s)] = b
    /\ \A i \in 1..Len(s) : f[i] = Step(f[i - 1], s[i])

\* What the client has read of the stream but not handled, what it has not read, and
\* what has not arrived.
Stream == (buf \o rbuf) \o todo

\* The client is such a reader: what is still to be handled takes it where the host
\* has been from the start.  After an answer was given up its answers say nothing.
Understood ==
  \E d \in Seq(Byte) :
    /\ Leads(Reader(obuf, shown, d, optDo), Stream, Reader(<<>>, want, due, offered))
    /\ ~cut => d = (got \o sbuf) \o pend

\* recv_command is entered with the IAC still in buf, or with it in obuf.
ModeFits ==
  /\ mode = "text" => obuf = <<>>
  /\ mode = "command" /\ obuf = <<>> => buf # <<>> /\ buf[1] = IAC

\* send() is at work only on an answer; nothing follows the end of the stream.
OrderKept ==
  /\ pc # "reply" => pend = <<>>
  /\ closing => state = "hisclosing"
  /\ state = "hisclosing" => todo = <<>>
  /\ pc = "handle" /\ buf = <<>> /\ closing => rbuf = <<>>
  /\ pc = "left" => closing /\ buf = <<>> /\ rbuf = <<>>

Inv == TypeOK /\ ModeFits /\ OrderKept /\ Understood

----------------------------------------------------------------------------
(* Readers.                                                               *)

LEMMA ByteFacts ==
  /\ IAC \in Byte /\ WILL \in Byte /\ WONT \in Byte /\ DO \in Byte /\ DONT \in Byte
  /\ IAC # 0 /\ IAC \notin WILL..DONT /\ WILL # DO
  /\ WILL \in WILL..DONT /\ WONT \in WILL..DONT /\ DO \in WILL..DONT /\ DONT \in WILL..DONT
  /\ WONT # WILL /\ DONT # WILL /\ WONT # DO /\ DONT # DO
  BY DEF Byte, IAC, WILL, WONT, DO, DONT

\* A reader has four parts.
LEMMA ReaderParts ==
  /\ \A p \in Parts, s \in Seq(Byte), a \in Seq(Byte), o \in SUBSET Granted :
       /\ Reader(p, s, a, o) \in Readers
       /\ Reader(p, s, a, o).part = p /\ Reader(p, s, a, o).screen = s
       /\ Reader(p, s, a, o).answers = a /\ Reader(p, s, a, o).agreed = o
  /\ \A r \in Readers :
       /\ r.part \in Parts /\ r.screen \in Seq(Byte) /\ r.answers \in Seq(Byte)
       /\ r.agreed \in SUBSET Granted
       /\ r = Reader(r.part, r.screen, r.answers, r.agreed)
<1>1. ASSUME NEW p \in Parts, NEW s \in Seq(Byte), NEW a \in Seq(Byte), NEW o \in SUBSET Granted
      PROVE  /\ Reader(p, s, a, o) \in Readers
             /\ Reader(p, s, a, o).part = p /\ Reader(p, s, a, o).screen = s
             /\ Reader(p, s, a, o).answers = a /\ Reader(p, s, a, o).agreed = o
  BY DEF Readers, Reader
<1>2. ASSUME NEW r \in Readers
      PROVE  /\ r.part \in Parts /\ r.screen \in Seq(Byte) /\ r.answers \in Seq(Byte)
             /\ r.agreed \in SUBSET Granted
             /\ r = Reader(r.part, r.screen, r.answers, r.agreed)
  BY DEF Readers, Reader
<1> QED
  BY <1>1, <1>2

\* The commands that can be begun.
LEMMA PartFacts ==
  /\ <<>> \in Parts /\ <<IAC>> \in Parts
  /\ \A x \in WILL..DONT : <<IAC, x>> \in Parts /\ x \in Byte
<1>1. <<>> \in Seq(Byte) /\ <<IAC>> \in Seq(Byte)
  BY ByteFacts
<1>2. <<>> \in Parts /\ <<IAC>> \in Parts
  BY <1>1 DEF Parts
<1>3. ASSUME NEW x \in WILL..DONT
      PROVE  <<IAC, x>> \in Parts /\ x \in Byte
  <2>1. x \in Byte
    BY <1>3 DEF WILL, DONT, Byte
  <2>2. <<IAC, x>> \in Seq(Byte)
    BY <2>1, ByteFacts
  <2>3. <<IAC, x>> \in Parts
    BY <1>3, <2>2 DEF Parts
  <2> QED
    BY <2>1, <2>3
<1> QED
  BY <1>2, <1>3

\* A byte behind a command begun makes one of two bytes or of three, which is begun
\* or whole.
LEMMA CommandForms ==
  ASSUME NEW p \in Parts, p # <<>>, NEW x \in Byte
  PROVE  /\ p \o <<x>> \in Seq(Byte) /\ Len(p \o <<x>>) \in {2, 3}
         /\ (p \o <<x>>)[1] = IAC /\ (p \o <<x>>)[2] \in Byte
         /\ Len(p \o <<x>>) = 3 => (p \o <<x>>)[3] = x
         /\ ~Whole(p \o <<x>>) => p \o <<x>> \in Parts
<1> DEFINE c == p \o <<x>>
<1>1. p \in Seq(Byte) /\ (Len(p) = 1 \/ Len(p) = 2) /\ p[1] = IAC
  <2>1. p \in Seq(Byte) /\ Len(p) <= 2 /\ p[1] = IAC
    BY DEF Parts
  <2>2. Len(p) \in Nat /\ Len(p) # 0
    BY <2>1
  <2>3. Len(p) <= 2
    BY <2>1
  <2>4. \A n \in Nat : n # 0 /\ n <= 2 => n = 1 \/ n = 2
    OBVIOUS
  <2>5. Len(p) = 1 \/ Len(p) = 2
    BY <2>2, <2>3, <2>4, Zenon
  <2> QED
    BY <2>1, <2>5, Zenon
<1>2. /\ c \in Seq(Byte) /\ Len(c) = Len(p) + 1 /\ c[Len(p) + 1] = x
      /\ \A i \in 1..Len(p) : c[i] = p[i]
  BY <1>1
<1>3. c[1] = IAC
  BY <1>1, <1>2
<1>4. c[2] \in Byte
  BY <1>1, <1>2, ElementOfSeq
<1>5. (Len(c) = 2 \/ Len(c) = 3) /\ (Len(c) = 3 => c[3] = x)
  <2>1. CASE Len(p) = 1
    BY <1>2, <2>1
  <2>2. CASE Len(p) = 2
    BY <1>2, <2>2
  <2> QED
    BY <1>1, <2>1, <2>2
<1> HIDE DEF c
<1>6. ASSUME ~Whole(c)
      PROVE  c \in Parts
  BY <1>2, <1>3, <1>5, <1>6 DEF Whole, Parts
<1> QED
  BY <1>2, <1>3, <1>4, <1>5, <1>6 DEF c

\* What is answered and granted is bytes and options.
LEMMA OwedType ==
  ASSUME NEW c \in Seq(Byte), Len(c) = 3, NEW o \in SUBSET Granted
  PROVE  Owed(c, o) \in Seq(Byte) /\ Len(Owed(c, o)) <= 3 /\ Agreed(c, o) \in SUBSET Granted
<1>1. c[3] \in Byte
  BY ElementOfSeq
<1>2. \A x \in Byte : <<IAC, x, c[3]>> \in Seq(Byte) /\ Len(<<IAC, x, c[3]>>) = 3
  BY <1>1, ByteFacts
<1>3. <<>> \in Seq(Byte) /\ Len(<<>>) = 0
  OBVIOUS
<1>4. \/ Owed(c, o) = <<>> \/ Owed(c, o) = <<IAC, DO, c[3]>>
      \/ Owed(c, o) = <<IAC, DONT, c[3]>> \/ Owed(c, o) = <<IAC, WONT, c[3]>>
  BY Zenon DEF Owed
<1>5. Owed(c, o) \in Seq(Byte) /\ Len(Owed(c, o)) <= 3
  <2>1. \A x \in {DO, DONT, WONT} :
          <<IAC, x, c[3]>> \in Seq(Byte) /\ Len(<<IAC, x, c[3]>>) <= 3
    BY <1>2, ByteFacts
  <2>2. <<>> \in Seq(Byte) /\ Len(<<>>) <= 3
    BY <1>3
  <2> QED
    BY <1>4, <2>1, <2>2, Zenon
<1>6. Agreed(c, o) \in SUBSET Granted
  BY DEF Agreed
<1> QED
  BY <1>5, <1>6

\* A step of a reader makes a reader, and only adds to what it has shown and answered.
LEMMA StepType ==
  ASSUME NEW r \in Readers, NEW x \in Byte
  PROVE  /\ Step(r, x) \in Readers
         /\ \E s \in Seq(Byte), a \in Seq(Byte) :
              /\ Step(r, x).screen = r.screen \o s
              /\ Step(r, x).answers = r.answers \o a
<1> DEFINE Grown(n) ==
      \E p \in Parts, s \in Seq(Byte), a \in Seq(Byte), o \in SUBSET Granted :
        n = Reader(p, r.screen \o s, r.answers \o a, o)
<1>1. /\ r.part \in Parts /\ r.screen \in Seq(Byte) /\ r.answers \in Seq(Byte)
      /\ r.agreed \in SUBSET Granted
      /\ r = Reader(r.part, r.screen, r.answers, r.agreed)
  BY ReaderParts, Zenon
<1>2. r.screen \o <<>> = r.screen /\ r.answers \o <<>> = r.answers /\ <<>> \in Seq(Byte)
  BY <1>1, ConcatEmptySeq
<1>3. ASSUME NEW p \in Parts PROVE Grown(Reader(p, r.screen, r.answers, r.agreed))
  BY <1>1, <1>2, Zenon
<1>4. ASSUME NEW p \in Parts, NEW s \in Seq(Byte)
      PROVE  Grown(Reader(p, r.screen \o s, r.answers, r.agreed))
  BY <1>1, <1>2, Zenon
<1>5. ASSUME NEW p \in Parts, NEW a \in Seq(Byte), NEW o \in SUBSET Granted
      PROVE  Grown(Reader(p, r.screen, r.answers \o a, o))
  BY <1>1, <1>2, Zenon
<1>6. ASSUME NEW n, Grown(n)
      PROVE  /\ n \in Readers
             /\ \E s \in Seq(Byte), a \in Seq(Byte) :
                  n.screen = r.screen \o s /\ n.answers = r.answers \o a
  <2>1. PICK p \in Parts, s \in Seq(Byte), a \in Seq(Byte), o \in SUBSET Granted :
          n = Reader(p, r.screen \o s, r.answers \o a, o)
    BY <1>6
  <2>2. r.screen \o s \in Seq(Byte) /\ r.answers \o a \in Seq(Byte)
    BY <1>1
  <2>3. n \in Readers /\ n.screen = r.screen \o s /\ n.answers = r.answers \o a
    <3> DEFINE m == Reader(p, r.screen \o s, r.answers \o a, o)
    <3>1. m \in Readers /\ m.screen = r.screen \o s /\ m.answers = r.answers \o a
      <4>1. \A u \in Seq(Byte), v \in Seq(Byte) :
              /\ Reader(p, u, v, o) \in Readers
              /\ Reader(p, u, v, o).screen = u /\ Reader(p, u, v, o).answers = v
        BY ReaderParts
      <4> QED
        BY <2>2, <4>1, Zenon
    <3> QED
      BY <2>1, <3>1, Zenon
  <2> QED
    BY <2>3
<1> HIDE DEF Grown
<1>7. CASE r.part = <<>>
  <2>1. Step(r, x) = Plain(r, x)
    BY <1>7 DEF Step
  <2>2. CASE x = 0
    BY <1>1, <1>3, <2>1, <2>2, <1>6, Zenon DEF Plain
  <2>3. CASE x = IAC
    <3>1. Step(r, x) = Reader(<<IAC>>, r.screen, r.answers, r.agreed)
      BY <2>1, <2>3, ByteFacts DEF Plain
    <3> QED
      BY <1>3, <1>6, <3>1, PartFacts, Zenon
  <2>4. CASE x # 0 /\ x # IAC
    <3>1. Step(r, x) = Reader(<<>>, r.screen \o <<x>>, r.answers, r.agreed)
      BY <2>1, <2>4 DEF Plain
    <3>2. <<x>> \in Seq(Byte)
      OBVIOUS
    <3> QED
      BY <1>4, <1>6, <3>1, <3>2, PartFacts, Zenon
  <2> QED
    BY <2>2, <2>3, <2>4, Zenon
<1>8. CASE r.part # <<>>
  <2> DEFINE c == r.part \o <<x>>
  <2>1. Step(r, x) = Commanded(r, c)
    BY <1>8 DEF Step
  <2>2. /\ c \in Seq(Byte) /\ Len(c) \in {2, 3}
        /\ ~Whole(c) => c \in Parts
    BY <1>1, <1>8, CommandForms
  <2> HIDE DEF c
  <2>3. CASE ~Whole(c)
    <3>1. Step(r, x) = Reader(c, r.screen, r.answers, r.agreed)
      BY <2>1, <2>3 DEF Commanded
    <3> QED
      BY <1>3, <1>6, <2>2, <2>3, <3>1, Zenon
  <2>4. CASE Whole(c) /\ Len(c) = 2
    <3>1. Step(r, x) = Reader(<<>>, r.screen \o Screen(c), r.answers, r.agreed)
      BY <2>1, <2>4 DEF Commanded
    <3>2. Screen(c) \in Seq(Byte)
      <4>1. <<IAC>> \in Seq(Byte)
        BY ByteFacts
      <4> QED
        BY <1>2, <2>2, <4>1, Zenon DEF Screen
    <3> QED
      BY <1>4, <1>6, <3>1, <3>2, PartFacts, Zenon
  <2>5. CASE Whole(c) /\ Len(c) = 3
    <3>1. Step(r, x) = Reader(<<>>, r.screen, r.answers \o Owed(c, r.agreed), Agreed(c, r.agreed))
      BY <2>1, <2>5 DEF Commanded
    <3>2. Owed(c, r.agreed) \in Seq(Byte) /\ Agreed(c, r.agreed) \in SUBSET Granted
      BY <1>1, <2>2, <2>5, OwedType
    <3> QED
      BY <1>5, <1>6, <3>1, <3>2, PartFacts, Zenon
  <2>6. Len(c) = 2 \/ Len(c) = 3
    BY <2>2
  <2> QED
    BY <2>3, <2>4, <2>5, <2>6, Zenon
<1> QED
  BY <1>7, <1>8, Zenon

----------------------------------------------------------------------------
(* Reading a stream.                                                      *)

\* The empty stream leads nowhere.
LEMMA LeadsNone ==
  ASSUME NEW a, NEW b, Leads(a, <<>>, b)
  PROVE  a = b /\ a \in Readers
<1>1. PICK f \in [0..Len(<<>>) -> Readers] : f[0] = a /\ f[Len(<<>>)] = b
  BY DEF Leads
<1>2. Len(<<>>) = 0 /\ 0 \in 0..Len(<<>>)
  OBVIOUS
<1> QED
  BY <1>1, <1>2

\* And a reader stays where it is.
LEMMA LeadsStay ==
  ASSUME NEW a \in Readers
  PROVE  Leads(a, <<>>, a)
<1> DEFINE f == [i \in 0..0 |-> a]
<1>1. Len(<<>>) = 0
  OBVIOUS
<1>2. f \in [0..0 -> Readers] /\ f[0] = a
  OBVIOUS
<1>3. \A i \in 1..0 : f[i] = Step(f[i - 1], (<<>>)[i])
  OBVIOUS
<1> HIDE DEF f
<1> QED
  BY <1>1, <1>2, <1>3 DEF Leads

\* A byte leads a step on, and nowhere else.
LEMMA LeadsOne ==
  ASSUME NEW a \in Readers, NEW x \in Byte, NEW b
  PROVE  Leads(a, <<x>>, b) <=> b = Step(a, x)
<1>1. Len(<<x>>) = 1 /\ (<<x>>)[1] = x
  OBVIOUS
<1>2. ASSUME Leads(a, <<x>>, b)
      PROVE  b = Step(a, x)
  <2>1. PICK f \in [0..1 -> Readers] :
          /\ f[0] = a /\ f[1] = b
          /\ \A i \in 1..1 : f[i] = Step(f[i - 1], (<<x>>)[i])
    BY <1>1, <1>2 DEF Leads
  <2>2. 1 \in 1..1 /\ 1 - 1 = 0
    OBVIOUS
  <2>3. f[1] = Step(f[1 - 1], (<<x>>)[1])
    BY <2>1, <2>2
  <2> QED
    BY <1>1, <2>1, <2>2, <2>3, Zenon
<1>3. ASSUME b = Step(a, x)
      PROVE  Leads(a, <<x>>, b)
  <2> DEFINE f == [i \in 0..1 |-> IF i = 0 THEN a ELSE b]
  <2>1. b \in Readers
    BY <1>3, StepType
  <2>2. f \in [0..1 -> Readers] /\ f[0] = a /\ f[1] = b
    BY <2>1
  <2> HIDE DEF f
  <2>3. ASSUME NEW i \in 1..1
        PROVE  f[i] = Step(f[i - 1], (<<x>>)[i])
    <3>1. i = 1 /\ i - 1 = 0
      OBVIOUS
    <3> QED
      BY <1>1, <1>3, <2>2, <3>1, Zenon
  <2> QED
    BY <1>1, <2>2, <2>3 DEF Leads
<1> QED
  BY <1>2, <1>3

\* Where one stream has led, the next leads on.
LEMMA LeadsThen ==
  ASSUME NEW a, NEW b, NEW c, NEW s \in Seq(Byte), NEW t \in Seq(Byte),
         Leads(a, s, b), Leads(b, t, c)
  PROVE  Leads(a, s \o t, c)
<1> DEFINE n == Len(s)
           m == Len(t)
<1>1. /\ n \in Nat /\ m \in Nat /\ Len(s \o t) = n + m
      /\ \A i \in 1..n : (s \o t)[i] = s[i]
      /\ \A i \in 1..m : (s \o t)[n + i] = t[i]
  OBVIOUS
<1>2. PICK f \in [0..n -> Readers] :
        /\ f[0] = a /\ f[n] = b
        /\ \A i \in 1..n : f[i] = Step(f[i - 1], s[i])
  BY DEF Leads
<1>3. PICK g \in [0..m -> Readers] :
        /\ g[0] = b /\ g[m] = c
        /\ \A i \in 1..m : g[i] = Step(g[i - 1], t[i])
  BY DEF Leads
<1> DEFINE u == s \o t
           h == [i \in 0..(n + m) |-> IF i <= n THEN f[i] ELSE g[i - n]]
<1> HIDE DEF n, m
<1>4. /\ \A i \in 0..n : h[i] = f[i]
      /\ \A i \in 0..m : h[n + i] = g[i]
  <2>1. ASSUME NEW i \in 0..n
        PROVE  h[i] = f[i]
    BY <1>1
  <2>2. ASSUME NEW i \in 0..m
        PROVE  h[n + i] = g[i]
    <3>1. n + i \in 0..(n + m) /\ (n + i) - n = i
      BY <1>1
    <3>2. CASE i = 0
      <4>1. n + i = n /\ n \in 0..n
        BY <1>1, <3>2
      <4> QED
        BY <1>2, <1>3, <2>1, <3>2, <4>1
    <3>3. CASE i # 0
      <4>1. ~(n + i <= n)
        BY <1>1, <3>3
      <4> QED
        BY <3>1, <4>1
    <3> QED
      BY <3>2, <3>3
  <2> QED
    BY <2>1, <2>2
<1>5. h \in [0..(n + m) -> Readers]
  <2>1. ASSUME NEW i \in 0..(n + m)
        PROVE  (IF i <= n THEN f[i] ELSE g[i - n]) \in Readers
    <3>1. CASE i <= n
      BY <1>1, <3>1
    <3>2. CASE ~(i <= n)
      <4>1. i - n \in 0..m
        BY <1>1, <3>2
      <4> QED
        BY <3>2, <4>1
    <3> QED
      BY <3>1, <3>2
  <2> QED
    BY <2>1
<1> HIDE DEF h, u
<1>6. h[0] = a /\ h[n + m] = c
  <2>1. 0 \in 0..n /\ m \in 0..m
    BY <1>1
  <2> QED
    BY <1>2, <1>3, <1>4, <2>1
<1>7. ASSUME NEW i \in 1..(n + m)
      PROVE  h[i] = Step(h[i - 1], u[i])
  <2>1. CASE i <= n
    <3>1. i \in 1..n /\ i \in 0..n /\ i - 1 \in 0..n
      BY <1>1, <2>1
    <3>2. h[i] = f[i] /\ h[i - 1] = f[i - 1] /\ u[i] = s[i]
      BY <1>1, <1>4, <3>1 DEF u
    <3>3. f[i] = Step(f[i - 1], s[i])
      BY <1>2, <3>1
    <3> QED
      BY <3>2, <3>3, Zenon
  <2>2. CASE i > n
    <3> DEFINE j == i - n
    <3>1. j \in 1..m /\ j \in 0..m /\ j - 1 \in 0..m /\ n + j = i /\ n + (j - 1) = i - 1
      BY <1>1, <2>2
    <3> HIDE DEF j
    <3>2. h[i] = g[j] /\ h[i - 1] = g[j - 1] /\ u[i] = t[j]
      <4>1. h[n + j] = g[j] /\ h[n + (j - 1)] = g[j - 1]
        BY <1>4, <3>1
      <4>2. u[n + j] = t[j]
        BY <1>1, <3>1 DEF u
      <4> QED
        BY <3>1, <4>1, <4>2, Zenon
    <3>3. g[j] = Step(g[j - 1], t[j])
      BY <1>3, <3>1
    <3> QED
      BY <3>2, <3>3, Zenon
  <2>3. i <= n \/ i > n
    BY <1>1
  <2> QED
    BY <2>1, <2>2, <2>3
<1>8. Len(u) = n + m
  BY <1>1 DEF u
<1>9. Leads(a, u, c)
  BY <1>5, <1>6, <1>7, <1>8 DEF Leads
<1> QED
  BY <1>9 DEF u

\* A stream that leads somewhere leads there by way of the end of any part of it.
LEMMA LeadsCut ==
  ASSUME NEW a, NEW c, NEW s \in Seq(Byte), NEW t \in Seq(Byte), Leads(a, s \o t, c)
  PROVE  \E b \in Readers : Leads(a, s, b) /\ Leads(b, t, c)
<1> DEFINE n == Len(s)
           m == Len(t)
<1>1. /\ n \in Nat /\ m \in Nat /\ Len(s \o t) = n + m
      /\ \A i \in 1..n : (s \o t)[i] = s[i]
      /\ \A i \in 1..m : (s \o t)[n + i] = t[i]
  OBVIOUS
<1> DEFINE u == s \o t
<1>2. PICK h \in [0..(n + m) -> Readers] :
        /\ h[0] = a /\ h[n + m] = c
        /\ \A i \in 1..(n + m) : h[i] = Step(h[i - 1], u[i])
  BY <1>1, Zenon DEF Leads
<1> DEFINE f == [i \in 0..n |-> h[i]]
           g == [i \in 0..m |-> h[n + i]]
<1> HIDE DEF n, m, u
<1>3. f \in [0..n -> Readers] /\ g \in [0..m -> Readers] /\ h[n] \in Readers
  <2>1. \A i \in 0..n : i \in 0..(n + m)
    BY <1>1
  <2>2. \A i \in 0..m : n + i \in 0..(n + m)
    BY <1>1
  <2>3. n \in 0..n
    BY <1>1
  <2> QED
    BY <2>1, <2>2, <2>3
<1>4. /\ \A i \in 0..n : f[i] = h[i]
      /\ \A i \in 0..m : g[i] = h[n + i]
  OBVIOUS
<1> HIDE DEF f, g
<1>5. f[0] = a /\ f[n] = h[n] /\ g[0] = h[n] /\ g[m] = c
  <2>1. 0 \in 0..n /\ n \in 0..n /\ 0 \in 0..m /\ m \in 0..m /\ n + 0 = n
    BY <1>1
  <2> QED
    BY <1>2, <1>4, <2>1
<1>6. ASSUME NEW i \in 1..n
      PROVE  f[i] = Step(f[i - 1], s[i])
  <2>1. i \in 0..n /\ i - 1 \in 0..n /\ i \in 1..(n + m)
    BY <1>1
  <2>2. u[i] = s[i]
    BY <1>1 DEF u
  <2>3. h[i] = Step(h[i - 1], u[i])
    BY <1>2, <2>1
  <2>4. f[i] = h[i] /\ f[i - 1] = h[i - 1]
    BY <1>4, <2>1
  <2> QED
    BY <2>2, <2>3, <2>4, Zenon
<1>7. ASSUME NEW i \in 1..m
      PROVE  g[i] = Step(g[i - 1], t[i])
  <2>1. /\ i \in 0..m /\ i - 1 \in 0..m /\ n + i \in 1..(n + m)
        /\ n + (i - 1) = (n + i) - 1
    BY <1>1
  <2>2. u[n + i] = t[i]
    BY <1>1 DEF u
  <2>3. h[n + i] = Step(h[(n + i) - 1], u[n + i])
    BY <1>2, <2>1
  <2>4. g[i] = h[n + i] /\ g[i - 1] = h[n + (i - 1)]
    BY <1>4, <2>1
  <2> QED
    BY <2>1, <2>2, <2>3, <2>4, Zenon
<1>8. Leads(a, s, h[n])
  BY <1>3, <1>5, <1>6 DEF Leads, n
<1>9. Leads(h[n], t, c)
  BY <1>3, <1>5, <1>7 DEF Leads, m
<1> QED
  BY <1>3, <1>8, <1>9

\* How streams of bytes are put together.
LEMMA ByteStreams ==
  /\ \A p \in Seq(Byte), q \in Seq(Byte) : p \o q \in Seq(Byte)
  /\ \A p \in Seq(Byte), q \in Seq(Byte), r \in Seq(Byte) : (p \o q) \o r = p \o (q \o r)
  /\ \A p \in Seq(Byte) : p \o <<>> = p /\ <<>> \o p = p
  /\ \A x \in Byte : <<x>> \in Seq(Byte)
  /\ <<>> \in Seq(Byte)
<1> DEFINE B == Byte
<1> HIDE DEF B
<1>1. \A p \in Seq(B), q \in Seq(B) : p \o q \in Seq(B)
  OBVIOUS
<1>2. ASSUME NEW p \in Seq(B), NEW q \in Seq(B), NEW r \in Seq(B)
      PROVE  (p \o q) \o r = p \o (q \o r)
  OBVIOUS
<1>3. \A p \in Seq(B) : p \o <<>> = p /\ <<>> \o p = p
  BY ConcatEmptySeq
<1>4. (\A x \in B : <<x>> \in Seq(B)) /\ <<>> \in Seq(B)
  OBVIOUS
<1> QED
  BY <1>1, <1>2, <1>3, <1>4 DEF B

\* A stream only adds to the screen and to the answers.
LEMMA LeadsGrows ==
  ASSUME NEW a, NEW b, NEW s \in Seq(Byte), Leads(a, s, b)
  PROVE  /\ a \in Readers /\ b \in Readers
         /\ \E x \in Seq(Byte) : b.screen = a.screen \o x
         /\ \E y \in Seq(Byte) : b.answers = a.answers \o y
<1>1. PICK f \in [0..Len(s) -> Readers] :
        /\ f[0] = a /\ f[Len(s)] = b
        /\ \A i \in 1..Len(s) : f[i] = Step(f[i - 1], s[i])
  BY DEF Leads
<1>2. Len(s) \in Nat /\ \A i \in 1..Len(s) : s[i] \in Byte
  BY ElementOfSeq, LenProperties
<1>3. a \in Readers /\ b \in Readers
  BY <1>1, <1>2
<1>4. a.screen \in Seq(Byte) /\ a.answers \in Seq(Byte)
  BY <1>3, ReaderParts
<1> DEFINE Grown(r) == /\ \E x \in Seq(Byte) : r.screen = a.screen \o x
                       /\ \E y \in Seq(Byte) : r.answers = a.answers \o y
           T == {n \in Nat : n <= Len(s) => Grown(f[n])}
<1>5. 0 \in T
  <2>1. <<>> \in Seq(Byte) /\ a.screen = a.screen \o <<>> /\ a.answers = a.answers \o <<>>
    BY <1>4, ConcatEmptySeq
  <2>2. Grown(a)
    BY <2>1, Zenon
  <2> QED
    BY <1>1, <2>2
<1>6. ASSUME NEW n \in Nat, n \in T
      PROVE  n + 1 \in T
  <2> SUFFICES ASSUME n + 1 <= Len(s) PROVE Grown(f[n + 1])
    <3> HIDE DEF Grown
    <3> QED
      OBVIOUS
  <2>1. n + 1 \in 1..Len(s) /\ (n + 1) - 1 = n /\ n \in 0..Len(s) /\ n <= Len(s)
    BY <1>2
  <2>2. f[n] \in Readers /\ s[n + 1] \in Byte
    BY <1>2, <2>1
  <2>3. f[n + 1] = Step(f[n], s[n + 1])
    BY <1>1, <2>1
  <2>4. PICK x \in Seq(Byte), y \in Seq(Byte) :
          f[n].screen = a.screen \o x /\ f[n].answers = a.answers \o y
    BY <1>6, <2>1
  <2>5. PICK v \in Seq(Byte), w \in Seq(Byte) :
          f[n + 1].screen = f[n].screen \o v /\ f[n + 1].answers = f[n].answers \o w
    <3>1. \E v \in Seq(Byte), w \in Seq(Byte) :
            /\ Step(f[n], s[n + 1]).screen = f[n].screen \o v
            /\ Step(f[n], s[n + 1]).answers = f[n].answers \o w
      BY <2>2, StepType
    <3> QED
      BY <2>3, <3>1, Zenon
  <2>6. x \in Seq(Byte) /\ v \in Seq(Byte) /\ y \in Seq(Byte) /\ w \in Seq(Byte)
    BY <2>4, <2>5
  <2>7. (a.screen \o x) \o v = a.screen \o (x \o v) /\ x \o v \in Seq(Byte)
    <3> DEFINE z == a.screen
    <3>1. z \in Seq(Byte)
      BY <1>4
    <3> HIDE DEF z
    <3>2. (z \o x) \o v = z \o (x \o v) /\ x \o v \in Seq(Byte)
      BY <2>6, <3>1, SMTT(40)
    <3> QED
      BY <3>2 DEF z
  <2>8. (a.answers \o y) \o w = a.answers \o (y \o w) /\ y \o w \in Seq(Byte)
    <3> DEFINE z == a.answers
    <3>1. z \in Seq(Byte)
      BY <1>4
    <3> HIDE DEF z
    <3>2. (z \o y) \o w = z \o (y \o w) /\ y \o w \in Seq(Byte)
      BY <2>6, <3>1, SMTT(30)
    <3> QED
      BY <3>2 DEF z
  <2>9. f[n + 1].screen = a.screen \o (x \o v) /\ f[n + 1].answers = a.answers \o (y \o w)
    BY <2>4, <2>5, <2>7, <2>8, Zenon
  <2> QED
    BY <2>7, <2>8, <2>9, Zenon
<1>7. Nat \subseteq T
  <2> HIDE DEF T
  <2> QED
    BY <1>5, <1>6, Induct
<1>8. Grown(f[Len(s)])
  <2> HIDE DEF Grown
  <2> QED
    BY <1>2, <1>7
<1> QED
  BY <1>1, <1>3, <1>8

\* Text is shown.
LEMMA LeadsText ==
  ASSUME NEW a \in Readers, a.part = <<>>, NEW b, NEW s \in Seq(Byte),
         \A i \in 1..Len(s) : s[i] \notin NotText, Leads(a, s, b)
  PROVE  b = Reader(<<>>, a.screen \o s, a.answers, a.agreed)
<1>1. PICK f \in [0..Len(s) -> Readers] :
        /\ f[0] = a /\ f[Len(s)] = b
        /\ \A i \in 1..Len(s) : f[i] = Step(f[i - 1], s[i])
  BY DEF Leads
<1>2. Len(s) \in Nat /\ \A i \in 1..Len(s) : s[i] \in Byte
  BY ElementOfSeq, LenProperties
<1>3. /\ a.screen \in Seq(Byte) /\ a.answers \in Seq(Byte) /\ a.agreed \in SUBSET Granted
      /\ a = Reader(<<>>, a.screen, a.answers, a.agreed)
  BY ReaderParts
<1> DEFINE Seen(n) == Reader(<<>>, a.screen \o SubSeq(s, 1, n), a.answers, a.agreed)
           T == {n \in Nat : n <= Len(s) => f[n] = Seen(n)}
<1>4. 0 \in T
  <2>1. SubSeq(s, 1, 0) = <<>> /\ a.screen \o <<>> = a.screen
    BY <1>3, ConcatEmptySeq
  <2>2. Seen(0) = a
    BY <1>3, <2>1, Zenon
  <2> QED
    BY <1>1, <2>2
<1>5. ASSUME NEW n \in Nat, n \in T
      PROVE  n + 1 \in T
  <2> SUFFICES ASSUME n + 1 <= Len(s) PROVE f[n + 1] = Seen(n + 1)
    OBVIOUS
  <2>1. n + 1 \in 1..Len(s) /\ (n + 1) - 1 = n /\ n \in 0..Len(s) /\ n <= Len(s)
    BY <1>2
  <2>2. s[n + 1] \in Byte /\ s[n + 1] # 0 /\ s[n + 1] # IAC
    BY <1>2, <2>1 DEF NotText
  <2>3. f[n + 1] = Step(f[n], s[n + 1])
    BY <1>1, <2>1
  <2>4. f[n] = Seen(n)
    BY <1>5, <2>1
  <2> DEFINE u == SubSeq(s, 1, n)
             v == SubSeq(s, 1, n + 1)
             x == s[n + 1]
  <2>5. u \in Seq(Byte) /\ <<x>> \in Seq(Byte) /\ v = u \o <<x>>
    <3>1. u \in Seq(Byte) /\ Len(u) = n /\ v \in Seq(Byte) /\ Len(v) = n + 1
      BY <2>1, Split, SubSeqProperties
    <3>2. \A i \in 1..n : u[i] = s[i]
      BY <2>1
    <3>3. \A i \in 1..(n + 1) : v[i] = s[i]
      BY <2>1
    <3>4. <<x>> \in Seq(Byte) /\ Len(<<x>>) = 1 /\ (<<x>>)[1] = x
      BY <2>2
    <3> HIDE DEF u, v
    <3>5. /\ u \o <<x>> \in Seq(Byte) /\ Len(u \o <<x>>) = n + 1
          /\ \A i \in 1..n : (u \o <<x>>)[i] = u[i]
          /\ (u \o <<x>>)[n + 1] = x
      <4> DEFINE g == <<x>>
      <4>1. g \in Seq(Byte) /\ Len(g) = 1 /\ g[1] = x
        BY <3>4
      <4> HIDE DEF g, x
      <4>2. /\ u \o g \in Seq(Byte) /\ Len(u \o g) = n + 1
            /\ \A i \in 1..(n + 1) : (u \o g)[i] = IF i <= n THEN u[i] ELSE g[i - n]
        BY <3>1, <4>1, ConcatProperties, SMTT(30)
      <4>3. (n + 1) - n = 1 /\ n + 1 \in 1..(n + 1) /\ ~(n + 1 <= n)
            /\ \A i \in 1..n : i \in 1..(n + 1) /\ i <= n
        OBVIOUS
      <4>4. (u \o g)[n + 1] = x /\ \A i \in 1..n : (u \o g)[i] = u[i]
        BY <4>1, <4>2, <4>3
      <4> QED
        BY <4>2, <4>4 DEF g
    <3>6. \A i \in 1..(n + 1) : v[i] = (u \o <<x>>)[i]
      <4> TAKE i \in 1..(n + 1)
      <4>1. i \in 1..n \/ i = n + 1
        OBVIOUS
      <4> QED
        BY <3>2, <3>3, <3>5, <4>1
    <3>7. v = u \o <<x>>
      BY <3>1, <3>5, <3>6, SeqEqual
    <3> QED
      BY <3>1, <3>4, <3>7
  <2> HIDE DEF u, v, x
  <2>6. a.screen \o u \in Seq(Byte) /\ (a.screen \o u) \o <<x>> = a.screen \o (u \o <<x>>)
    BY <1>3, <2>5, ByteStreams, ZenonT(40)
  <2>7. /\ f[n].part = <<>> /\ f[n].screen = a.screen \o u
        /\ f[n].answers = a.answers /\ f[n].agreed = a.agreed
    <3>1. f[n] = Reader(<<>>, a.screen \o u, a.answers, a.agreed)
      BY <2>4 DEF u
    <3>2. <<>> \in Parts
      BY PartFacts
    <3>3. \A z \in Seq(Byte), y \in Seq(Byte), o \in SUBSET Granted :
            /\ Reader(<<>>, z, y, o).part = <<>> /\ Reader(<<>>, z, y, o).screen = z
            /\ Reader(<<>>, z, y, o).answers = y /\ Reader(<<>>, z, y, o).agreed = o
      BY <3>2, ReaderParts
    <3> DEFINE z == a.screen \o u
               y == a.answers
               o == a.agreed
               r == Reader(<<>>, z, y, o)
    <3>4. z \in Seq(Byte) /\ y \in Seq(Byte) /\ o \in SUBSET Granted
      BY <1>3, <2>6
    <3> HIDE DEF z, y, o
    <3>5. r.part = <<>> /\ r.screen = z /\ r.answers = y /\ r.agreed = o
      BY <3>3, <3>4
    <3> QED
      BY <3>1, <3>5, Zenon DEF z, y, o
  <2>8. Step(f[n], x) = Reader(<<>>, f[n].screen \o <<x>>, f[n].answers, f[n].agreed)
    BY <2>2, <2>7 DEF Step, Plain, x
  <2>9. f[n + 1] = Reader(<<>>, a.screen \o v, a.answers, a.agreed)
    BY <2>3, <2>5, <2>6, <2>7, <2>8, Zenon DEF x
  <2> QED
    BY <2>9 DEF v
<1>6. Nat \subseteq T
  <2> HIDE DEF T
  <2> QED
    BY <1>4, <1>5, Induct
<1>7. b = Seen(Len(s))
  <2> HIDE DEF Seen
  <2> QED
    BY <1>1, <1>2, <1>6
<1>8. SubSeq(s, 1, Len(s)) = s
  BY Split, <1>2, SeqEqual
<1> QED
  BY <1>7, <1>8

\* A pair of bytes is two, one after the other.
LEMMA PairIs ==
  ASSUME NEW x \in Byte, NEW y \in Byte
  PROVE  <<x>> \in Seq(Byte) /\ <<y>> \in Seq(Byte) /\ <<x, y>> = <<x>> \o <<y>>
<1>1. <<x>> \in Seq(Byte) /\ <<y>> \in Seq(Byte)
  BY ByteStreams
<1>2. <<x, y>> \in Seq(Byte) /\ Len(<<x, y>>) = 2
  OBVIOUS
<1>3. <<x>> \o <<y>> \in Seq(Byte) /\ Len(<<x>> \o <<y>>) = 2
  BY <1>1
<1>4. (<<x>> \o <<y>>)[1] = x /\ (<<x>> \o <<y>>)[2] = y
  BY <1>1
<1>5. \A i \in 1..2 : <<x, y>>[i] = (<<x>> \o <<y>>)[i]
  <2> TAKE i \in 1..2
  <2>1. i = 1 \/ i = 2
    OBVIOUS
  <2> QED
    BY <1>4, <2>1
<1> QED
  BY <1>1, <1>2, <1>3, <1>5, SeqEqual

\* The first byte of a stream, and the first two.
LEMMA Fronts ==
  ASSUME NEW s \in Seq(Byte), Len(s) # 0
  PROVE  /\ Len(s) \in Nat /\ s[1] \in Byte
         /\ SubSeq(s, 1, 1) = <<s[1]>>
         /\ Len(s) > 1 => s[2] \in Byte /\ SubSeq(s, 1, 2) = <<s[1], s[2]>>
<1>1. Len(s) \in Nat /\ \A i \in 1..Len(s) : s[i] \in Byte
  BY ElementOfSeq, LenProperties
<1>2. 1 \in 1..Len(s) /\ 1 \in 0..Len(s) /\ s[1] \in Byte
  BY <1>1
<1> DEFINE x == s[1]
<1>3. SubSeq(s, 1, 1) = <<x>>
  <2>1. SubSeq(s, 1, 1) \in Seq(Byte) /\ Len(SubSeq(s, 1, 1)) = 1
    BY <1>2, Split
  <2>2. SubSeq(s, 1, 1)[1] = x
    BY <1>1, <1>2
  <2>3. <<x>> \in Seq(Byte) /\ Len(<<x>>) = 1 /\ <<x>>[1] = x
    BY <1>2, ByteStreams
  <2>4. \A i \in 1..1 : SubSeq(s, 1, 1)[i] = <<x>>[i]
    BY <2>2, <2>3
  <2> QED
    BY <2>1, <2>3, <2>4, SeqEqual
<1>4. ASSUME Len(s) > 1
      PROVE  s[2] \in Byte /\ SubSeq(s, 1, 2) = <<x, s[2]>>
  <2> DEFINE y == s[2]
             u == SubSeq(s, 1, 2)
  <2>1. 2 \in 1..Len(s) /\ 2 \in 0..Len(s) /\ y \in Byte
    BY <1>1, <1>4
  <2>2. u \in Seq(Byte) /\ Len(u) = 2
    BY <2>1, Split
  <2>3. u[1] = x /\ u[2] = y
    BY <1>1, <2>1
  <2> HIDE DEF u, x, y
  <2>4. <<x, y>> \in Seq(Byte) /\ Len(<<x, y>>) = 2 /\ <<x, y>>[1] = x /\ <<x, y>>[2] = y
    BY <1>2, <2>1 DEF x
  <2>5. \A i \in 1..2 : u[i] = <<x, y>>[i]
    <3> TAKE i \in 1..2
    <3>1. i = 1 \/ i = 2
      OBVIOUS
    <3> QED
      BY <2>3, <2>4, <3>1
  <2>6. u = <<x, y>>
    BY <2>2, <2>4, <2>5, SeqEqual
  <2> QED
    BY <2>1, <2>6 DEF u, y
<1> QED
  BY <1>1, <1>2, <1>3, <1>4

\* Two bytes lead two steps on.
LEMMA LeadsTwo ==
  ASSUME NEW a \in Readers, NEW x \in Byte, NEW y \in Byte, NEW b
  PROVE  Leads(a, <<x, y>>, b) <=> b = Step(Step(a, x), y)
<1>1. <<x>> \in Seq(Byte) /\ <<y>> \in Seq(Byte) /\ <<x, y>> = <<x>> \o <<y>>
  BY PairIs
<1>2. Step(a, x) \in Readers
  BY StepType
<1>3. ASSUME Leads(a, <<x, y>>, b)
      PROVE  b = Step(Step(a, x), y)
  <2>1. PICK r \in Readers : Leads(a, <<x>>, r) /\ Leads(r, <<y>>, b)
    BY <1>1, <1>3, LeadsCut
  <2>2. r = Step(a, x) /\ b = Step(r, y)
    BY <2>1, LeadsOne
  <2> QED
    BY <2>2
<1>4. ASSUME b = Step(Step(a, x), y)
      PROVE  Leads(a, <<x, y>>, b)
  <2>1. Leads(a, <<x>>, Step(a, x)) /\ Leads(Step(a, x), <<y>>, b)
    BY <1>2, <1>4, LeadsOne
  <2> QED
    BY <1>1, <2>1, LeadsThen
<1> QED
  BY <1>3, <1>4

----------------------------------------------------------------------------
(* The types.                                                             *)

StreamsOK ==
  /\ buf \in Seq(Byte) /\ obuf \in Seq(Byte) /\ shown \in Seq(Byte)
  /\ sbuf \in Seq(Byte) /\ rbuf \in Seq(Byte) /\ pend \in Seq(Byte)
  /\ todo \in Seq(Byte) /\ got \in Seq(Byte) /\ want \in Seq(Byte) /\ due \in Seq(Byte)

RestOK ==
  /\ pc \in {"recv", "handle", "reply", "state", "left", "quit"}
  /\ Len(buf) <= RecvBufLen /\ mode \in {"text", "command"} /\ Len(obuf) <= 2
  /\ optDo \subseteq Granted /\ swEcho \in BOOLEAN /\ closing \in BOOLEAN
  /\ Len(sbuf) <= SbufSize /\ Len(rbuf) <= RbufSize /\ state \in {"open", "hisclosing"}
  /\ Len(pend) <= 3 /\ tries \in 0..RetrySend /\ items \in 0..MaxItems
  /\ offered \subseteq Granted /\ cut \in BOOLEAN

\* They are what the type invariant says.
LEMMA TypeParts == TypeOK <=> StreamsOK /\ RestOK
  BY Zenon DEF TypeOK, StreamsOK, RestOK, Byte

LEMMA TypePartsNext == TypeOK' <=> StreamsOK' /\ RestOK'
  BY Zenon DEF TypeOK, StreamsOK, RestOK, Byte

\* What the host sends is bytes.
LEMMA ItemBytes ==
  /\ \A c \in TextBytes : c \in Byte /\ c # 0 /\ c # IAC
  /\ \A c \in Odd : c \in Byte /\ c # IAC /\ c \notin WILL..DONT
  /\ Options \subseteq Byte /\ 0 \in Byte
  BY StreamAssumption DEF Byte, IAC, WILL, DONT

\* A call of mainloop() begins with nothing read, shown or answered.
LEMMA InitInv == ASSUME Init PROVE Inv
<1>1. <<>> \in Seq(Byte) /\ Len(<<>>) = 0
  BY ByteStreams
<1>2. StreamsOK
  BY <1>1, Zenon DEF Init, TcpInit, StreamsOK
<1>3. RestOK
  <2>1. 0 <= RecvBufLen /\ 0 <= SbufSize /\ 0 <= RbufSize
    BY RecvBufLenAssumption, BufferAssumption
  <2>2. 0 \in 0..RetrySend /\ 0 \in 0..MaxItems
    BY RetrySendAssumption, RecvBufLenAssumption
  <2>3. /\ Len(buf) <= RecvBufLen /\ Len(obuf) <= 2 /\ Len(sbuf) <= SbufSize
        /\ Len(rbuf) <= RbufSize /\ Len(pend) <= 3
    BY <1>1, <2>1 DEF Init, TcpInit
  <2> QED
    BY <2>2, <2>3 DEF Init, TcpInit, RestOK
<1>4. ModeFits /\ OrderKept
  BY DEF Init, TcpInit, ModeFits, OrderKept
<1>5. Understood
  <2> DEFINE r == Reader(<<>>, <<>>, <<>>, {})
  <2>1. r \in Readers
    BY <1>1, PartFacts, ReaderParts
  <2> HIDE DEF r
  <2>2. Leads(r, <<>>, r)
    BY <2>1, LeadsStay
  <2>3. (<<>> \o <<>>) \o <<>> = <<>>
    BY <1>1, ByteStreams
  <2>4. /\ Stream = <<>> /\ (got \o sbuf) \o pend = <<>>
        /\ Reader(obuf, shown, <<>>, optDo) = r
        /\ Reader(<<>>, want, due, offered) = r
    BY <2>3, Zenon DEF Init, TcpInit, Stream, r
  <2> QED
    BY <1>1, <2>2, <2>4, Zenon DEF Understood
<1> QED
  BY <1>2, <1>3, <1>4, <1>5, TypeParts DEF Inv

----------------------------------------------------------------------------
(* What a pass of the loop handles.                                       *)

\* The run of text at the beginning of buf is of text, and not empty if buf begins
\* with text: there is a first byte that is none, or the end.
LEMMA TextLenFacts ==
  ASSUME buf \in Seq(Byte)
  PROVE  /\ TextLen \in 0..Len(buf)
         /\ \A i \in 1..TextLen : buf[i] \notin NotText
<1> DEFINE n == Len(buf)
           Ends == {i \in 0..n : i = n \/ buf[i + 1] \in NotText}
<1>1. n \in Nat
  OBVIOUS
<1> HIDE DEF n
<1>2. Ends \in SUBSET Nat /\ n \in Ends
  BY <1>1
<1> HIDE DEF Ends
<1>3. PICK x \in Ends : \A y \in Ends : x <= y
  BY <1>2, Smallest
<1>4. x \in 0..n /\ (x < n => buf[x + 1] \in NotText)
  BY <1>1 DEF Ends
<1>5. ASSUME NEW i \in 1..x
      PROVE  buf[i] \notin NotText
  <2>1. i - 1 \in 0..n /\ i - 1 < x /\ i - 1 # n /\ (i - 1) + 1 = i
    BY <1>1, <1>4
  <2>2. ~(i - 1 \in Ends)
    BY <1>3, <1>4, <2>1
  <2> QED
    BY <2>1, <2>2 DEF Ends
<1>6. \E k \in 0..n : /\ \A i \in 1..k : buf[i] \notin NotText
                      /\ k < n => buf[k + 1] \in NotText
  BY <1>4, <1>5
<1> QED
  BY <1>6, Zenon DEF TextLen, n

\* The client's reader before a handler.
Now(d) == Reader(obuf, shown, d, optDo)
Host == Reader(<<>>, want, due, offered)

\* The first k bytes of buf lead to a reader that the rest of the stream leads to
\* where the host has been.
LEMMA FrontRead ==
  ASSUME StreamsOK, NEW k \in 0..Len(buf), NEW d, Leads(Now(d), Stream, Host)
  PROVE  /\ SubSeq(buf, 1, k) \in Seq(Byte) /\ Rest(buf, k) \in Seq(Byte)
         /\ \E m \in Readers : /\ Leads(Now(d), SubSeq(buf, 1, k), m)
                               /\ Leads(m, (Rest(buf, k) \o rbuf) \o todo, Host)
<1> DEFINE f == SubSeq(buf, 1, k)
           r == Rest(buf, k)
<1>1. buf \in Seq(Byte) /\ rbuf \in Seq(Byte) /\ todo \in Seq(Byte)
  BY Zenon DEF StreamsOK
<1>2. f \in Seq(Byte) /\ r \in Seq(Byte) /\ f \o r = buf
  BY <1>1, Split
<1> HIDE DEF f, r
<1>3. Stream = f \o ((r \o rbuf) \o todo) /\ (r \o rbuf) \o todo \in Seq(Byte)
  <2>1. r \o rbuf \in Seq(Byte) /\ (r \o rbuf) \o todo \in Seq(Byte)
    BY <1>1, <1>2
  <2>2. (f \o r) \o rbuf = f \o (r \o rbuf)
    <3>1. f \in Seq(Byte) /\ r \in Seq(Byte) /\ rbuf \in Seq(Byte)
      BY <1>1, <1>2
    <3> QED
      BY <3>1, ByteStreams, ZenonT(40)
  <2>3. (f \o (r \o rbuf)) \o todo = f \o ((r \o rbuf) \o todo)
    BY <1>1, <1>2, <2>1, SMTT(40)
  <2> QED
    BY <1>2, <2>1, <2>2, <2>3, Zenon DEF Stream
<1>4. \E m \in Readers : Leads(Now(d), f, m) /\ Leads(m, (r \o rbuf) \o todo, Host)
  <2> DEFINE a == Now(d)
             c == Host
             t == (r \o rbuf) \o todo
  <2>1. Leads(a, f \o t, c) /\ t \in Seq(Byte)
    BY <1>3
  <2> HIDE DEF a, c, t
  <2>2. \E m \in Readers : Leads(a, f, m) /\ Leads(m, t, c)
    BY <1>2, <2>1, LeadsCut
  <2> QED
    BY <2>2 DEF a, c, t
<1> QED
  BY <1>2, <1>4 DEF f, r

\* A call of recv_command takes one byte or two from buf, and what it makes of the
\* command is what a reader makes of it byte by byte.
LEMMA CommandRead ==
  ASSUME StreamsOK, ModeFits, mode = "command", buf # <<>>, NEW d \in Seq(Byte),
         Now(d) \in Readers, NEW m, Leads(Now(d), SubSeq(buf, 1, Used), m)
  PROVE  /\ Used \in 0..Len(buf) /\ Cmd \in Seq(Byte) /\ Len(Cmd) \in 1..3
         /\ m = Commanded(Now(d), Cmd)
<1> DEFINE a == Now(d)
           x == buf[1]
           n == Len(buf)
<1>1. buf \in Seq(Byte) /\ obuf \in Seq(Byte)
  BY Zenon DEF StreamsOK
<1>2. n \in Nat /\ n # 0 /\ x \in Byte
  <2>1. n \in Nat /\ n # 0
    BY <1>1
  <2> QED
    BY <1>1, <2>1, ElementOfSeq
<1>3. a \in Readers /\ a.part = obuf /\ obuf \in Parts
  <2>1. a \in Readers
    OBVIOUS
  <2>2. a.part = obuf
    BY DEF Now, Reader
  <2> QED
    BY <2>1, <2>2, ReaderParts
<1>4. <<x>> \in Seq(Byte) /\ 1 \in 0..n /\ SubSeq(buf, 1, 1) = <<x>>
  BY <1>1, <1>2, Fronts, ByteStreams
<1>5. Leads(a, SubSeq(buf, 1, Used), m)
  OBVIOUS
<1> HIDE DEF a, n
<1>6. CASE obuf = <<>>
  <2>1. Used = 1
    BY <1>6 DEF Used, First, Third
  <2>2. x = IAC
    BY <1>6 DEF ModeFits
  <2>3. m = Step(a, x)
    BY <1>2, <1>3, <1>4, <1>5, <2>1, LeadsOne, ZenonT(40)
  <2>4. Step(a, x) = Reader(<<IAC>>, a.screen, a.answers, a.agreed)
    BY <1>3, <1>6, <2>2, ByteFacts DEF Step, Plain
  <2>5. Cmd = <<IAC>>
    <3>1. <<>> \o <<x>> = <<x>>
      BY <1>4, ByteStreams
    <3> QED
      BY <1>4, <1>6, <2>1, <2>2, <3>1, Zenon DEF Cmd
  <2>6. Len(<<IAC>>) = 1 /\ <<IAC>> \in Seq(Byte) /\ 1 \in 1..3
    BY ByteFacts
  <2>7. ~Whole(<<IAC>>)
    BY <2>6 DEF Whole
  <2>8. Commanded(a, <<IAC>>) = Reader(<<IAC>>, a.screen, a.answers, a.agreed)
    BY <2>7 DEF Commanded
  <2> QED
    BY <1>4, <2>1, <2>3, <2>4, <2>5, <2>6, <2>8, Zenon DEF a, n
<1>7. CASE obuf # <<>>
  <2> DEFINE c == obuf \o <<x>>
  <2>1. /\ c \in Seq(Byte) /\ Len(c) \in {2, 3} /\ c[1] = IAC
        /\ ~Whole(c) => c \in Parts
    BY <1>2, <1>3, <1>7, CommandForms
  <2>2. Step(a, x) = Commanded(a, c)
    BY <1>3, <1>7 DEF Step
  <2>3. Len(obuf) = 1 \/ Len(obuf) = 2
    <3>1. Len(obuf) <= 2 /\ Len(obuf) \in Nat /\ Len(obuf) # 0
      BY <1>1, <1>3, <1>7 DEF Parts
    <3>2. \A i \in Nat : i # 0 /\ i <= 2 => i = 1 \/ i = 2
      OBVIOUS
    <3> QED
      BY <3>1, <3>2, Zenon
  <2>4. CASE Used = 1
    <3>1. m = Commanded(a, c)
      BY <1>2, <1>3, <1>4, <1>5, <2>2, <2>4, LeadsOne, ZenonT(40)
    <3>2. Cmd = c
      BY <1>4, <2>4, Zenon DEF Cmd
    <3>3. Len(c) \in 1..3
      BY <2>1
    <3> QED
      BY <1>4, <2>1, <2>4, <3>1, <3>2, <3>3, Zenon DEF a, n
  <2>5. CASE Used # 1
    <3>0. Len(obuf) = 1 /\ (obuf \o buf)[2] = buf[1]
      <4>1. CASE Len(obuf) = 2
        <5>0. (obuf \o buf)[2] = obuf[2]
          <6>1. \A i \in 1..Len(obuf) : (obuf \o buf)[i] = obuf[i]
            BY <1>1
          <6>2. 2 \in 1..Len(obuf)
            BY <4>1
          <6> QED
            BY <6>1, <6>2
        <5>1. obuf[2] \in WILL..DONT
          BY <1>3, <4>1, Zenon DEF Parts
        <5>2. Used = 1
          BY <1>2, <4>1, <5>0, <5>1 DEF Used, First, Third, Second, n
        <5> QED
          BY <2>5, <5>2
      <4>2. CASE Len(obuf) = 1
        <5>1. Len(buf) \in Nat /\ Len(buf) # 0
          BY <1>2 DEF n
        <5>2. \A i \in 1..Len(buf) : (obuf \o buf)[Len(obuf) + i] = buf[i]
          BY <1>1
        <5>3. 1 \in 1..Len(buf) /\ Len(obuf) + 1 = 2
          BY <4>2, <5>1
        <5> QED
          BY <4>2, <5>2, <5>3
      <4> QED
        BY <2>3, <4>1, <4>2
    <3>1. Len(obuf) = 1 /\ Used = 2 /\ Second \in WILL..DONT /\ n > 1
      BY <2>5, <3>0 DEF Used, First, Third, n
    <3>2. Second = x
      BY <3>0 DEF Second
    <3> DEFINE y == buf[2]
               p == c \o <<y>>
    <3>3. y \in Byte /\ 2 \in 0..n /\ SubSeq(buf, 1, 2) = <<x, y>>
      <4>1. n \in Nat /\ n > 1 /\ n = Len(buf)
        BY <1>2, <3>1 DEF n
      <4>2. y \in Byte /\ SubSeq(buf, 1, 2) = <<x, y>>
        BY <1>1, <4>1, Fronts
      <4> QED
        BY <4>1, <4>2
    <3>4. m = Step(Step(a, x), y)
      <4>1. Leads(a, <<x, y>>, m)
        BY <1>5, <3>1, <3>3, Zenon
      <4> QED
        BY <1>2, <1>3, <3>3, <4>1, LeadsTwo
    <3>5. Len(c) = 2 /\ c[2] = x
      <4> HIDE DEF x
      <4>1. Len(c) = Len(obuf) + 1 /\ c[Len(obuf) + 1] = x
        BY <1>1, <1>2
      <4> QED
        BY <3>1, <4>1
    <3>6. ~Whole(c)
      BY <3>1, <3>2, <3>5 DEF Whole
    <3> DEFINE r == Reader(c, a.screen, a.answers, a.agreed)
    <3>7. Step(a, x) = r
      BY <2>2, <3>6 DEF Commanded
    <3>8. /\ r.part = c /\ r.screen = a.screen /\ r.answers = a.answers
          /\ r.agreed = a.agreed /\ c # <<>>
      <4>1. c # <<>>
        BY <3>5
      <4> QED
        BY <4>1 DEF Reader
    <3> HIDE DEF c, r, y
    <3>9. Step(r, y) = Commanded(r, p)
      BY <3>8 DEF Step
    <3>10. Commanded(r, p) = Commanded(a, p)
      BY <3>8, Zenon DEF Commanded
    <3>11. Cmd = p
      <4>1. <<y>> \in Seq(Byte) /\ <<x, y>> = <<x>> \o <<y>>
        BY <1>2, <3>3, PairIs
      <4>2. (obuf \o <<x>>) \o <<y>> = obuf \o (<<x>> \o <<y>>)
        BY <1>1, <1>4, <4>1, ByteStreams, ZenonT(40)
      <4> QED
        BY <3>1, <3>3, <4>1, <4>2, Zenon DEF Cmd, c
    <3>12. p \in Seq(Byte) /\ Len(p) = 3 /\ 3 \in 1..3
      <4>1. <<y>> \in Seq(Byte) /\ Len(<<y>>) = 1 /\ c \in Seq(Byte) /\ Len(c) = 2
        BY <2>1, <3>3, <3>5, ByteStreams
      <4>2. p \in Seq(Byte) /\ Len(p) = Len(c) + Len(<<y>>)
        BY <4>1, ConcatProperties
      <4> HIDE DEF p
      <4> QED
        BY <4>1, <4>2
    <3> QED
      BY <3>1, <3>3, <3>4, <3>7, <3>9, <3>10, <3>11, <3>12, Zenon DEF a, n
  <2> QED
    BY <2>4, <2>5
<1> QED
  BY <1>6, <1>7

----------------------------------------------------------------------------
(* The steps of the client.                                               *)

\* What the invariant says of the readers.
LEMMA UnderstoodParts ==
  ASSUME Inv
  PROVE  \E d \in Seq(Byte) :
           /\ Now(d) \in Readers /\ Host \in Readers /\ obuf \in Parts
           /\ Leads(Now(d), Stream, Host)
           /\ ~cut => d = (got \o sbuf) \o pend
<1>1. PICK d \in Seq(Byte) :
        /\ Leads(Now(d), Stream, Host)
        /\ ~cut => d = (got \o sbuf) \o pend
  BY Zenon DEF Inv, Understood, Now, Host
<1>2. StreamsOK
  BY TypeParts DEF Inv
<1>3. Stream \in Seq(Byte)
  <2>1. buf \in Seq(Byte) /\ rbuf \in Seq(Byte) /\ todo \in Seq(Byte)
    BY <1>2, Zenon DEF StreamsOK
  <2> QED
    BY <2>1, ByteStreams DEF Stream
<1>4. Now(d) \in Readers /\ Host \in Readers
  BY <1>1, <1>3, LeadsGrows
<1>5. obuf \in Parts
  <2>1. Now(d).part = obuf
    BY DEF Now, Reader
  <2> QED
    BY <1>4, <2>1, ReaderParts
<1> QED
  BY <1>1, <1>4, <1>5, Zenon

\* Bytes moved along the streams, nothing handled.
LEMMA UnderstoodKept ==
  ASSUME Inv, Stream' = Stream, UNCHANGED <<obuf, shown, optDo, want, due, offered>>,
         cut' \/ (cut' = cut /\ (got' \o sbuf') \o pend' = (got \o sbuf) \o pend)
  PROVE  Understood'
<1>1. PICK d \in Seq(Byte) :
        /\ Leads(Reader(obuf, shown, d, optDo), Stream, Reader(<<>>, want, due, offered))
        /\ ~cut => d = (got \o sbuf) \o pend
  BY Zenon DEF Inv, Understood
<1>2. Leads(Reader(obuf', shown', d, optDo'), Stream', Reader(<<>>, want', due', offered'))
  BY <1>1, Zenon
<1>3. ~cut' => d = (got' \o sbuf') \o pend'
  BY <1>1, Zenon
<1> QED
  BY <1>2, <1>3, Zenon DEF Understood

\* A handler takes k bytes from buf and becomes the reader they lead to.
LEMMA UnderstoodMoved ==
  ASSUME NEW k, buf' = Rest(buf, k), UNCHANGED <<rbuf, hostVars>>,
         NEW d \in Seq(Byte),
         Leads(Reader(obuf', shown', d, optDo'), (Rest(buf, k) \o rbuf) \o todo, Host),
         ~cut' => d = (got' \o sbuf') \o pend'
  PROVE  Understood'
<1>1. UNCHANGED <<todo, want, due, offered>>
  BY DEF hostVars
<1>2. Stream' = (Rest(buf, k) \o rbuf) \o todo /\ Host = Reader(<<>>, want', due', offered')
  BY <1>1, Zenon DEF Stream, Host
<1> QED
  BY <1>2, Zenon DEF Understood

\* Recv reads what has arrived to an empty buf.
LEMMA RecvKeeps ==
  ASSUME Inv, Recv
  PROVE  Inv'
<1>1. StreamsOK /\ RestOK /\ ModeFits /\ OrderKept
  BY TypeParts DEF Inv
<1>2. /\ buf \in Seq(Byte) /\ rbuf \in Seq(Byte) /\ todo \in Seq(Byte)
      /\ Len(buf) <= RecvBufLen /\ Len(rbuf) <= RbufSize
      /\ Len(rbuf) \in Nat /\ RecvBufLen \in Nat /\ RecvBufLen # 0
  BY <1>1, LenProperties, RecvBufLenAssumption, Zenon DEF StreamsOK, RestOK
<1> DEFINE k == Least(RecvBufLen, Len(rbuf))
<1>3. k \in 0..Len(rbuf) /\ k <= RecvBufLen /\ (k = 0 => Len(rbuf) = 0)
  BY <1>2 DEF Least
<1>4. UNCHANGED <<sbuf, state, pend, tries, mode, obuf, optDo, swEcho, closing, shown,
                  todo, items, want, due, offered, got, cut>> /\ pc' = "handle"
  BY DEF Recv, TcpRecv, tcpVars, sendVars, hostVars
<1> HIDE DEF k
<1>5. /\ buf' \in Seq(Byte) /\ rbuf' \in Seq(Byte) /\ Len(buf') <= RecvBufLen
      /\ Len(rbuf') <= RbufSize /\ Stream' = Stream
      /\ buf' = <<>> => rbuf' = <<>>
      /\ buf # <<>> => buf' = buf
  <2>1. CASE buf = <<>>
    <3>1. buf' = SubSeq(rbuf, 1, k) /\ rbuf' = Rest(rbuf, k)
      BY <2>1 DEF Recv, Received, TcpRecv, k
    <3>2. /\ buf' \in Seq(Byte) /\ Len(buf') = k /\ rbuf' \in Seq(Byte)
          /\ Len(rbuf') = Len(rbuf) - k /\ buf' \o rbuf' = rbuf
      BY <1>2, <1>3, <3>1, Split
    <3>3. Len(buf') <= RecvBufLen /\ Len(rbuf') <= RbufSize
      <4>1. ASSUME NEW i \in Nat, NEW j \in 0..i, i <= RbufSize
            PROVE  i - j <= RbufSize
        BY <4>1, BufferAssumption
      <4> QED
        BY <1>2, <1>3, <3>2, <4>1
    <3>4. Stream' = Stream
      <4>1. <<>> \o rbuf = rbuf
        BY <1>2, ByteStreams
      <4> QED
        BY <1>4, <2>1, <3>2, <4>1, Zenon DEF Stream
    <3>5. ASSUME buf' = <<>> PROVE rbuf' = <<>>
      <4>1. k = 0
        BY <3>2, <3>5
      <4>2. Len(rbuf') = 0
        BY <1>2, <1>3, <3>2, <4>1
      <4> QED
        BY <3>2, <4>2
    <3> QED
      BY <2>1, <3>2, <3>3, <3>4, <3>5
  <2>2. CASE buf # <<>>
    <3>1. buf' = buf /\ rbuf' = rbuf
      BY <2>2 DEF Recv, tcpVars
    <3>2. Stream' = Stream
      BY <1>4, <3>1, Zenon DEF Stream
    <3> QED
      BY <1>2, <2>2, <3>1, <3>2, Zenon
  <2> QED
    BY <2>1, <2>2
<1>6. StreamsOK'
  BY <1>1, <1>4, <1>5, Zenon DEF StreamsOK
<1>7. RestOK'
  BY <1>1, <1>4, <1>5, Zenon DEF RestOK
<1>8. ModeFits'
  BY <1>1, <1>4, <1>5, Zenon DEF ModeFits
<1>9. OrderKept'
  <2>1. pc = "recv"
    BY DEF Recv
  <2> QED
    BY <1>1, <1>4, <1>5, <2>1 DEF OrderKept
<1>10. Understood'
  BY <1>4, <1>5, UnderstoodKept, Zenon
<1> QED
  BY <1>6, <1>7, <1>8, <1>9, <1>10, TypePartsNext, Zenon DEF Inv

\* A step that only looks, or ends the pass.
LEMMA LookKeeps ==
  ASSUME Inv, Quit \/ Idle \/ CheckState \/ ReplyDone
  PROVE  Inv'
<1>1. StreamsOK /\ RestOK /\ ModeFits /\ OrderKept
  BY TypeParts DEF Inv
<1>2. UNCHANGED <<sbuf, rbuf, state, pend, tries, buf, mode, obuf, optDo, swEcho, shown,
                  todo, items, want, due, offered, got, cut>>
  BY DEF Quit, Idle, CheckState, ReplyDone, tcpVars, sendVars, hostVars
<1>3. pc' \in {"recv", "left", "state", "quit"} /\ closing' \in BOOLEAN
  BY <1>1, Zenon DEF Quit, Idle, CheckState, ReplyDone, Leaves, AfterClosing, RestOK
<1>4. StreamsOK'
  BY <1>1, <1>2, Zenon DEF StreamsOK
<1>5. RestOK'
  <2>1. pc' \in {"recv", "handle", "reply", "state", "left", "quit"}
    BY <1>3
  <2> QED
    BY <1>1, <1>2, <1>3, <2>1, Zenon DEF RestOK
<1>6. ModeFits'
  BY <1>1, <1>2, Zenon DEF ModeFits
<1>7. OrderKept'
  <2>1. pend = <<>> \/ (pc = "reply" /\ pend' = pend /\ pend = <<>>)
    BY <1>1, <1>2 DEF OrderKept, Quit, Idle, CheckState, ReplyDone, Sending
  <2>2. closing' => state' = "hisclosing"
    BY <1>1, <1>2 DEF OrderKept, RestOK, Quit, Idle, CheckState, ReplyDone
  <2>3. pc' = "left" => closing' /\ buf' = <<>> /\ rbuf' = <<>>
    BY <1>1, <1>2 DEF OrderKept, Quit, Idle, CheckState, ReplyDone, Leaves, AfterClosing
  <2>4. state' = "hisclosing" => todo' = <<>>
    BY <1>1, <1>2, Zenon DEF OrderKept
  <2> QED
    BY <1>2, <1>3, <2>1, <2>2, <2>3, <2>4 DEF OrderKept
<1>8. Understood'
  <2>1. Stream' = Stream
    BY <1>2, Zenon DEF Stream
  <2> QED
    BY <1>2, <2>1, UnderstoodKept, Zenon
<1> QED
  BY <1>4, <1>5, <1>6, <1>7, <1>8, TypePartsNext, Zenon DEF Inv

\* A handler keeps the types and the order of the rest when it takes the front of buf.
LEMMA FrontTaken ==
  ASSUME Inv, pc = "handle", buf # <<>>, NEW k \in 0..Len(buf), buf' = Rest(buf, k),
         pc' \in {"state", "reply"}, mode' \in {"text", "command"}, swEcho' \in BOOLEAN,
         obuf' \in Parts, shown' \in Seq(Byte), optDo' \subseteq Granted,
         pend' \in Seq(Byte), Len(pend') <= 3, tries' \in 0..RetrySend,
         pc' = "reply" \/ pend' = pend,
         UNCHANGED <<tcpVars, closing, hostVars, got, cut>>
  PROVE  StreamsOK' /\ RestOK' /\ OrderKept'
<1>1. StreamsOK /\ RestOK /\ OrderKept
  BY TypeParts DEF Inv
<1>2. UNCHANGED <<sbuf, rbuf, state, closing, todo, items, want, due, offered, got, cut>>
  BY DEF tcpVars, hostVars
<1>3. buf \in Seq(Byte) /\ Len(buf) <= RecvBufLen /\ Len(buf) \in Nat
  BY <1>1, LenProperties, Zenon DEF StreamsOK, RestOK
<1>4. buf' \in Seq(Byte) /\ Len(buf') = Len(buf) - k
  BY <1>3, Split
<1>5. Len(buf') <= RecvBufLen
  <2>1. ASSUME NEW i \in Nat, NEW j \in 0..i, i <= RecvBufLen
        PROVE  i - j <= RecvBufLen
    BY <2>1, RecvBufLenAssumption
  <2> QED
    BY <1>3, <1>4, <2>1
<1>6. obuf' \in Seq(Byte) /\ Len(obuf') <= 2
  BY Zenon DEF Parts
<1>7. StreamsOK'
  BY <1>1, <1>2, <1>4, <1>6, Zenon DEF StreamsOK
<1>8. RestOK'
  <2>1. pc' \in {"recv", "handle", "reply", "state", "left", "quit"}
    OBVIOUS
  <2> QED
    BY <1>1, <1>2, <1>5, <1>6, <2>1, Zenon DEF RestOK
<1>9. OrderKept'
  BY <1>1, <1>2 DEF OrderKept
<1> QED
  BY <1>7, <1>8, <1>9

\* TEXTMODE.
LEMMA TextKeeps ==
  ASSUME Inv, Text
  PROVE  Inv'
<1>1. StreamsOK /\ RestOK /\ ModeFits /\ OrderKept
  BY TypeParts DEF Inv
<1>2. /\ pc = "handle" /\ buf # <<>> /\ pc' = "state" /\ mode = "text"
      /\ UNCHANGED <<tcpVars, pend, tries, obuf, optDo, swEcho, closing, hostVars, got, cut>>
      /\ UNCHANGED <<sbuf, rbuf>>
  BY DEF Text, sendVars, tcpVars
<1>3. /\ buf \in Seq(Byte) /\ shown \in Seq(Byte) /\ obuf = <<>>
      /\ pend \in Seq(Byte) /\ Len(pend) <= 3 /\ tries \in 0..RetrySend /\ swEcho \in BOOLEAN
      /\ optDo \subseteq Granted
  BY <1>1, <1>2, Zenon DEF StreamsOK, RestOK, ModeFits
<1>4. PICK d \in Seq(Byte) :
        /\ Now(d) \in Readers /\ Host \in Readers /\ obuf \in Parts
        /\ Leads(Now(d), Stream, Host)
        /\ ~cut => d = (got \o sbuf) \o pend
  BY UnderstoodParts
<1>5. /\ Now(d).part = <<>> /\ Now(d).screen = shown /\ Now(d).answers = d
      /\ Now(d).agreed = optDo
  BY <1>3 DEF Now, Reader
<1>6. Len(buf) # 0 /\ Len(buf) \in Nat
  BY <1>2, <1>3
<1>7. (~cut' => d = (got' \o sbuf') \o pend') /\ obuf' = <<>> /\ optDo' = optDo
  BY <1>2, <1>3, <1>4, Zenon
<1>8. ASSUME NEW k \in 0..Len(buf), buf' = Rest(buf, k), shown' \in Seq(Byte), mode' = "text",
             \A m \in Readers : Leads(Now(d), SubSeq(buf, 1, k), m)
                                  => m = Reader(<<>>, shown', d, optDo)
      PROVE  Inv'
  <2>1. StreamsOK' /\ RestOK' /\ OrderKept'
    <3>1. obuf' \in Parts /\ optDo' \subseteq Granted /\ swEcho' \in BOOLEAN
      BY <1>2, <1>3, <1>7, PartFacts, Zenon
    <3>2. pend' \in Seq(Byte) /\ Len(pend') <= 3 /\ tries' \in 0..RetrySend /\ pend' = pend
      BY <1>2, <1>3, Zenon
    <3>3. mode' \in {"text", "command"} /\ pc' \in {"state", "reply"}
      BY <1>2, <1>8
    <3> QED
      BY <1>2, <1>8, <3>1, <3>2, <3>3, FrontTaken, Zenon
  <2>2. PICK m \in Readers : /\ Leads(Now(d), SubSeq(buf, 1, k), m)
                             /\ Leads(m, (Rest(buf, k) \o rbuf) \o todo, Host)
    BY <1>1, <1>4, FrontRead, Zenon
  <2>3. m = Reader(obuf', shown', d, optDo')
    BY <1>7, <1>8, <2>2, Zenon
  <2>4. Understood'
    BY <1>2, <1>7, <1>8, <2>2, <2>3, UnderstoodMoved, Zenon
  <2>5. ModeFits'
    BY <1>7, <1>8 DEF ModeFits
  <2> QED
    BY <2>1, <2>4, <2>5, TypePartsNext, Zenon DEF Inv
<1>9. CASE Head(buf) = 0
  <2>1. /\ buf' = Tail(buf) /\ shown' = shown /\ mode' = "text"
    BY <1>2, <1>9, ByteFacts DEF Text
  <2>2. Head(buf) = buf[1] /\ Tail(buf) = Rest(buf, 1) /\ 1 \in 0..Len(buf)
    BY <1>3, <1>6 DEF Rest
  <2>3. SubSeq(buf, 1, 1) = <<buf[1]>> /\ buf[1] \in Byte
    BY <1>3, <1>6, Fronts
  <2>4. ASSUME NEW m \in Readers, Leads(Now(d), SubSeq(buf, 1, 1), m)
        PROVE  m = Reader(<<>>, shown', d, optDo)
    <3>1. m = Step(Now(d), 0)
      <4>1. Leads(Now(d), <<buf[1]>>, m)
        BY <2>3, <2>4, Zenon
      <4>2. m = Step(Now(d), buf[1])
        BY <1>4, <2>3, <4>1, LeadsOne
      <4> QED
        BY <1>9, <2>2, <4>2, Zenon
    <3>2. Step(Now(d), 0) = Now(d)
      BY <1>5 DEF Step, Plain
    <3> QED
      BY <1>3, <2>1, <3>1, <3>2, Zenon DEF Now
  <2> QED
    BY <1>3, <1>8, <2>1, <2>2, <2>4, Zenon
<1>10. CASE Head(buf) = IAC
  <2>1. buf' = buf /\ shown' = shown /\ mode' = "command"
    BY <1>2, <1>10, ByteFacts DEF Text
  <2>2. Head(buf) = buf[1] /\ Rest(buf, 0) = buf /\ 0 \in 0..Len(buf)
    <3>1. SubSeq(buf, 0 + 1, Len(buf)) = buf
      BY <1>3, <1>6, Split, SeqEqual
    <3> QED
      BY <1>3, <1>6, <3>1 DEF Rest
  <2>3. StreamsOK' /\ RestOK' /\ OrderKept'
    <3>1. obuf' \in Parts /\ optDo' \subseteq Granted /\ swEcho' \in BOOLEAN
      BY <1>2, <1>3, <1>7, PartFacts, Zenon
    <3>2. pend' \in Seq(Byte) /\ Len(pend') <= 3 /\ tries' \in 0..RetrySend /\ pend' = pend
      BY <1>2, <1>3, Zenon
    <3>3. mode' \in {"text", "command"} /\ pc' \in {"state", "reply"} /\ shown' \in Seq(Byte)
      BY <1>2, <1>3, <2>1
    <3>4. buf' = Rest(buf, 0)
      BY <2>1, <2>2
    <3> QED
      BY <1>2, <2>2, <3>1, <3>2, <3>3, <3>4, FrontTaken, Zenon
  <2>4. Understood'
    <3>1. Stream' = Stream
      BY <1>2, <2>1, Zenon DEF Stream, hostVars
    <3>2. UNCHANGED <<obuf, shown, optDo, want, due, offered>>
      BY <1>2, <2>1 DEF hostVars
    <3>3. cut' = cut /\ (got' \o sbuf') \o pend' = (got \o sbuf) \o pend
      BY <1>2, Zenon
    <3> QED
      BY <3>1, <3>2, <3>3, UnderstoodKept, Zenon
  <2>5. ModeFits'
    BY <1>2, <1>10, <2>1, <2>2 DEF ModeFits
  <2> QED
    BY <2>3, <2>4, <2>5, TypePartsNext, Zenon DEF Inv
<1>11. CASE Head(buf) \notin {0, IAC}
  <2> DEFINE k == TextLen
             f == SubSeq(buf, 1, k)
  <2>1. buf' = Rest(buf, k) /\ shown' = shown \o f /\ mode' = "text"
    BY <1>2, <1>11 DEF Text
  <2>2. k \in 0..Len(buf) /\ \A i \in 1..k : buf[i] \notin NotText
    BY <1>3, TextLenFacts
  <2> HIDE DEF k
  <2>3. /\ f \in Seq(Byte) /\ Len(f) = k
        /\ \A i \in 1..k : f[i] = buf[i]
    BY <1>3, <2>2, Split
  <2> HIDE DEF f
  <2>4. shown' \in Seq(Byte)
    BY <1>3, <2>1, <2>3, ByteStreams
  <2>5. \A i \in 1..Len(f) : f[i] \notin NotText
    BY <2>2, <2>3
  <2>6. ASSUME NEW m \in Readers, Leads(Now(d), f, m)
        PROVE  m = Reader(<<>>, shown', d, optDo)
    <3>1. m = Reader(<<>>, Now(d).screen \o f, Now(d).answers, Now(d).agreed)
      BY <1>4, <1>5, <2>3, <2>5, <2>6, LeadsText, Zenon
    <3> QED
      BY <1>5, <2>1, <3>1, Zenon
  <2> QED
    BY <1>8, <2>1, <2>2, <2>4, <2>6, Zenon DEF f
<1> QED
  BY <1>9, <1>10, <1>11 DEF Text

\* COMMANDMODE: what recv_command takes from buf, and the reader it leads to.
LEMMA CommandTaken ==
  ASSUME Inv, mode = "command", buf # <<>>
  PROVE  /\ Used \in 0..Len(buf) /\ Cmd \in Seq(Byte) /\ Len(Cmd) \in 1..3
         /\ \E d \in Seq(Byte) :
              /\ ~cut => d = (got \o sbuf) \o pend
              /\ Commanded(Reader(obuf, shown, d, optDo), Cmd) \in Readers
              /\ Leads(Commanded(Reader(obuf, shown, d, optDo), Cmd),
                       (Rest(buf, Used) \o rbuf) \o todo, Host)
<1>1. StreamsOK /\ ModeFits
  BY TypeParts DEF Inv
<1>2. PICK d \in Seq(Byte) :
        /\ Now(d) \in Readers /\ Host \in Readers /\ obuf \in Parts
        /\ Leads(Now(d), Stream, Host)
        /\ ~cut => d = (got \o sbuf) \o pend
  BY UnderstoodParts
<1>3. Used \in 0..Len(buf)
  <2>1. Len(obuf) \in Nat /\ Len(obuf) <= 2 /\ Len(buf) \in Nat /\ Len(buf) # 0
    BY <1>1, <1>2 DEF StreamsOK, Parts
  <2>2. Len(obuf) = 0 \/ Len(obuf) = 1 \/ Len(obuf) = 2
    <3>1. \A i \in Nat : i <= 2 => i = 0 \/ i = 1 \/ i = 2
      OBVIOUS
    <3> QED
      BY <2>1, <3>1, Zenon
  <2>3. Used = 0 \/ Used = 1 \/ (Used = 2 /\ Len(buf) > 1)
    BY <2>1, <2>2 DEF Used, First, Third
  <2> QED
    BY <2>1, <2>3
<1>4. PICK m \in Readers : /\ Leads(Now(d), SubSeq(buf, 1, Used), m)
                           /\ Leads(m, (Rest(buf, Used) \o rbuf) \o todo, Host)
  BY <1>1, <1>2, <1>3, FrontRead, Zenon
<1>5. /\ Cmd \in Seq(Byte) /\ Len(Cmd) \in 1..3
      /\ m = Commanded(Now(d), Cmd)
  BY <1>1, <1>2, <1>4, CommandRead, Zenon
<1>6. Now(d) = Reader(obuf, shown, d, optDo)
  BY DEF Now
<1> QED
  BY <1>2, <1>3, <1>4, <1>5, <1>6, Zenon

\* COMMANDMODE, the command still incomplete.
LEMMA CommandPartKeeps ==
  ASSUME Inv, CommandPart
  PROVE  Inv'
<1>1. StreamsOK /\ RestOK
  BY TypeParts DEF Inv
<1>2. /\ pc = "handle" /\ buf # <<>> /\ pc' = "state" /\ mode = "command" /\ ~Whole(Cmd)
      /\ obuf' = Cmd /\ buf' = Rest(buf, Used)
      /\ UNCHANGED <<tcpVars, pend, tries, mode, optDo, swEcho, closing, shown, hostVars, got, cut>>
      /\ UNCHANGED <<sbuf, rbuf>>
  BY DEF CommandPart, Kept, sendVars, tcpVars
<1>3. /\ Used \in 0..Len(buf) /\ Len(Cmd) \in 1..3
  BY <1>2, CommandTaken
<1>4. PICK d \in Seq(Byte) :
        /\ ~cut => d = (got \o sbuf) \o pend
        /\ Commanded(Reader(obuf, shown, d, optDo), Cmd) \in Readers
        /\ Leads(Commanded(Reader(obuf, shown, d, optDo), Cmd),
                 (Rest(buf, Used) \o rbuf) \o todo, Host)
  BY <1>2, CommandTaken
<1>5. Commanded(Reader(obuf, shown, d, optDo), Cmd) = Reader(Cmd, shown, d, optDo)
  <2> DEFINE r == Reader(obuf, shown, d, optDo)
  <2>1. r.screen = shown /\ r.answers = d /\ r.agreed = optDo
    BY DEF Reader
  <2> HIDE DEF r
  <2>2. Commanded(r, Cmd) = Reader(Cmd, shown, d, optDo)
    BY <1>2, <2>1, Zenon DEF Commanded
  <2> QED
    BY <2>2 DEF r
<1>6. Cmd \in Parts /\ Cmd # <<>>
  <2>1. Reader(Cmd, shown, d, optDo).part = Cmd
    BY DEF Reader
  <2>2. Reader(Cmd, shown, d, optDo) \in Readers
    BY <1>4, <1>5, Zenon
  <2>3. Cmd \in Parts
    BY <2>1, <2>2, ReaderParts
  <2>4. Len(Cmd) # 0
    <3>1. \A n \in 1..3 : n # 0
      OBVIOUS
    <3> QED
      BY <1>3, <3>1, Zenon
  <2>5. Cmd # <<>>
    <3>1. Len(<<>>) = 0
      OBVIOUS
    <3> QED
      BY <2>4, <3>1, Zenon
  <2> QED
    BY <2>3, <2>5
<1>7. StreamsOK' /\ RestOK' /\ OrderKept'
  <2>1. pend \in Seq(Byte) /\ Len(pend) <= 3 /\ tries \in 0..RetrySend /\ shown \in Seq(Byte)
        /\ swEcho \in BOOLEAN /\ optDo \subseteq Granted /\ mode \in {"text", "command"}
    BY <1>1, Zenon DEF StreamsOK, RestOK
  <2>2. pc' \in {"state", "reply"}
    BY <1>2
  <2> QED
    BY <1>2, <1>3, <1>6, <2>1, <2>2, FrontTaken, Zenon
<1>8. Understood'
  <2>1. /\ Reader(obuf', shown', d, optDo') = Reader(Cmd, shown, d, optDo)
        /\ ~cut' => d = (got' \o sbuf') \o pend'
    BY <1>2, <1>4, Zenon
  <2> QED
    BY <1>2, <1>4, <1>5, <2>1, UnderstoodMoved, Zenon
<1>9. ModeFits'
  BY <1>2, <1>6, Zenon DEF ModeFits
<1> QED
  BY <1>7, <1>8, <1>9, TypePartsNext, Zenon DEF Inv

\* COMMANDMODE, a command complete.
LEMMA CommandKeeps ==
  ASSUME Inv, Command
  PROVE  Inv'
<1>1. StreamsOK /\ RestOK /\ OrderKept
  BY TypeParts DEF Inv
<1>2. /\ pc = "handle" /\ buf # <<>> /\ mode = "command" /\ Whole(Cmd)
      /\ obuf' = <<>> /\ mode' = "text" /\ buf' = Rest(buf, Used)
      /\ UNCHANGED <<tcpVars, closing, hostVars, got, cut>>
      /\ UNCHANGED <<sbuf, rbuf>>
  BY DEF Command, tcpVars
<1>3. Used \in 0..Len(buf) /\ Cmd \in Seq(Byte)
  BY <1>2, CommandTaken
<1>4. PICK d \in Seq(Byte) :
        /\ ~cut => d = (got \o sbuf) \o pend
        /\ Commanded(Reader(obuf, shown, d, optDo), Cmd) \in Readers
        /\ Leads(Commanded(Reader(obuf, shown, d, optDo), Cmd),
                 (Rest(buf, Used) \o rbuf) \o todo, Host)
  BY <1>2, CommandTaken
<1> DEFINE r == Reader(obuf, shown, d, optDo)
<1>5. r.screen = shown /\ r.answers = d /\ r.agreed = optDo
  BY DEF Reader
<1>6. /\ pend = <<>> /\ pend \in Seq(Byte) /\ Len(pend) <= 3 /\ tries \in 0..RetrySend
      /\ shown \in Seq(Byte) /\ got \in Seq(Byte) /\ sbuf \in Seq(Byte)
      /\ swEcho \in BOOLEAN /\ optDo \in SUBSET Granted
  BY <1>1, <1>2 DEF StreamsOK, RestOK, OrderKept
<1>7. (got \o sbuf) \o <<>> = got \o sbuf /\ got \o sbuf \in Seq(Byte)
  BY <1>6, ByteStreams
<1>8. ~cut => d = got \o sbuf
  BY <1>4, <1>6, <1>7, Zenon
<1> HIDE DEF r
<1>9. ASSUME NEW a \in Seq(Byte), pc' \in {"state", "reply"}, shown' \in Seq(Byte),
             optDo' \subseteq Granted, swEcho' \in BOOLEAN,
             pend' \in Seq(Byte), Len(pend') <= 3, tries' \in 0..RetrySend,
             pc' = "reply" \/ pend' = pend,
             Commanded(r, Cmd) = Reader(<<>>, shown', d \o a, optDo'), pend' = a
      PROVE  Inv'
  <2>1. StreamsOK' /\ RestOK' /\ OrderKept'
    <3>1. obuf' \in Parts /\ mode' \in {"text", "command"}
      BY <1>2, PartFacts
    <3> QED
      BY <1>2, <1>3, <1>9, <3>1, FrontTaken, Zenon
  <2>2. d \o a \in Seq(Byte)
    BY ByteStreams
  <2>3. ~cut' => d \o a = (got' \o sbuf') \o pend'
    BY <1>2, <1>8, <1>9, Zenon
  <2>4. Leads(Reader(obuf', shown', d \o a, optDo'), (Rest(buf, Used) \o rbuf) \o todo, Host)
    BY <1>2, <1>4, <1>9, Zenon DEF r
  <2>5. Understood'
    BY <1>2, <2>2, <2>3, <2>4, UnderstoodMoved, Zenon
  <2>6. ModeFits'
    BY <1>2 DEF ModeFits
  <2> QED
    BY <2>1, <2>5, <2>6, TypePartsNext, Zenon DEF Inv
<1>10. Len(Cmd) = 2 \/ Len(Cmd) = 3
  BY <1>2 DEF Whole
<1>11. CASE Len(Cmd) = 2
  <2>1. /\ shown' = shown \o Screen(Cmd) /\ pc' = "state"
        /\ UNCHANGED <<optDo, swEcho, pend, tries>>
    BY <1>11 DEF Command, sendVars
  <2>2. Commanded(r, Cmd) = Reader(<<>>, shown \o Screen(Cmd), d, optDo)
    BY <1>2, <1>5, <1>11, Zenon DEF Commanded
  <2>3. shown' \in Seq(Byte) /\ d \o <<>> = d
    <3>1. Screen(Cmd) \in Seq(Byte)
      <4>1. <<IAC>> \in Seq(Byte) /\ <<>> \in Seq(Byte)
        BY ByteFacts
      <4> QED
        BY <1>3, <4>1, Zenon DEF Screen
    <3> QED
      BY <1>6, <2>1, <3>1, ByteStreams
  <2>4. pc' \in {"state", "reply"} /\ <<>> \in Seq(Byte) /\ pend' = <<>>
    BY <1>6, <2>1
  <2>5. Commanded(r, Cmd) = Reader(<<>>, shown', d \o <<>>, optDo')
    BY <2>1, <2>2, <2>3, Zenon
  <2> QED
    BY <1>6, <1>9, <2>1, <2>3, <2>4, <2>5, Zenon
<1>12. CASE Len(Cmd) = 3
  <2>1. /\ optDo' = IF Cmd[2] = WILL THEN optDo \cup ({Cmd[3]} \cap Granted) ELSE optDo
        /\ swEcho' = (swEcho /\ ~(Cmd[2] = WILL /\ Cmd[3] = ECHO))
        /\ IF Answer(Cmd) = <<>>
           THEN pc' = "state" /\ UNCHANGED sendVars
           ELSE pc' = "reply" /\ Send(Answer(Cmd))
        /\ shown' = shown
    BY <1>12 DEF Command
  <2>2. Answer(Cmd) = Owed(Cmd, optDo) /\ optDo' = Agreed(Cmd, optDo)
    BY <2>1, Zenon DEF Answer, Owed, Agreed
  <2>3. /\ Owed(Cmd, optDo) \in Seq(Byte) /\ Len(Owed(Cmd, optDo)) <= 3
        /\ Agreed(Cmd, optDo) \in SUBSET Granted
    BY <1>3, <1>6, <1>12, OwedType
  <2>4. pend' = Owed(Cmd, optDo) /\ tries' \in 0..RetrySend /\ pc' \in {"state", "reply"}
        /\ (pc' = "reply" \/ pend' = pend)
    <3>1. CASE Answer(Cmd) = <<>>
      BY <1>6, <2>1, <2>2, <3>1 DEF sendVars
    <3>2. CASE Answer(Cmd) # <<>>
      <4>1. RetrySend \in 0..RetrySend
        BY RetrySendAssumption
      <4> QED
        BY <2>1, <2>2, <3>2, <4>1 DEF Send
    <3> QED
      BY <3>1, <3>2
  <2>5. Whole(Cmd) /\ Len(Cmd) # 2
    BY <1>2, <1>12
  <2>6. Commanded(r, Cmd) = Reader(<<>>, shown', d \o Owed(Cmd, optDo), optDo')
    BY <1>5, <2>1, <2>2, <2>5, Zenon DEF Commanded
  <2>7. swEcho' \in BOOLEAN
    BY <1>6, <2>1
  <2>8. shown' \in Seq(Byte) /\ optDo' \subseteq Granted
    BY <1>6, <2>1, <2>2, <2>3
  <2> QED
    BY <1>9, <2>3, <2>4, <2>6, <2>7, <2>8, Zenon
<1> QED
  BY <1>10, <1>11, <1>12

\* The streams g, u and v, one after the other, are g, s and t.
SameWhole(g, u, v, s, t) == (g \o u) \o v = (g \o s) \o t

\* Bytes of the front of one stream put at the end of the one before it, behind a third.
LEMMA Passed ==
  ASSUME NEW g \in Seq(Byte), NEW s \in Seq(Byte), NEW t \in Seq(Byte), NEW k \in 0..Len(t)
  PROVE  LET f == SubSeq(t, 1, k)
         IN  /\ f \in Seq(Byte) /\ s \o f \in Seq(Byte) /\ Rest(t, k) \in Seq(Byte)
             /\ Len(s \o f) = Len(s) + k /\ Len(Rest(t, k)) = Len(t) - k
             /\ SameWhole(g, s \o f, Rest(t, k), s, t)
<1> DEFINE f == SubSeq(t, 1, k)
           v == Rest(t, k)
<1>1. f \in Seq(Byte) /\ Len(f) = k /\ v \in Seq(Byte) /\ Len(v) = Len(t) - k
  BY Split
<1>2. ((g \o s) \o f) \o v = (g \o s) \o t /\ g \o s \in Seq(Byte)
  <2> DEFINE p == g \o s
  <2>1. p \in Seq(Byte)
    BY ByteStreams
  <2> HIDE DEF p
  <2>2. (p \o f) \o v = p \o t
    BY <2>1, Moved
  <2> QED
    BY <2>1, <2>2 DEF p
<1> HIDE DEF f, v
<1>4. s \o f \in Seq(Byte) /\ Len(s \o f) = Len(s) + k
  <2>1. s \o f \in Seq(Byte) /\ Len(s \o f) = Len(s) + Len(f)
    BY <1>1, ConcatProperties
  <2> QED
    BY <1>1, <2>1
<1>5. g \o (s \o f) = (g \o s) \o f
  <2>1. ASSUME NEW x \in Seq(Byte) PROVE g \o (s \o x) = (g \o s) \o x
    BY SMTT(40)
  <2> QED
    BY <1>1, <2>1
<1>6. (g \o (s \o f)) \o v = (g \o s) \o t
  BY <1>2, <1>5, Zenon
<1> QED
  BY <1>1, <1>4, <1>6, Zenon DEF f, v, SameWhole

\* send() at work, or given up.
LEMMA ReplyKeeps ==
  ASSUME Inv, Reply \/ ReplyEscape
  PROVE  Inv'
<1>1. StreamsOK /\ RestOK /\ ModeFits /\ OrderKept
  BY TypeParts DEF Inv
<1>2. /\ pc = "reply"
      /\ UNCHANGED <<rbuf, state, pc, buf, mode, obuf, optDo, swEcho, closing, shown,
                     todo, items, want, due, offered, got>>
  BY DEF Reply, ReplyEscape, SendTry, SendEscape, HandOver, clientVars, hostVars
<1>3. /\ pend \in Seq(Byte) /\ sbuf \in Seq(Byte) /\ got \in Seq(Byte)
      /\ Len(pend) <= 3 /\ Len(sbuf) <= SbufSize /\ Len(pend) \in Nat /\ Len(sbuf) \in Nat
      /\ tries \in 0..RetrySend /\ cut \in BOOLEAN /\ SbufSize \in Nat /\ RetrySend \in Nat
  BY <1>1, LenProperties, BufferAssumption, RetrySendAssumption, Zenon DEF StreamsOK, RestOK
<1>4. /\ pend' \in Seq(Byte) /\ sbuf' \in Seq(Byte) /\ Len(pend') <= 3
      /\ Len(sbuf') <= SbufSize /\ tries' \in 0..RetrySend /\ cut' \in BOOLEAN
      /\ cut' \/ (cut' = cut /\ (got' \o sbuf') \o pend' = (got \o sbuf) \o pend)
  <2>1. sbuf' = sbuf \o SubSeq(pend, 1, Room)
    BY DEF Reply, ReplyEscape, SendTry, SendEscape, HandOver
  <2>2. Room \in 0..Len(pend) /\ Len(sbuf) + Room <= SbufSize
    BY <1>3 DEF Room, Least
  <2> DEFINE k == Room
             left == Rest(pend, k)
  <2> HIDE DEF k
  <2>3. /\ sbuf' \in Seq(Byte) /\ left \in Seq(Byte)
        /\ Len(sbuf') = Len(sbuf) + k /\ Len(left) = Len(pend) - k
        /\ (got \o sbuf') \o left = (got \o sbuf) \o pend
    <3>1. k \in 0..Len(pend) /\ sbuf' = sbuf \o SubSeq(pend, 1, k)
      BY <2>1, <2>2 DEF k
    <3>2. got \in Seq(Byte) /\ sbuf \in Seq(Byte) /\ pend \in Seq(Byte)
      BY <1>3
    <3>3. /\ sbuf \o SubSeq(pend, 1, k) \in Seq(Byte) /\ Rest(pend, k) \in Seq(Byte)
          /\ Len(sbuf \o SubSeq(pend, 1, k)) = Len(sbuf) + k
          /\ Len(Rest(pend, k)) = Len(pend) - k
          /\ SameWhole(got, sbuf \o SubSeq(pend, 1, k), Rest(pend, k), sbuf, pend)
      BY <3>1, <3>2, Passed
    <3> QED
      BY <3>1, <3>3, Zenon DEF SameWhole
  <2> HIDE DEF left
  <2>4. Len(left) <= 3 /\ Len(sbuf') <= SbufSize
    <3>1. k \in 0..Len(pend) /\ Len(sbuf) + k <= SbufSize
      BY <2>2 DEF k
    <3> QED
      BY <1>3, <2>3, <3>1
  <2>5. CASE Reply
    <3>1. pend' = left /\ tries' = (IF tries > 0 THEN tries - 1 ELSE 0) /\ cut' = cut
      BY <2>5 DEF Reply, SendTry, Unsent, left, k
    <3>2. tries' \in 0..RetrySend
      BY <1>3, <3>1
    <3> QED
      BY <1>2, <1>3, <2>3, <2>4, <3>1, <3>2, Zenon
  <2>6. CASE ReplyEscape
    <3>1. pend' = <<>> /\ cut' = TRUE /\ tries' = tries
      BY <2>6 DEF ReplyEscape, SendEscape
    <3>2. <<>> \in Seq(Byte) /\ Len(<<>>) <= 3
      OBVIOUS
    <3> QED
      BY <1>3, <2>3, <2>4, <3>1, <3>2, Zenon
  <2> QED
    BY <2>5, <2>6
<1>5. StreamsOK'
  BY <1>1, <1>2, <1>4, Zenon DEF StreamsOK
<1>6. RestOK'
  BY <1>1, <1>2, <1>4, Zenon DEF RestOK
<1>7. ModeFits'
  BY <1>1, <1>2, Zenon DEF ModeFits
<1>8. OrderKept'
  BY <1>1, <1>2 DEF OrderKept
<1>9. Understood'
  <2>1. Stream' = Stream
    BY <1>2, Zenon DEF Stream
  <2> QED
    BY <1>2, <1>4, <2>1, UnderstoodKept, Zenon
<1> QED
  BY <1>5, <1>6, <1>7, <1>8, <1>9, TypePartsNext, Zenon DEF Inv

----------------------------------------------------------------------------
(* The steps of the host and the network.                                 *)

\* Part of an item arrives.
LEMMA ArriveKeeps ==
  ASSUME Inv, Arrive
  PROVE  Inv'
<1>1. StreamsOK /\ RestOK /\ ModeFits /\ OrderKept
  BY TypeParts DEF Inv
<1>2. PICK n \in 1..Len(todo) : TcpArrive(SubSeq(todo, 1, n)) /\ todo' = Rest(todo, n)
  BY DEF Arrive
<1>3. UNCHANGED <<sbuf, state, pend, tries, pc, buf, mode, obuf, optDo, swEcho, closing,
                  shown, items, want, due, offered, got, cut>>
  BY <1>2 DEF Arrive, TcpArrive, sendVars, clientVars
<1>4. /\ todo \in Seq(Byte) /\ rbuf \in Seq(Byte) /\ buf \in Seq(Byte)
      /\ Len(todo) \in Nat /\ Len(rbuf) \in Nat
  BY <1>1, LenProperties, Zenon DEF StreamsOK
<1>5. /\ rbuf' \in Seq(Byte) /\ todo' \in Seq(Byte) /\ Len(rbuf') = Len(rbuf) + n
      /\ (buf \o rbuf') \o todo' = (buf \o rbuf) \o todo
  <2>1. n \in 0..Len(todo) /\ rbuf' = rbuf \o SubSeq(todo, 1, n) /\ todo' = Rest(todo, n)
    BY <1>2, <1>4 DEF TcpArrive
  <2>2. todo \in Seq(Byte) /\ rbuf \in Seq(Byte) /\ buf \in Seq(Byte)
    BY <1>4
  <2> QED
    <3>1. /\ rbuf \o SubSeq(todo, 1, n) \in Seq(Byte) /\ Rest(todo, n) \in Seq(Byte)
          /\ Len(rbuf \o SubSeq(todo, 1, n)) = Len(rbuf) + n
          /\ SameWhole(buf, rbuf \o SubSeq(todo, 1, n), Rest(todo, n), rbuf, todo)
      BY <2>1, <2>2, Passed
    <3> QED
      BY <2>1, <3>1, Zenon DEF SameWhole
<1>6. Len(rbuf') <= RbufSize
  <2>1. Len(SubSeq(todo, 1, n)) = n
    BY <1>2, <1>4, Split
  <2> QED
    BY <1>2, <1>5, <2>1 DEF TcpArrive
<1>7. todo # <<>>
  BY <1>2, <1>4
<1>8. StreamsOK'
  BY <1>1, <1>3, <1>5, Zenon DEF StreamsOK
<1>9. RestOK'
  BY <1>1, <1>3, <1>6, Zenon DEF RestOK
<1>10. ModeFits'
  BY <1>1, <1>3, Zenon DEF ModeFits
<1>11. OrderKept'
  BY <1>1, <1>3, <1>7 DEF OrderKept
<1>12. Understood'
  <2>1. Stream' = Stream
    BY <1>3, <1>5, Zenon DEF Stream
  <2> QED
    BY <1>3, <2>1, UnderstoodKept, Zenon
<1> QED
  BY <1>8, <1>9, <1>10, <1>11, <1>12, TypePartsNext, Zenon DEF Inv

\* The host takes part of what was sent.
LEMMA HostReadsKeeps ==
  ASSUME Inv, HostReads
  PROVE  Inv'
<1>1. StreamsOK /\ RestOK /\ ModeFits /\ OrderKept
  BY TypeParts DEF Inv
<1>2. PICK n \in 1..Len(sbuf) : TcpTake(n) /\ got' = got \o SubSeq(sbuf, 1, n)
  BY DEF HostReads
<1>3. UNCHANGED <<rbuf, state, pend, tries, pc, buf, mode, obuf, optDo, swEcho, closing,
                  shown, todo, items, want, due, offered, cut>>
  BY <1>2 DEF HostReads, TcpTake, sendVars, clientVars, hostVars
<1>4. /\ sbuf \in Seq(Byte) /\ got \in Seq(Byte) /\ pend \in Seq(Byte)
      /\ Len(sbuf) \in Nat /\ Len(sbuf) <= SbufSize
  BY <1>1, LenProperties, Zenon DEF StreamsOK, RestOK
<1>5. n \in 0..Len(sbuf) /\ sbuf' = Rest(sbuf, n)
  BY <1>2, <1>4 DEF TcpTake
<1>6. /\ got' \in Seq(Byte) /\ sbuf' \in Seq(Byte) /\ Len(sbuf') = Len(sbuf) - n
      /\ got' \o sbuf' = got \o sbuf
  <2>1. got' \in Seq(Byte) /\ sbuf' \in Seq(Byte) /\ Len(sbuf') = Len(sbuf) - n
    <3>1. /\ got \o SubSeq(sbuf, 1, n) \in Seq(Byte) /\ Rest(sbuf, n) \in Seq(Byte)
          /\ Len(Rest(sbuf, n)) = Len(sbuf) - n
      BY <1>4, <1>5, Passed
    <3> QED
      BY <1>2, <1>5, <3>1, Zenon
  <2>2. got' \o sbuf' = got \o sbuf
    BY <1>2, <1>4, <1>5, Moved, Zenon
  <2> QED
    BY <2>1, <2>2
<1>7. Len(sbuf') <= SbufSize
  BY <1>4, <1>5, <1>6, BufferAssumption
<1>8. StreamsOK'
  BY <1>1, <1>3, <1>6, Zenon DEF StreamsOK
<1>9. RestOK'
  BY <1>1, <1>3, <1>7, Zenon DEF RestOK
<1>10. ModeFits'
  BY <1>1, <1>3, Zenon DEF ModeFits
<1>11. OrderKept'
  BY <1>1, <1>3 DEF OrderKept
<1>12. Understood'
  <2>1. Stream' = Stream
    BY <1>3, Zenon DEF Stream
  <2>2. (got' \o sbuf') \o pend' = (got \o sbuf) \o pend
    BY <1>3, <1>6, Zenon
  <2> QED
    BY <1>3, <2>1, <2>2, UnderstoodKept, Zenon
<1> QED
  BY <1>8, <1>9, <1>10, <1>11, <1>12, TypePartsNext, Zenon DEF Inv

\* The host closes when it has nothing left to send.
LEMMA HostClosesKeeps ==
  ASSUME Inv, HostCloses
  PROVE  Inv'
<1>1. StreamsOK /\ RestOK /\ ModeFits /\ OrderKept
  BY TypeParts DEF Inv
<1>2. /\ state = "open" /\ todo = <<>> /\ state' = "hisclosing"
      /\ UNCHANGED <<sbuf, rbuf, pend, tries, pc, buf, mode, obuf, optDo, swEcho, closing,
                     shown, todo, items, want, due, offered, got, cut>>
  BY DEF HostCloses, sendVars, clientVars, hostVars
<1>3. StreamsOK'
  BY <1>1, <1>2, Zenon DEF StreamsOK
<1>4. RestOK'
  <2>1. state' \in {"open", "hisclosing"}
    BY <1>2
  <2> QED
    BY <1>1, <1>2, <2>1, Zenon DEF RestOK
<1>5. ModeFits'
  BY <1>1, <1>2, Zenon DEF ModeFits
<1>6. OrderKept'
  BY <1>1, <1>2 DEF OrderKept
<1>7. Understood'
  <2>1. Stream' = Stream
    BY <1>2, Zenon DEF Stream
  <2> QED
    BY <1>2, <2>1, UnderstoodKept, Zenon
<1> QED
  BY <1>3, <1>4, <1>5, <1>6, <1>7, TypePartsNext, Zenon DEF Inv

\* The host sends bytes that lead to what it notes.
LEMMA ItemKeeps ==
  ASSUME Inv, NEW bytes \in Seq(Byte), NEW show \in Seq(Byte), NEW answer \in Seq(Byte),
         Item(bytes, show, answer), UNCHANGED <<tcpVars, sendVars, clientVars, got, cut>>,
         offered' \subseteq Granted, Leads(Host, bytes, Host')
  PROVE  Inv'
<1>1. StreamsOK /\ RestOK /\ ModeFits /\ OrderKept
  BY TypeParts DEF Inv
<1>2. /\ state = "open" /\ todo = <<>> /\ items < MaxItems /\ todo' = bytes
      /\ items' = items + 1 /\ want' = want \o show /\ due' = due \o answer
      /\ UNCHANGED <<sbuf, rbuf, state, pend, tries, pc, buf, mode, obuf, optDo, swEcho,
                     closing, shown, got, cut>>
  BY Zenon DEF Item, tcpVars, sendVars, clientVars
<1>3. /\ buf \in Seq(Byte) /\ rbuf \in Seq(Byte) /\ want \in Seq(Byte) /\ due \in Seq(Byte)
      /\ items \in 0..MaxItems
  BY <1>1, Zenon DEF StreamsOK, RestOK
<1>4. want' \in Seq(Byte) /\ due' \in Seq(Byte) /\ buf \o rbuf \in Seq(Byte)
  BY <1>2, <1>3, ByteStreams
<1>5. items' \in 0..MaxItems
  BY <1>2, <1>3, RecvBufLenAssumption
<1>6. StreamsOK'
  BY <1>1, <1>2, <1>4, Zenon DEF StreamsOK
<1>7. RestOK'
  BY <1>1, <1>2, <1>5, Zenon DEF RestOK
<1>8. ModeFits'
  BY <1>1, <1>2, Zenon DEF ModeFits
<1>9. OrderKept'
  BY <1>1, <1>2 DEF OrderKept
<1>10. Understood'
  <2>1. PICK d \in Seq(Byte) :
          /\ Now(d) \in Readers /\ Host \in Readers /\ obuf \in Parts
          /\ Leads(Now(d), Stream, Host)
          /\ ~cut => d = (got \o sbuf) \o pend
    BY UnderstoodParts
  <2>2. Stream = buf \o rbuf
    <3>1. (buf \o rbuf) \o <<>> = buf \o rbuf
      BY <1>4, ByteStreams
    <3> QED
      BY <1>2, <3>1, Zenon DEF Stream
  <2>3. Leads(Now(d), (buf \o rbuf) \o bytes, Host')
    <3> DEFINE a == Now(d)
               b == Host
               c == Host'
               u == buf \o rbuf
    <3>1. Leads(a, u, b) /\ Leads(b, bytes, c) /\ u \in Seq(Byte)
      BY <1>4, <2>1, <2>2
    <3> HIDE DEF a, b, c, u
    <3>2. Leads(a, u \o bytes, c)
      BY <3>1, LeadsThen
    <3> QED
      BY <3>2 DEF a, c, u
  <2>4. Stream' = (buf \o rbuf) \o bytes
    BY <1>2, Zenon DEF Stream
  <2>5. /\ Now(d) = Reader(obuf', shown', d, optDo')
        /\ Host' = Reader(<<>>, want', due', offered')
    BY <1>2, Zenon DEF Now, Host
  <2>6. ~cut' => d = (got' \o sbuf') \o pend'
    <3>1. got' = got /\ sbuf' = sbuf /\ pend' = pend /\ cut' = cut
      BY <1>2
    <3>2. (got' \o sbuf') \o pend' = (got \o sbuf) \o pend
      BY <3>1, Zenon
    <3>3. ~cut => d = (got \o sbuf) \o pend
      BY <2>1, Zenon
    <3>4. ~cut => d = (got' \o sbuf') \o pend'
      BY <3>2, <3>3, Zenon
    <3>5. ~cut' => ~cut
      <4>1. cut' = cut
        BY <3>1, Zenon
      <4> QED
        BY <4>1
    <3> QED
      BY <3>4, <3>5, Zenon
  <2> QED
    BY <2>3, <2>4, <2>5, <2>6, Zenon DEF Understood
<1> QED
  BY <1>6, <1>7, <1>8, <1>9, <1>10, TypePartsNext, Zenon DEF Inv

\* What each item of the host leads a reader to that is between commands.
LEMMA ItemReads ==
  ASSUME NEW w \in Seq(Byte), NEW d \in Seq(Byte), NEW o \in SUBSET Granted
  PROVE  LET r == Reader(<<>>, w, d, o)
         IN  /\ r \in Readers
             /\ \A c \in TextBytes : Leads(r, <<c>>, Reader(<<>>, w \o <<c>>, d, o))
             /\ Leads(r, <<0>>, r)
             /\ Leads(r, <<IAC, IAC>>, Reader(<<>>, w \o <<IAC>>, d, o))
             /\ \A c \in Odd : Leads(r, <<IAC, c>>,
                                     Reader(<<>>, w \o (IF c < 240 THEN <<IAC, c>> ELSE <<>>), d, o))
             /\ \A c \in WILL..DONT, x \in Byte :
                  Leads(r, <<IAC, c, x>>,
                        Reader(<<>>, w, d \o Owed(<<IAC, c, x>>, o), Agreed(<<IAC, c, x>>, o)))
<1> DEFINE r == Reader(<<>>, w, d, o)
           i == Reader(<<IAC>>, w, d, o)
<1>1. r \in Readers /\ i \in Readers
  BY PartFacts, ReaderParts
<1>2. /\ r.part = <<>> /\ r.screen = w /\ r.answers = d /\ r.agreed = o
      /\ i.part = <<IAC>> /\ i.screen = w /\ i.answers = d /\ i.agreed = o
  BY DEF Reader
<1>3. <<IAC>> # <<>>
  OBVIOUS
<1> HIDE DEF r, i
<1>4. ASSUME NEW c \in TextBytes
      PROVE  Leads(r, <<c>>, Reader(<<>>, w \o <<c>>, d, o))
  <2>1. c \in Byte /\ c # 0 /\ c # IAC
    BY ItemBytes
  <2>2. Step(r, c) = Reader(<<>>, w \o <<c>>, d, o)
    BY <1>2, <2>1, Zenon DEF Step, Plain
  <2> QED
    BY <1>1, <2>1, <2>2, LeadsOne
<1>5. Leads(r, <<0>>, r)
  <2>1. Step(r, 0) = r
    BY <1>2, Zenon DEF Step, Plain
  <2> QED
    BY <1>1, <2>1, ItemBytes, LeadsOne
<1>6. Step(r, IAC) = i
  BY <1>2, ByteFacts, Zenon DEF Step, Plain, i
<1>7. ASSUME NEW c \in Byte, c \notin WILL..DONT
      PROVE  Leads(r, <<IAC, c>>, Reader(<<>>, w \o Screen(<<IAC, c>>), d, o))
  <2>1. <<IAC>> \o <<c>> = <<IAC, c>>
    BY ByteFacts, PairIs
  <2>2. Step(i, c) = Commanded(i, <<IAC, c>>)
    BY <1>2, <1>3, <2>1, Zenon DEF Step
  <2>3. Len(<<IAC, c>>) = 2 /\ (<<IAC, c>>)[2] = c
    OBVIOUS
  <2>4. Whole(<<IAC, c>>)
    BY <1>7, <2>3, Zenon DEF Whole
  <2>5. Commanded(i, <<IAC, c>>) = Reader(<<>>, w \o Screen(<<IAC, c>>), d, o)
    BY <1>2, <2>3, <2>4, Zenon DEF Commanded
  <2>6. Step(Step(r, IAC), c) = Reader(<<>>, w \o Screen(<<IAC, c>>), d, o)
    BY <1>6, <2>2, <2>5, Zenon
  <2> QED
    BY <1>1, <2>6, ByteFacts, LeadsTwo
<1>8. Leads(r, <<IAC, IAC>>, Reader(<<>>, w \o <<IAC>>, d, o))
  <2>1. Screen(<<IAC, IAC>>) = <<IAC>>
    BY DEF Screen
  <2>2. Leads(r, <<IAC, IAC>>, Reader(<<>>, w \o Screen(<<IAC, IAC>>), d, o))
    BY <1>7, ByteFacts
  <2> QED
    BY <2>1, <2>2, Zenon
<1>9. ASSUME NEW c \in Odd
      PROVE  Leads(r, <<IAC, c>>,
                   Reader(<<>>, w \o (IF c < 240 THEN <<IAC, c>> ELSE <<>>), d, o))
  <2>1. c \in Byte /\ c # IAC /\ c \notin WILL..DONT
    BY ItemBytes
  <2>2. Screen(<<IAC, c>>) = IF c < 240 THEN <<IAC, c>> ELSE <<>>
    BY <2>1 DEF Screen
  <2>3. Leads(r, <<IAC, c>>, Reader(<<>>, w \o Screen(<<IAC, c>>), d, o))
    BY <1>7, <2>1
  <2> QED
    BY <2>2, <2>3, Zenon
<1>10. ASSUME NEW c \in WILL..DONT, NEW x \in Byte
       PROVE  Leads(r, <<IAC, c, x>>,
                    Reader(<<>>, w, d \o Owed(<<IAC, c, x>>, o), Agreed(<<IAC, c, x>>, o)))
  <2> DEFINE p == <<IAC, c>>
             q == <<IAC, c, x>>
             g == Reader(p, w, d, o)
  <2>1. p \in Parts /\ c \in Byte /\ p \in Seq(Byte)
    BY PartFacts DEF Parts
  <2>2. g \in Readers /\ g.part = p /\ g.screen = w /\ g.answers = d /\ g.agreed = o
    BY <2>1, ReaderParts
  <2>3. Leads(r, p, g)
    <3>1. <<IAC>> \o <<c>> = p
      BY <2>1, ByteFacts, PairIs
    <3>2. Step(i, c) = Commanded(i, p)
      BY <1>2, <1>3, <3>1, Zenon DEF Step
    <3>3. ~Whole(p)
      BY DEF Whole
    <3>4. Commanded(i, p) = g
      BY <1>2, <3>3, Zenon DEF Commanded
    <3>5. Step(Step(r, IAC), c) = g
      BY <1>6, <3>2, <3>4, Zenon
    <3> QED
      BY <1>1, <2>1, <3>5, ByteFacts, LeadsTwo
  <2>4. p \o <<x>> = q /\ <<x>> \in Seq(Byte) /\ q \in Seq(Byte)
    <3>1. <<x>> \in Seq(Byte) /\ Len(<<x>>) = 1 /\ q \in Seq(Byte) /\ Len(q) = 3
      BY <2>1, ByteFacts
    <3>2. p \o <<x>> \in Seq(Byte) /\ Len(p \o <<x>>) = 3
      BY <2>1, <3>1
    <3>3. (p \o <<x>>)[1] = IAC /\ (p \o <<x>>)[2] = c /\ (p \o <<x>>)[3] = x
      BY <2>1, <3>1
    <3>4. \A k \in 1..3 : (p \o <<x>>)[k] = q[k]
      <4> TAKE k \in 1..3
      <4>1. k = 1 \/ k = 2 \/ k = 3
        OBVIOUS
      <4> QED
        BY <3>3, <4>1
    <3>5. p \o <<x>> = q
      BY <3>1, <3>2, <3>4, SeqEqual
    <3> QED
      BY <3>1, <3>5
  <2>5. Whole(q) /\ Len(q) # 2 /\ p # <<>>
    BY DEF Whole
  <2> DEFINE e == Reader(<<>>, w, d \o Owed(q, o), Agreed(q, o))
  <2> HIDE DEF p, q, g
  <2>6. Step(g, x) = e
    <3>1. Step(g, x) = Commanded(g, q)
      BY <2>2, <2>4, <2>5, Zenon DEF Step
    <3>2. Commanded(g, q) = e
      BY <2>2, <2>5, Zenon DEF Commanded
    <3> QED
      BY <3>1, <3>2, Zenon
  <2>7. Leads(g, <<x>>, e)
    BY <2>2, <2>6, LeadsOne
  <2>8. Leads(r, p \o <<x>>, e)
    <3> HIDE DEF e
    <3> QED
      BY <2>1, <2>3, <2>4, <2>7, LeadsThen
  <2> QED
    BY <2>4, <2>8, Zenon DEF q
<1> QED
  BY <1>1, <1>4, <1>5, <1>8, <1>9, <1>10, Zenon DEF r

\* Each item of the host.
LEMMA HostSendsKeeps ==
  ASSUME Inv, HostSends
  PROVE  Inv'
<1>1. UNCHANGED <<tcpVars, sendVars, clientVars, got, cut>>
  BY DEF HostSends
<1>2. want \in Seq(Byte) /\ due \in Seq(Byte) /\ offered \in SUBSET Granted
  <2>1. StreamsOK /\ RestOK
    BY TypeParts DEF Inv
  <2> QED
    BY <2>1 DEF StreamsOK, RestOK
<1>3. Host = Reader(<<>>, want, due, offered) /\ Host' = Reader(<<>>, want', due', offered')
  BY DEF Host
<1>4. /\ want \o <<>> = want /\ due \o <<>> = due /\ <<>> \in Seq(Byte)
      /\ <<IAC>> \in Seq(Byte) /\ <<0>> \in Seq(Byte)
  BY <1>2, ByteStreams, ByteFacts, ItemBytes
<1>5. ASSUME NEW c \in TextBytes, Item(<<c>>, <<c>>, <<>>), UNCHANGED offered
      PROVE  Inv'
  <2>1. <<c>> \in Seq(Byte)
    BY ItemBytes, ByteStreams
  <2>2. Leads(Host, <<c>>, Reader(<<>>, want \o <<c>>, due, offered))
    BY <1>2, <1>3, ItemReads
  <2>3. Host' = Reader(<<>>, want \o <<c>>, due, offered)
    BY <1>3, <1>4, <1>5, Zenon DEF Item
  <2> QED
    BY <1>1, <1>2, <1>4, <1>5, <2>1, <2>2, <2>3, ItemKeeps
<1>6. ASSUME Item(<< 0 >>, <<>>, <<>>), UNCHANGED offered
      PROVE  Inv'
  <2>1. Leads(Host, <<0>>, Host)
    BY <1>2, <1>3, ItemReads
  <2>2. Host' = Host
    BY <1>3, <1>4, <1>6, Zenon DEF Item
  <2> QED
    BY <1>1, <1>2, <1>4, <1>6, <2>1, <2>2, ItemKeeps
<1>7. ASSUME Item(<<IAC, IAC>>, <<IAC>>, <<>>), UNCHANGED offered
      PROVE  Inv'
  <2>1. <<IAC, IAC>> \in Seq(Byte)
    BY ByteFacts
  <2>2. Leads(Host, <<IAC, IAC>>, Reader(<<>>, want \o <<IAC>>, due, offered))
    BY <1>2, <1>3, ItemReads
  <2>3. Host' = Reader(<<>>, want \o <<IAC>>, due, offered)
    BY <1>3, <1>4, <1>7, Zenon DEF Item
  <2> QED
    BY <1>1, <1>2, <1>4, <1>7, <2>1, <2>2, <2>3, ItemKeeps
<1>8. ASSUME NEW c \in Odd, UNCHANGED offered,
             Item(<<IAC, c>>, IF c < 240 THEN <<IAC, c>> ELSE <<>>, <<>>)
      PROVE  Inv'
  <2> DEFINE e == IF c < 240 THEN <<IAC, c>> ELSE <<>>
  <2>1. <<IAC, c>> \in Seq(Byte) /\ e \in Seq(Byte)
    <3>1. <<IAC, c>> \in Seq(Byte)
      BY ByteFacts, ItemBytes
    <3> QED
      BY <1>4, <3>1
  <2>2. Leads(Host, <<IAC, c>>, Reader(<<>>, want \o e, due, offered))
    BY <1>2, <1>3, ItemReads
  <2>3. Item(<<IAC, c>>, e, <<>>)
    BY <1>8
  <2> HIDE DEF e
  <2>4. Host' = Reader(<<>>, want \o e, due, offered)
    BY <1>3, <1>4, <1>8, <2>3, Zenon DEF Item
  <2> QED
    BY <1>1, <1>2, <1>4, <1>8, <2>1, <2>2, <2>3, <2>4, ItemKeeps
<1>9. ASSUME NEW c \in WILL..DONT, NEW x \in Options,
             Item(<<IAC, c, x>>, <<>>, Owed(<<IAC, c, x>>, offered)),
             offered' = Agreed(<<IAC, c, x>>, offered)
      PROVE  Inv'
  <2> DEFINE p == <<IAC, c, x>>
  <2>1. p \in Seq(Byte) /\ Len(p) = 3 /\ x \in Byte
    <3>1. c \in Byte /\ x \in Byte
      BY PartFacts, ItemBytes
    <3> QED
      BY <3>1, ByteFacts
  <2>2. Owed(p, offered) \in Seq(Byte) /\ offered' \subseteq Granted
    BY <1>2, <1>9, <2>1, OwedType
  <2>3. Leads(Host, p, Reader(<<>>, want, due \o Owed(p, offered), Agreed(p, offered)))
    BY <1>2, <1>3, <2>1, ItemReads
  <2>4. Item(p, <<>>, Owed(p, offered)) /\ offered' = Agreed(p, offered)
    BY <1>9
  <2> HIDE DEF p
  <2>5. Host' = Reader(<<>>, want, due \o Owed(p, offered), Agreed(p, offered))
    BY <1>3, <1>4, <2>4, Zenon DEF Item
  <2> QED
    BY <1>1, <1>4, <2>1, <2>2, <2>3, <2>4, <2>5, ItemKeeps
<1>10. ASSUME NEW x \in Options, offered' = offered \cup ({x} \cap Granted),
              Item(<<IAC, WILL, x>>, <<>>,
                   IF x \in offered THEN <<>>
                   ELSE <<IAC, IF x \in Granted THEN DO ELSE DONT, x>>)
       PROVE  Inv'
  <2> DEFINE p == <<IAC, WILL, x>>
  <2>1. p[2] = WILL /\ p[3] = x
    OBVIOUS
  <2>2. Owed(p, offered) = IF x \in offered THEN <<>>
                           ELSE <<IAC, IF x \in Granted THEN DO ELSE DONT, x>>
    <3>1. x \in offered => x \in Granted
      BY <1>2
    <3> HIDE DEF p
    <3> QED
      BY <2>1, <3>1 DEF Owed
  <2>3. Agreed(p, offered) = offered \cup ({x} \cap Granted)
    BY <2>1 DEF Agreed
  <2>4. Item(p, <<>>, Owed(p, offered)) /\ offered' = Agreed(p, offered)
    BY <1>10, <2>2, <2>3
  <2> QED
    BY <1>9, <2>4, ByteFacts
<1>11. ASSUME NEW x \in Options, NEW c \in {WONT, DO, DONT}, UNCHANGED offered,
              Item(<<IAC, c, x>>, <<>>, IF c = DO THEN <<IAC, WONT, x>> ELSE <<>>)
       PROVE  Inv'
  <2> DEFINE p == <<IAC, c, x>>
  <2>1. p[2] = c /\ p[3] = x /\ c # WILL /\ c \in WILL..DONT
    BY ByteFacts
  <2>2. Owed(p, offered) = IF c = DO THEN <<IAC, WONT, x>> ELSE <<>>
    <3> HIDE DEF p
    <3> QED
      BY <2>1 DEF Owed
  <2>3. Agreed(p, offered) = offered
    BY <2>1 DEF Agreed
  <2>4. Item(p, <<>>, Owed(p, offered)) /\ offered' = Agreed(p, offered)
    BY <1>11, <2>2, <2>3
  <2> QED
    BY <1>9, <2>1, <2>4
<1>12. \/ \E c \in TextBytes : Item(<<c>>, <<c>>, <<>>) /\ UNCHANGED offered
       \/ Item(<<0>>, <<>>, <<>>) /\ UNCHANGED offered
       \/ Item(<<IAC, IAC>>, <<IAC>>, <<>>) /\ UNCHANGED offered
       \/ \E c \in Odd : /\ Item(<<IAC, c>>, IF c < 240 THEN <<IAC, c>> ELSE <<>>, <<>>)
                         /\ UNCHANGED offered
       \/ \E x \in Options :
            /\ Item(<<IAC, WILL, x>>, <<>>,
                    IF x \in offered THEN <<>>
                    ELSE <<IAC, IF x \in Granted THEN DO ELSE DONT, x>>)
            /\ offered' = offered \cup ({x} \cap Granted)
       \/ \E x \in Options : Item(<<IAC, DO, x>>, <<>>, <<IAC, WONT, x>>) /\ UNCHANGED offered
       \/ \E x \in Options, c \in {WONT, DONT} :
            Item(<<IAC, c, x>>, <<>>, <<>>) /\ UNCHANGED offered
  BY Zenon DEF HostSends
<1>13. ASSUME NEW x \in Options, Item(<<IAC, DO, x>>, <<>>, <<IAC, WONT, x>>), UNCHANGED offered
       PROVE  Inv'
  <2>1. DO \in {WONT, DO, DONT} /\ <<IAC, WONT, x>> = IF DO = DO THEN <<IAC, WONT, x>> ELSE <<>>
    OBVIOUS
  <2> QED
    BY <1>11, <1>13, <2>1, Zenon
<1>14. ASSUME NEW x \in Options, NEW c \in {WONT, DONT}, Item(<<IAC, c, x>>, <<>>, <<>>),
              UNCHANGED offered
       PROVE  Inv'
  <2>1. c \in {WONT, DO, DONT} /\ <<>> = IF c = DO THEN <<IAC, WONT, x>> ELSE <<>>
    BY ByteFacts
  <2> QED
    BY <1>11, <1>14, <2>1, Zenon
<1> QED
  BY <1>5, <1>6, <1>7, <1>8, <1>10, <1>12, <1>13, <1>14, Zenon

----------------------------------------------------------------------------
(* The theorems.                                                          *)

LEMMA NextInv == ASSUME Inv, [Next]_vars PROVE Inv'
<1>1. CASE UNCHANGED vars
  <2>1. /\ UNCHANGED <<sbuf, rbuf, state, pend, tries, pc, buf, mode, obuf, optDo, swEcho,
                       closing, shown, todo, items, got, want, due, offered, cut>>
    BY <1>1 DEF vars, tcpVars, sendVars, clientVars, hostVars
  <2>2. TypeOK'
    BY <2>1, ZenonT(40) DEF Inv, TypeOK
  <2>3. ModeFits' /\ OrderKept'
    BY <2>1, Zenon DEF Inv, ModeFits, OrderKept
  <2>4. Stream' = Stream
    BY <2>1, Zenon DEF Stream
  <2>5. Understood'
    BY <2>1, <2>4, UnderstoodKept, Zenon
  <2> QED
    BY <2>2, <2>3, <2>5 DEF Inv
<1>2. CASE Next
  BY <1>1, <1>2, RecvKeeps, LookKeeps, TextKeeps, CommandPartKeeps, CommandKeeps, ReplyKeeps,
     HostSendsKeeps, ArriveKeeps, HostReadsKeeps, HostClosesKeeps, Zenon
     DEF Next, Client, Terminated
<1> QED
  BY <1>1, <1>2

\* The account of the stream holds in every state.
THEOREM Understands == Spec => []Inv
<1>1. Init => Inv
  BY InitInv
<1>2. Inv /\ [Next]_vars => Inv'
  BY NextInv
<1> QED
  BY <1>1, <1>2, PTL DEF Spec

\* The type invariant, for buffers of any size and any items.
THEOREM TypeCorrect == Spec => []TypeOK
<1>1. Inv => TypeOK
  BY DEF Inv
<1> QED
  BY <1>1, Understands, PTL

\* What the account says of the screen and of the answers.
LEMMA Accounts ==
  ASSUME Inv
  PROVE  /\ IsPrefix(shown, want)
         /\ Stream = <<>> => shown = want
         /\ ~cut => /\ IsPrefix((got \o sbuf) \o pend, due)
                    /\ Stream = <<>> => (got \o sbuf) \o pend = due
<1>1. PICK d \in Seq(Byte) :
        /\ Now(d) \in Readers /\ Host \in Readers /\ obuf \in Parts
        /\ Leads(Now(d), Stream, Host)
        /\ ~cut => d = (got \o sbuf) \o pend
  BY UnderstoodParts
<1>2. /\ Now(d).screen = shown /\ Now(d).answers = d
      /\ Host.screen = want /\ Host.answers = due
  BY DEF Now, Host, Reader
<1>3. shown \in Seq(Byte) /\ Stream \in Seq(Byte)
  <2>1. /\ shown \in Seq(Byte) /\ buf \in Seq(Byte) /\ rbuf \in Seq(Byte)
        /\ todo \in Seq(Byte)
    BY TypeParts, Zenon DEF Inv, StreamsOK
  <2> QED
    BY <2>1, ByteStreams DEF Stream
<1>4. /\ \E x \in Seq(Byte) : Host.screen = Now(d).screen \o x
      /\ \E y \in Seq(Byte) : Host.answers = Now(d).answers \o y
  BY <1>1, <1>3, LeadsGrows
<1>5. IsPrefix(shown, want)
  <2>1. PICK x \in Seq(Byte) : Host.screen = Now(d).screen \o x
    BY <1>4
  <2>2. want = shown \o x
    BY <1>2, <2>1, Zenon
  <2>3. IsPrefix(shown, shown \o x)
    BY <1>3, <2>1, PrefixOf
  <2> QED
    BY <2>2, <2>3, Zenon
<1>6. IsPrefix(d, due)
  <2>1. PICK y \in Seq(Byte) : Host.answers = Now(d).answers \o y
    BY <1>4
  <2>2. due = d \o y
    BY <1>2, <2>1, Zenon
  <2>3. IsPrefix(d, d \o y)
    BY <2>1, PrefixOf
  <2> QED
    BY <2>2, <2>3, Zenon
<1>7. ASSUME Stream = <<>>
      PROVE  shown = want /\ d = due
  <2>1. Leads(Now(d), <<>>, Host)
    BY <1>1, <1>7, Zenon
  <2>2. Now(d) = Host
    BY <2>1, LeadsNone
  <2> QED
    BY <1>2, <2>2, Zenon
<1> QED
  BY <1>1, <1>5, <1>6, <1>7, Zenon

\* When all that the host has sent is handled, nothing of the stream is left.
LEMMA NothingLeft ==
  ASSUME todo = <<>>, rbuf = <<>>, buf = <<>>
  PROVE  Stream = <<>>
<1>1. (<<>> \o <<>>) \o <<>> = <<>>
  BY ByteStreams
<1> QED
  BY <1>1, Zenon DEF Stream

\* The screen shows what the host meant, byte for byte, for buffers of any size and
\* wherever the stream is cut.
THEOREM ScreenIsMeaningHolds == Spec => []ScreenIsMeaning
<1>1. Inv => ScreenIsMeaning
  BY Accounts, NothingLeft, Zenon DEF ScreenIsMeaning, Handled
<1> QED
  BY <1>1, Understands, PTL

\* Each command that needs an answer is answered, once and in the order of the
\* commands, unless the user gives up an answer.
THEOREM AnswersAreDueHolds == Spec => []AnswersAreDue
<1>1. Inv => AnswersAreDue
  BY Accounts, NothingLeft, Zenon DEF AnswersAreDue, Handled
<1> QED
  BY <1>1, Understands, PTL

\* When the client leaves because the host has closed, all was shown.
THEOREM AllShownHolds == Spec => []AllShownAtClose
<1>1. ASSUME Inv, pc = "left"
      PROVE  shown = want
  <2>1. buf = <<>> /\ rbuf = <<>> /\ todo = <<>>
    BY <1>1 DEF Inv, OrderKept
  <2> QED
    BY <1>1, <2>1, Accounts, NothingLeft, Zenon
<1>2. Inv => AllShownAtClose
  BY <1>1, Zenon DEF AllShownAtClose
<1> QED
  BY <1>2, Understands, PTL
=============================================================================
