-------------------------- MODULE EsenetJisProofs --------------------------
(***************************************************************************)
(* For pieces of any length and any bytes: the type invariant of EsenetJis *)
(* and SjisbufBound, from which the array sjisbuf never overflows.         *)
(***************************************************************************)
EXTENDS EsenetJis, StreamLemmas

(* The strengthening: a potential.  The bytes a context has swallowed and  *)
(* may yet give back are paid for by bytes read in this call, or by the    *)
(* two bytes of slack when the context was inherited.                      *)

OwedIn(x) == IF x = "ascii" THEN 0 ELSE IF x \in {"esc", "jis1"} THEN 1 ELSE 2

Owed == OwedIn(context)

\* The transition to x that writes b is paid for by the byte read and by what
\* the old context owed more than x.
Pays(x, b) == OwedIn(x) + Len(b) <= Owed + 1

Inv ==
  /\ context \in Contexts
  /\ used \in 0..RecvBufLen
  /\ Len(sjisbuf) + Owed <= used + 2

\* Every byte the machine reads and the host sends is a number.
LEMMA ByteFacts ==
  /\ ESC \in Nat
  /\ TextBytes \subseteq Nat /\ JunkBytes \subseteq Nat /\ KanjiBytes \subseteq Nat
  /\ \A h, l \in Nat : Sjis(h, l) \in Seq(Nat)
<1>1. TextBytes \subseteq Nat
  BY BytesAssumption
<1>2. JunkBytes \subseteq Nat
  BY BytesAssumption
<1>3. KanjiBytes \subseteq Nat
  BY BytesAssumption
<1>4. QED
  BY <1>1, <1>2, <1>3 DEF ESC, Sjis

\* The initial state satisfies the type invariant.
LEMMA InitTypeOK == Init => TypeOK
<1>1. <<>> \in Seq(Nat)
  OBVIOUS
<1>2. 0 \in 0..RecvBufLen /\ 0 \in 0..MaxItems
  BY RecvBufLenAssumption, MaxItemsAssumption
<1>3. "ascii" \in Contexts /\ 0 \in Nat
  BY DEF Contexts
<1>4. QED
  BY <1>1, <1>2, <1>3, Zenon DEF Init, TypeOK

\* The host sends bytes, and they mean bytes.
LEMMA SendType ==
  ASSUME TypeOK, NEW b \in Seq(Nat), NEW m \in Seq(Nat), Send(b, m)
  PROVE  todo' \in Seq(Nat) /\ want' \in Seq(Nat) /\ items' \in 0..MaxItems
  BY MaxItemsAssumption DEF Send, TypeOK

\* What the machine reads is a byte.
LEMMA ReadsByte ==
  ASSUME TypeOK, Convert
  PROVE  Head(todo) \in Nat /\ firstbyte \in Nat /\ todo' \in Seq(Nat)
  BY DEF Convert, TypeOK

\* Reading one byte makes a transition that is paid for.
LEMMA ConvertPays ==
  ASSUME TypeOK, Convert
  PROVE  \E x \in Contexts, b \in Seq(Nat) : Pays(x, b) /\ Goto(x, b)
<1> DEFINE c == Head(todo)
<1>1. c \in Nat /\ firstbyte \in Nat
  BY ReadsByte
<1>2. /\ OwedIn("ascii") = 0 /\ OwedIn("esc") = 1 /\ OwedIn("jis1") = 1
      /\ OwedIn("jis2") = 2 /\ OwedIn("esc_kakko") = 2 /\ OwedIn("esc_dollar") = 2
  BY DEF OwedIn
<1>3. /\ "ascii" \in Contexts /\ "esc" \in Contexts /\ "jis1" \in Contexts
      /\ "jis2" \in Contexts /\ "esc_kakko" \in Contexts /\ "esc_dollar" \in Contexts
  BY DEF Contexts
<1>4. CASE InAscii(c)
  <2>1. Owed = OwedIn("ascii")
    BY <1>4 DEF InAscii, Owed
  <2>2. CASE Goto("esc", <<>>)
    <3>1. <<>> \in Seq(Nat) /\ Len(<<>>) = 0
      BY <1>1
    <3>2. Pays("esc", <<>>)
      BY <1>2, <2>1, <3>1 DEF Pays
    <3>3. QED
      BY <1>3, <2>2, <3>1, <3>2
  <2>3. CASE Goto("ascii", <<c>>)
    <3>1. <<c>> \in Seq(Nat) /\ Len(<<c>>) = 1
      BY <1>1
    <3>2. Pays("ascii", <<c>>)
      BY <1>2, <2>1, <3>1 DEF Pays
    <3>3. QED
      BY <1>3, <2>3, <3>1, <3>2
  <2>4. QED
    BY <1>4, <2>2, <2>3 DEF InAscii
<1>5. CASE InJis1(c)
  <2>1. Owed = OwedIn("jis1")
    BY <1>5 DEF InJis1, Owed
  <2>2. CASE Goto("esc", <<>>)
    <3>1. <<>> \in Seq(Nat) /\ Len(<<>>) = 0
      BY <1>1
    <3>2. Pays("esc", <<>>)
      BY <1>2, <2>1, <3>1 DEF Pays
    <3>3. QED
      BY <1>3, <2>2, <3>1, <3>2
  <2>3. CASE Goto("ascii", <<c>>)
    <3>1. <<c>> \in Seq(Nat) /\ Len(<<c>>) = 1
      BY <1>1
    <3>2. Pays("ascii", <<c>>)
      BY <1>2, <2>1, <3>1 DEF Pays
    <3>3. QED
      BY <1>3, <2>3, <3>1, <3>2
  <2>4. CASE Goto("jis2", <<>>)
    <3>1. <<>> \in Seq(Nat) /\ Len(<<>>) = 0
      BY <1>1
    <3>2. Pays("jis2", <<>>)
      BY <1>2, <2>1, <3>1 DEF Pays
    <3>3. QED
      BY <1>3, <2>4, <3>1, <3>2
  <2>5. QED
    BY <1>5, <2>2, <2>3, <2>4 DEF InJis1
<1>6. CASE InJis2(c)
  <2>1. Owed = OwedIn("jis2")
    BY <1>6 DEF InJis2, Owed
  <2>2. CASE Goto("ascii", <<firstbyte, firstbyte, ESC>>)
    <3>1. <<firstbyte, firstbyte, ESC>> \in Seq(Nat) /\ Len(<<firstbyte, firstbyte, ESC>>) = 3
      BY <1>1 DEF ESC
    <3>2. Pays("ascii", <<firstbyte, firstbyte, ESC>>)
      BY <1>2, <2>1, <3>1 DEF Pays
    <3>3. QED
      BY <1>3, <2>2, <3>1, <3>2
  <2>3. CASE Goto("ascii", <<firstbyte, c>>)
    <3>1. <<firstbyte, c>> \in Seq(Nat) /\ Len(<<firstbyte, c>>) = 2
      BY <1>1
    <3>2. Pays("ascii", <<firstbyte, c>>)
      BY <1>2, <2>1, <3>1 DEF Pays
    <3>3. QED
      BY <1>3, <2>3, <3>1, <3>2
  <2>4. CASE Goto("jis1", Sjis(firstbyte, c))
    <3>1. Sjis(firstbyte, c) \in Seq(Nat) /\ Len(Sjis(firstbyte, c)) = 2
      BY <1>1 DEF Sjis
    <3>2. Pays("jis1", Sjis(firstbyte, c))
      BY <1>2, <2>1, <3>1, SMTT(40) DEF Pays
    <3>3. QED
      BY <1>3, <2>4, <3>1, <3>2
  <2>5. CASE Goto("jis1", <<>>)
    <3>1. <<>> \in Seq(Nat) /\ Len(<<>>) = 0
      BY <1>1
    <3>2. Pays("jis1", <<>>)
      BY <1>2, <2>1, <3>1 DEF Pays
    <3>3. QED
      BY <1>3, <2>5, <3>1, <3>2
  <2>6. QED
    BY <1>6, <2>2, <2>3, <2>4, <2>5 DEF InJis2
<1>7. CASE InEsc(c)
  <2>1. Owed = OwedIn("esc")
    BY <1>7 DEF InEsc, Owed
  <2>2. CASE Goto("esc_kakko", <<>>)
    <3>1. <<>> \in Seq(Nat) /\ Len(<<>>) = 0
      BY <1>1
    <3>2. Pays("esc_kakko", <<>>)
      BY <1>2, <2>1, <3>1 DEF Pays
    <3>3. QED
      BY <1>3, <2>2, <3>1, <3>2
  <2>3. CASE Goto("esc_dollar", <<>>)
    <3>1. <<>> \in Seq(Nat) /\ Len(<<>>) = 0
      BY <1>1
    <3>2. Pays("esc_dollar", <<>>)
      BY <1>2, <2>1, <3>1 DEF Pays
    <3>3. QED
      BY <1>3, <2>3, <3>1, <3>2
  <2>4. CASE Goto("ascii", <<ESC, c>>)
    <3>1. <<ESC, c>> \in Seq(Nat) /\ Len(<<ESC, c>>) = 2
      BY <1>1 DEF ESC
    <3>2. Pays("ascii", <<ESC, c>>)
      BY <1>2, <2>1, <3>1 DEF Pays
    <3>3. QED
      BY <1>3, <2>4, <3>1, <3>2
  <2>5. QED
    BY <1>7, <2>2, <2>3, <2>4 DEF InEsc, AfterBadEscape
<1>8. CASE InEscKakko(c)
  <2>1. Owed = OwedIn("esc_kakko")
    BY <1>8 DEF InEscKakko, Owed
  <2>2. CASE Goto("ascii", <<>>)
    <3>1. <<>> \in Seq(Nat) /\ Len(<<>>) = 0
      BY <1>1
    <3>2. Pays("ascii", <<>>)
      BY <1>2, <2>1, <3>1 DEF Pays
    <3>3. QED
      BY <1>3, <2>2, <3>1, <3>2
  <2>3. CASE Goto("ascii", <<ESC, 40, c>>)
    <3>1. <<ESC, 40, c>> \in Seq(Nat) /\ Len(<<ESC, 40, c>>) = 3
      BY <1>1 DEF ESC
    <3>2. Pays("ascii", <<ESC, 40, c>>)
      BY <1>2, <2>1, <3>1 DEF Pays
    <3>3. QED
      BY <1>3, <2>3, <3>1, <3>2
  <2>4. QED
    BY <1>8, <2>2, <2>3 DEF InEscKakko, AfterBadEscape
<1>9. CASE InEscDollar(c)
  <2>1. Owed = OwedIn("esc_dollar")
    BY <1>9 DEF InEscDollar, Owed
  <2>2. CASE Goto("jis1", <<>>)
    <3>1. <<>> \in Seq(Nat) /\ Len(<<>>) = 0
      BY <1>1
    <3>2. Pays("jis1", <<>>)
      BY <1>2, <2>1, <3>1 DEF Pays
    <3>3. QED
      BY <1>3, <2>2, <3>1, <3>2
  <2>3. CASE Goto("ascii", <<ESC, 36, c>>)
    <3>1. <<ESC, 36, c>> \in Seq(Nat) /\ Len(<<ESC, 36, c>>) = 3
      BY <1>1 DEF ESC
    <3>2. Pays("ascii", <<ESC, 36, c>>)
      BY <1>2, <2>1, <3>1 DEF Pays
    <3>3. QED
      BY <1>3, <2>3, <3>1, <3>2
  <2>4. QED
    BY <1>9, <2>2, <2>3 DEF InEscDollar, AfterBadEscape
<1>10. QED
  BY <1>4, <1>5, <1>6, <1>7, <1>8, <1>9 DEF Convert

\* One pass of the loop keeps the types of what it changes.
LEMMA ConvertType ==
  ASSUME TypeOK, Convert
  PROVE  /\ context' \in Contexts /\ sjisbuf' \in Seq(Nat)
         /\ firstbyte' \in Nat
         /\ used' \in 0..RecvBufLen /\ todo' \in Seq(Nat)
<1>1. context' \in Contexts /\ sjisbuf' \in Seq(Nat)
  <2>1. PICK x \in Contexts, b \in Seq(Nat) : Goto(x, b)
    BY ConvertPays
  <2>2. QED
    BY <2>1 DEF Goto, TypeOK
<1>2. firstbyte' \in Nat
  BY ReadsByte DEF Convert, InAscii, InJis1, InJis2, InEsc, InEscKakko, InEscDollar
<1>3. used' \in 0..RecvBufLen
  BY RecvBufLenAssumption DEF Convert, TypeOK, PieceMax
<1>4. QED
  BY <1>1, <1>2, <1>3, ReadsByte

\* What reading one byte writes, and what the new context owes, is at most one
\* more than what the old context owed.
LEMMA OnePass ==
  ASSUME TypeOK, Convert
  PROVE  /\ Len(sjisbuf') + Owed' <= Len(sjisbuf) + Owed + 1
         /\ Len(sjisbuf) \in Nat /\ Len(sjisbuf') \in Nat
<1>1. PICK x \in Contexts, b \in Seq(Nat) : Pays(x, b) /\ Goto(x, b)
  BY ConvertPays
<1>2. /\ Len(b) \in Nat /\ Len(sjisbuf) \in Nat
      /\ Len(sjisbuf') = Len(sjisbuf) + Len(b)
  BY <1>1 DEF TypeOK, Goto
<1>3. Owed' = OwedIn(x)
  BY <1>1 DEF Owed, Goto
<1>4. Owed \in Int /\ OwedIn(x) \in Int
  BY DEF Owed, OwedIn
<1>5. OwedIn(x) + Len(b) <= Owed + 1
  BY <1>1 DEF Pays
<1>6. QED
  BY <1>2, <1>3, <1>4, <1>5

\* Every step preserves the type invariant.
LEMMA NextTypeOK == TypeOK /\ [Next]_vars => TypeOK'
<1> SUFFICES ASSUME TypeOK, [Next]_vars PROVE TypeOK'
  OBVIOUS
<1>1. CASE HostSends
  <2>1. todo' \in Seq(Nat) /\ want' \in Seq(Nat) /\ items' \in 0..MaxItems
    <3>1. ASSUME NEW c \in TextBytes \cup JunkBytes \cup {10}, NEW m \in {<<>>, <<c>>},
                 Send(<<c>>, m)
          PROVE  todo' \in Seq(Nat) /\ want' \in Seq(Nat) /\ items' \in 0..MaxItems
      <4>1. c \in Nat
        BY ByteFacts
      <4>2. <<c>> \in Seq(Nat) /\ <<>> \in Seq(Nat)
        BY <4>1
      <4>3. m \in Seq(Nat)
        BY <4>2
      <4>4. QED
        BY <3>1, <4>2, <4>3, SendType
    <3>2. ASSUME NEW h \in KanjiBytes, NEW l \in KanjiBytes, Send(<<h, l>>, Sjis(h, l))
          PROVE  todo' \in Seq(Nat) /\ want' \in Seq(Nat) /\ items' \in 0..MaxItems
      <4>1. h \in Nat /\ l \in Nat
        BY ByteFacts
      <4>2. <<h, l>> \in Seq(Nat) /\ Sjis(h, l) \in Seq(Nat)
        BY <4>1, ByteFacts
      <4>3. QED
        BY <3>2, <4>2, SendType
    <3>3. ASSUME NEW x \in {36, 40}, NEW c \in {66, 74}, Send(<<ESC, x, c>>, <<>>)
          PROVE  todo' \in Seq(Nat) /\ want' \in Seq(Nat) /\ items' \in 0..MaxItems
      <4>1. <<ESC, x, c>> \in Seq(Nat) /\ <<>> \in Seq(Nat)
        BY ByteFacts
      <4>2. QED
        BY <3>3, <4>1, SendType
    <3>4. QED
      BY <1>1, <3>1, <3>2, <3>3 DEF HostSends
  <2>2. kanji' \in BOOLEAN /\ clean' \in BOOLEAN
    BY <1>1 DEF HostSends, TypeOK
  <2>3. QED
    BY <1>1, <2>1, <2>2 DEF HostSends, TypeOK, machineVars
<1>2. CASE Convert
  BY <1>2, ConvertType DEF Convert, TypeOK
<1>3. CASE EndPiece
  BY <1>3, RecvBufLenAssumption DEF EndPiece, ContextKept, TypeOK, hostVars
<1>4. CASE UNCHANGED vars
  BY <1>4 DEF vars, TypeOK, machineVars, hostVars
<1>5. QED
  BY <1>1, <1>2, <1>3, <1>4 DEF Next, Done

\* TypeOK holds in every reachable state.
THEOREM TypeCorrect == Spec => []TypeOK
  BY InitTypeOK, NextTypeOK, PTL DEF Spec

----------------------------------------------------------------------------
(* The bound.                                                             *)

\* The initial state satisfies the bound.
LEMMA InitInv == Init => Inv
  BY RecvBufLenAssumption DEF Init, Inv, Owed, OwedIn, Contexts

\* Every step preserves it.
LEMMA NextInv == TypeOK /\ Inv /\ [Next]_vars => Inv'
<1> SUFFICES ASSUME TypeOK, Inv, [Next]_vars PROVE Inv'
  OBVIOUS
<1>1. CASE Convert
  <2>1. used \in Nat /\ used' = used + 1 /\ used' \in 0..RecvBufLen /\ context' \in Contexts
    BY <1>1, ConvertType DEF Convert, TypeOK
  <2>2. Owed \in 0..2 /\ Owed' \in 0..2
    BY DEF Owed, OwedIn
  <2>3. QED
    BY <1>1, <2>1, <2>2, OnePass DEF Inv
<1>2. CASE EndPiece
  <2>1. used' = 0 /\ Len(sjisbuf') = 0 /\ context' = context
    BY <1>2 DEF EndPiece, ContextKept
  <2>2. Owed' = Owed /\ Owed \in Int /\ Owed <= 2
    BY <2>1 DEF Owed, OwedIn
  <2>3. Len(sjisbuf') + Owed' <= used' + 2
    BY <2>1, <2>2
  <2>4. used' \in 0..RecvBufLen /\ context' \in Contexts
    BY <2>1, RecvBufLenAssumption DEF Inv
  <2>5. QED
    BY <2>3, <2>4 DEF Inv
<1>3. CASE HostSends \/ UNCHANGED vars
  BY <1>3 DEF HostSends, vars, machineVars, Inv, Owed
<1>4. QED
  BY <1>1, <1>2, <1>3 DEF Next, Done

\* A call never writes more than two bytes above what it reads: with a piece of
\* RecvBufLen bytes it stays inside the array.
THEOREM SjisbufBoundHolds == Spec => []SjisbufBound
<1>1. TypeOK /\ Inv => SjisbufBound
  <2> SUFFICES ASSUME TypeOK, Inv PROVE SjisbufBound
    OBVIOUS
  <2>1. Len(sjisbuf) \in Nat /\ used \in Nat /\ Owed \in 0..2
    BY DEF TypeOK, Owed, OwedIn
  <2>2. QED
    BY <2>1 DEF Inv, SjisbufBound
<1>2. QED
  BY <1>1, InitInv, NextInv, TypeCorrect, PTL DEF Spec

----------------------------------------------------------------------------
(* The conversion.  Between two pieces the machine is nowhere but in the   *)
(* item on its way, and its context says how far.                          *)

\* Where the machine is between two items.
Shift == IF kanji THEN "jis1" ELSE "ascii"

\* A control character or an escape sequence is read from either.
BetweenItems == context \in {"ascii", "jis1"}

\* The item on its way has still to show r.
Whole(r) == todo = <<>> /\ r = <<>> /\ context = Shift
Single(r) == ~kanji /\ context = "ascii" /\ \E c \in TextBytes : todo = <<c>> /\ r = <<c>>
Newline(r) == ~kanji /\ BetweenItems /\ todo = <<10>> /\ r = <<10>>
Pair(r) ==
  /\ kanji
  /\ \E h, l \in KanjiBytes :
       /\ r = Sjis(h, l)
       /\ \/ todo = <<h, l>> /\ context = "jis1"
          \/ todo = <<l>> /\ context = "jis2" /\ firstbyte = h
ShiftIn(r) ==
  /\ kanji /\ r = <<>>
  /\ \/ todo = <<ESC, 36, 66>> /\ BetweenItems
     \/ todo = <<36, 66>> /\ context = "esc"
     \/ todo = <<66>> /\ context = "esc_dollar"
ShiftOut(r) ==
  /\ ~kanji /\ r = <<>>
  /\ \E c \in {66, 74} :
       \/ todo = <<ESC, 40, c>> /\ BetweenItems
       \/ todo = <<40, c>> /\ context = "esc"
       \/ todo = <<c>> /\ context = "esc_kakko"

OnTheWay(r) ==
  Whole(r) \/ Single(r) \/ Newline(r) \/ Pair(r) \/ ShiftIn(r) \/ ShiftOut(r)

\* What was written and what the item has still to show are what the items mean.
Translated ==
  clean => \E r \in Seq(Nat) : want = (shown \o sjisbuf) \o r /\ OnTheWay(r)

\* Texts and kanji are no escapes.
LEMMA TextFacts ==
  /\ \A c \in TextBytes : c \in Nat /\ c # ESC
  /\ \A c \in KanjiBytes : c \in Nat /\ c >= 33 /\ c # ESC
<1>1. TextBytes \subseteq 32..255 /\ KanjiBytes \subseteq 33..126
  BY BytesAssumption
<1> QED
  BY <1>1 DEF ESC

\* One byte of the item is read, and what it shows is written.
LEMMA ConvertItem ==
  ASSUME TypeOK, NEW r \in Seq(Nat), OnTheWay(r), Convert
  PROVE  \E b, q \in Seq(Nat) : sjisbuf' = sjisbuf \o b /\ r = b \o q /\ OnTheWay(q)'
<1>1. /\ todo # <<>> /\ todo' = Tail(todo) /\ kanji' = kanji
      /\ \/ InAscii(Head(todo)) \/ InJis1(Head(todo)) \/ InJis2(Head(todo))
         \/ InEsc(Head(todo)) \/ InEscKakko(Head(todo)) \/ InEscDollar(Head(todo))
  BY DEF Convert
<1>2. <<>> \in Seq(Nat) /\ <<>> \o <<>> = <<>>
  BY ConcatEmptySeq
<1>3. \A s \in Seq(Nat) : s \o <<>> = s /\ <<>> \o s = s
  BY ConcatEmptySeq
<1>4. CASE Single(r)
  <2>1. PICK c \in TextBytes : todo = <<c>> /\ r = <<c>> /\ context = "ascii" /\ ~kanji
    BY <1>4 DEF Single
  <2>2. Head(todo) = c /\ todo' = <<>> /\ c # ESC
    BY <1>1, <2>1, TextFacts
  <2>3. Goto("ascii", <<c>>)
    BY <1>1, <2>1, <2>2 DEF InAscii, InJis1, InJis2, InEsc, InEscKakko, InEscDollar
  <2>4. Whole(<<>>)' /\ sjisbuf' = sjisbuf \o r
    BY <1>1, <2>1, <2>2, <2>3 DEF Goto, Whole, Shift
  <2> QED
    BY <1>2, <1>3, <2>4 DEF OnTheWay
<1>5. CASE Newline(r)
  <2>1. todo = <<10>> /\ r = <<10>> /\ context \in {"ascii", "jis1"} /\ ~kanji
    BY <1>5 DEF Newline, BetweenItems
  <2>2. Head(todo) = 10 /\ todo' = <<>>
    BY <1>1, <2>1
  <2>3. Goto("ascii", <<10>>)
    BY <1>1, <2>1, <2>2 DEF InAscii, InJis1, InJis2, InEsc, InEscKakko, InEscDollar, ESC
  <2>4. Whole(<<>>)' /\ sjisbuf' = sjisbuf \o r
    BY <1>1, <2>1, <2>2, <2>3 DEF Goto, Whole, Shift
  <2> QED
    BY <1>2, <1>3, <2>4 DEF OnTheWay
<1>6. CASE Pair(r)
  <2>1. PICK h \in KanjiBytes, l \in KanjiBytes :
          /\ r = Sjis(h, l)
          /\ \/ todo = <<h, l>> /\ context = "jis1"
             \/ todo = <<l>> /\ context = "jis2" /\ firstbyte = h
    BY <1>6 DEF Pair
  <2>2. kanji /\ h \in Nat /\ l \in Nat /\ h >= 33 /\ l >= 33 /\ h # ESC /\ l # ESC
    BY <1>6, TextFacts DEF Pair
  <2>3. CASE todo = <<h, l>> /\ context = "jis1"
    <3>1. Head(todo) = h /\ todo' = <<l>>
      BY <1>1, <2>3
    <3>2. InJis1(h)
      BY <1>1, <2>3, <3>1 DEF InAscii, InJis2, InEsc, InEscKakko, InEscDollar
    <3>3. Goto("jis2", <<>>) /\ firstbyte' = h
      BY <2>2, <3>2 DEF InJis1
    <3>4. Pair(r)'
      BY <1>1, <2>1, <2>2, <3>1, <3>3 DEF Goto, Pair
    <3>5. sjisbuf' = sjisbuf \o <<>>
      BY <3>3 DEF Goto
    <3> QED
      BY <1>2, <1>3, <3>4, <3>5 DEF OnTheWay
  <2>4. CASE todo = <<l>> /\ context = "jis2" /\ firstbyte = h
    <3>1. Head(todo) = l /\ todo' = <<>>
      BY <1>1, <2>4
    <3>2. InJis2(l)
      BY <1>1, <2>4, <3>1 DEF InAscii, InJis1, InEsc, InEscKakko, InEscDollar
    <3>3. Goto("jis1", r)
      BY <2>1, <2>2, <2>4, <3>2 DEF InJis2
    <3>4. Whole(<<>>)' /\ sjisbuf' = sjisbuf \o r
      BY <1>1, <2>2, <3>1, <3>3 DEF Goto, Whole, Shift
    <3> QED
      BY <1>2, <1>3, <3>4 DEF OnTheWay
  <2> QED
    BY <2>1, <2>3, <2>4
<1>7. CASE ShiftIn(r)
  <2>1. kanji /\ r = <<>>
    BY <1>7 DEF ShiftIn
  <2>2. Goto("esc", <<>>) \/ Goto("esc_dollar", <<>>) \/ Goto("jis1", <<>>)
    BY <1>1, <1>7 DEF ShiftIn, BetweenItems, InAscii, InJis1, InJis2, InEsc, InEscKakko,
                      InEscDollar, ESC
  <2>3. sjisbuf' = sjisbuf \o <<>>
    BY <2>2 DEF Goto
  <2>4. ShiftIn(<<>>)' \/ Whole(<<>>)'
    <3>1. CASE todo = <<ESC, 36, 66>> /\ BetweenItems
      <4>1. Head(todo) = ESC /\ todo' = <<36, 66>>
        BY <1>1, <3>1
      <4>2. context' = "esc"
        BY <1>1, <3>1, <4>1 DEF BetweenItems, InAscii, InJis1, InJis2, InEsc, InEscKakko,
                               InEscDollar, Goto, ESC
      <4> QED
        BY <1>1, <2>1, <4>1, <4>2 DEF ShiftIn
    <3>2. CASE todo = <<36, 66>> /\ context = "esc"
      <4>1. Head(todo) = 36 /\ todo' = <<66>>
        BY <1>1, <3>2
      <4>2. context' = "esc_dollar"
        BY <1>1, <3>2, <4>1 DEF InAscii, InJis1, InJis2, InEsc, InEscKakko, InEscDollar, Goto
      <4> QED
        BY <1>1, <2>1, <4>1, <4>2 DEF ShiftIn
    <3>3. CASE todo = <<66>> /\ context = "esc_dollar"
      <4>1. Head(todo) = 66 /\ todo' = <<>>
        BY <1>1, <3>3
      <4>2. context' = "jis1"
        BY <1>1, <3>3, <4>1 DEF InAscii, InJis1, InJis2, InEsc, InEscKakko, InEscDollar, Goto
      <4> QED
        BY <1>1, <2>1, <4>1, <4>2 DEF Whole, Shift
    <3> QED
      BY <1>7, <3>1, <3>2, <3>3 DEF ShiftIn
  <2> QED
    BY <1>2, <2>1, <2>3, <2>4 DEF OnTheWay
<1>8. CASE ShiftOut(r)
  <2>1. PICK c \in {66, 74} :
          \/ todo = <<ESC, 40, c>> /\ BetweenItems
          \/ todo = <<40, c>> /\ context = "esc"
          \/ todo = <<c>> /\ context = "esc_kakko"
    BY <1>8 DEF ShiftOut
  <2>2. ~kanji /\ r = <<>>
    BY <1>8 DEF ShiftOut
  <2>3. sjisbuf' = sjisbuf \o <<>> /\ (ShiftOut(<<>>)' \/ Whole(<<>>)')
    <3>1. CASE todo = <<ESC, 40, c>> /\ BetweenItems
      <4>1. Head(todo) = ESC /\ todo' = <<40, c>>
        BY <1>1, <3>1
      <4>2. Goto("esc", <<>>)
        BY <1>1, <3>1, <4>1 DEF BetweenItems, InAscii, InJis1, InJis2, InEsc, InEscKakko,
                               InEscDollar, ESC
      <4> QED
        BY <1>1, <2>2, <4>1, <4>2 DEF ShiftOut, Goto
    <3>2. CASE todo = <<40, c>> /\ context = "esc"
      <4>1. Head(todo) = 40 /\ todo' = <<c>>
        BY <1>1, <3>2
      <4>2. Goto("esc_kakko", <<>>)
        BY <1>1, <3>2, <4>1 DEF InAscii, InJis1, InJis2, InEsc, InEscKakko, InEscDollar
      <4> QED
        BY <1>1, <2>2, <4>1, <4>2 DEF ShiftOut, Goto
    <3>3. CASE todo = <<c>> /\ context = "esc_kakko"
      <4>1. Head(todo) = c /\ todo' = <<>>
        BY <1>1, <3>3
      <4>2. Goto("ascii", <<>>)
        BY <1>1, <3>3, <4>1 DEF InAscii, InJis1, InJis2, InEsc, InEscKakko, InEscDollar
      <4> QED
        BY <1>1, <2>2, <4>1, <4>2 DEF Whole, Shift, Goto
    <3> QED
      BY <2>1, <3>1, <3>2, <3>3
  <2> QED
    BY <1>2, <2>2, <2>3 DEF OnTheWay
<1>9. ~Whole(r)
  BY <1>1 DEF Whole
<1> QED
  BY <1>4, <1>5, <1>6, <1>7, <1>8, <1>9 DEF OnTheWay

\* Every step keeps the account of the conversion.
LEMMA NextTranslated ==
  ASSUME TypeOK, TypeOK', Translated, [Next]_vars
  PROVE  Translated'
<1> SUFFICES ASSUME clean'
             PROVE  \E q \in Seq(Nat) : want' = (shown' \o sjisbuf') \o q /\ OnTheWay(q)'
  BY DEF Translated
<1>1. /\ shown \in Seq(Nat) /\ sjisbuf \in Seq(Nat) /\ want \in Seq(Nat) /\ <<>> \in Seq(Nat)
  BY DEF TypeOK
<1>2. clean
  BY DEF Next, HostSends, Convert, EndPiece, Done, hostVars, vars
<1>3. PICK r \in Seq(Nat) : want = (shown \o sjisbuf) \o r /\ OnTheWay(r)
  BY <1>2 DEF Translated
<1>4. CASE Convert
  <2>1. PICK b \in Seq(Nat), q \in Seq(Nat) : sjisbuf' = sjisbuf \o b /\ r = b \o q /\ OnTheWay(q)'
    BY <1>3, <1>4, ConvertItem
  <2>2. shown' = shown /\ want' = want
    BY <1>4 DEF Convert
  <2>3. want' = (shown' \o sjisbuf') \o q
    <3>1. want = (shown \o sjisbuf) \o (b \o q)
      BY <1>3, <2>1, Zenon
    <3>2. (shown \o sjisbuf) \o (b \o q) = (shown \o (sjisbuf \o b)) \o q
      <4>1. b \in Seq(Nat) /\ q \in Seq(Nat) /\ shown \in Seq(Nat) /\ sjisbuf \in Seq(Nat)
        BY <1>1, <2>1
      <4>2. shown \o sjisbuf \in Seq(Nat)
        BY <4>1
      <4>3. (shown \o sjisbuf) \o (b \o q) = ((shown \o sjisbuf) \o b) \o q
        BY <4>1, <4>2, SMTT(30)
      <4>4. (shown \o sjisbuf) \o b = shown \o (sjisbuf \o b)
        BY <4>1, SMTT(30)
      <4> QED
        BY <4>3, <4>4, Zenon
    <3> QED
      BY <2>1, <2>2, <3>1, <3>2, Zenon
  <2> QED
    BY <2>1, <2>3
<1>5. CASE EndPiece
  <2>1. /\ shown' = shown \o sjisbuf /\ sjisbuf' = <<>> /\ context' = context
        /\ UNCHANGED <<firstbyte, todo, want, kanji>>
    BY <1>5 DEF EndPiece, ContextKept, hostVars
  <2>2. shown' \o sjisbuf' = shown \o sjisbuf
    <3>1. shown \o sjisbuf \in Seq(Nat)
      BY <1>1
    <3> QED
      BY <2>1, <3>1, ConcatEmptySeq
  <2>3. OnTheWay(r)'
    BY <1>3, <2>1 DEF OnTheWay, Whole, Single, Newline, Pair, ShiftIn, ShiftOut, BetweenItems,
                      Shift
  <2> QED
    BY <1>3, <2>1, <2>2, <2>3
<1>6. CASE HostSends
  <2>1. todo = <<>> /\ UNCHANGED <<context, firstbyte, sjisbuf, shown>>
    BY <1>6 DEF HostSends, Send, machineVars
  <2>2. r = <<>> /\ context = Shift
    BY <1>3, <2>1 DEF OnTheWay, Whole, Single, Newline, Pair, ShiftIn, ShiftOut
  <2>3. want = shown \o sjisbuf
    <3>1. shown \o sjisbuf \in Seq(Nat)
      BY <1>1
    <3> QED
      BY <1>3, <2>2, <3>1, ConcatEmptySeq
  <2>4. BetweenItems'
    BY <2>1, <2>2 DEF Shift, BetweenItems
  <2>5. ASSUME NEW q \in Seq(Nat), NEW bytes, Send(bytes, q), OnTheWay(q)'
        PROVE  \E x \in Seq(Nat) : want' = (shown' \o sjisbuf') \o x /\ OnTheWay(x)'
    BY <2>1, <2>3, <2>5 DEF Send
  <2>6. ASSUME NEW c \in TextBytes, ~kanji, Send(<<c>>, <<c>>), UNCHANGED kanji
        PROVE  <<c>> \in Seq(Nat) /\ OnTheWay(<<c>>)'
    <3>1. Single(<<c>>)'
      BY <2>1, <2>2, <2>6 DEF Single, Shift, Send
    <3> QED
      BY <3>1, TextFacts DEF OnTheWay
  <2>7. ASSUME NEW h \in KanjiBytes, NEW l \in KanjiBytes, kanji, Send(<<h, l>>, Sjis(h, l)),
               UNCHANGED kanji
        PROVE  Sjis(h, l) \in Seq(Nat) /\ OnTheWay(Sjis(h, l))'
    <3>1. context' = "jis1" /\ kanji' /\ todo' = <<h, l>>
      BY <2>1, <2>2, <2>7 DEF Shift, Send
    <3>2. Pair(Sjis(h, l))'
      BY <3>1 DEF Pair, Sjis
    <3>3. Sjis(h, l) \in Seq(Nat)
      BY TextFacts, ByteFacts
    <3> QED
      BY <3>2, <3>3 DEF OnTheWay, Sjis
  <2>8. ASSUME Send(<< 10 >>, << 10 >>), kanji' = FALSE
        PROVE  <<10>> \in Seq(Nat) /\ OnTheWay(<<10>>)'
    <3>1. Newline(<<10>>)'
      BY <2>4, <2>8 DEF Newline, Send
    <3> QED
      BY <3>1 DEF OnTheWay
  <2>9. ASSUME Send(<<ESC, 36, 66>>, <<>>), kanji' = TRUE
        PROVE  OnTheWay(<<>>)'
    <3>1. ShiftIn(<<>>)'
      BY <2>4, <2>9 DEF ShiftIn, Send, ESC
    <3> QED
      BY <3>1 DEF OnTheWay
  <2>10. ASSUME NEW c \in {66, 74}, Send(<<ESC, 40, c>>, <<>>), kanji' = FALSE
         PROVE  OnTheWay(<<>>)'
    <3>1. todo' = <<ESC, 40, c>> /\ ~kanji'
      BY <2>10 DEF Send
    <3>2. ShiftOut(<<>>)'
      BY <2>4, <3>1 DEF ShiftOut, ESC
    <3> QED
      BY <3>2 DEF OnTheWay
  <2>11. CASE \E c \in TextBytes : ~kanji /\ Send(<<c>>, <<c>>) /\ UNCHANGED <<kanji, clean>>
    BY <2>5, <2>6, <2>11
  <2>12. CASE \E h, l \in KanjiBytes :
                kanji /\ Send(<<h, l>>, Sjis(h, l)) /\ UNCHANGED <<kanji, clean>>
    BY <2>5, <2>7, <2>12
  <2>13. CASE Send(<<10>>, <<10>>) /\ kanji' = FALSE
    BY <2>5, <2>8, <2>13
  <2>14. CASE Send(<<ESC, 36, 66>>, <<>>) /\ kanji' = TRUE
    BY <1>1, <2>5, <2>9, <2>14
  <2>15. CASE \E c \in {66, 74} : Send(<<ESC, 40, c>>, <<>>) /\ kanji' = FALSE
    BY <1>1, <2>5, <2>10, <2>15
  <2> QED
    BY <1>6, <2>11, <2>12, <2>13, <2>14, <2>15 DEF HostSends
<1>7. CASE UNCHANGED vars
  BY <1>3, <1>7, ZenonT(60) DEF vars, machineVars, hostVars, OnTheWay, Whole, Single, Newline, Pair,
                    ShiftIn, ShiftOut, BetweenItems, Shift
<1> QED
  BY <1>4, <1>5, <1>6, <1>7 DEF Next, Done

\* Wherever TCP, the telnet commands and the zero bytes cut a stream of text and kanji,
\* in the middle of an escape sequence or of a character too, output_jis (line 566)
\* shows what the text means, no more and nothing out of place.
THEOREM CutsDoNotMatterHolds == Spec => []CutsDoNotMatter
<1>1. Init => Translated
  <2> SUFFICES ASSUME Init PROVE Translated
    OBVIOUS
  <2>1. <<>> \in Seq(Nat) /\ (<<>> \o <<>>) \o <<>> = <<>>
    BY ConcatEmptySeq
  <2>2. Whole(<<>>)
    BY DEF Init, Whole, Shift
  <2> QED
    BY <2>1, <2>2 DEF Init, Translated, OnTheWay
<1>2. TypeOK /\ TypeOK' /\ Translated /\ [Next]_vars => Translated'
  BY NextTranslated
<1>3. TypeOK /\ Translated => CutsDoNotMatter
  <2> SUFFICES ASSUME TypeOK, Translated, clean
               PROVE  /\ IsPrefix(shown \o sjisbuf, want)
                      /\ todo = <<>> => shown \o sjisbuf = want
    BY DEF CutsDoNotMatter
  <2>1. PICK r \in Seq(Nat) : want = (shown \o sjisbuf) \o r /\ OnTheWay(r)
    BY DEF Translated
  <2>2. shown \o sjisbuf \in Seq(Nat)
    BY DEF TypeOK
  <2>3. IsPrefix(shown \o sjisbuf, want)
    BY <2>1, <2>2, PrefixOf
  <2>4. todo = <<>> => r = <<>>
    BY <2>1 DEF OnTheWay, Whole, Single, Newline, Pair, ShiftIn, ShiftOut
  <2> QED
    BY <2>1, <2>2, <2>3, <2>4, ConcatEmptySeq
<1> QED
  BY <1>1, <1>2, <1>3, TypeCorrect, PTL DEF Spec
=============================================================================
