-------------------------- MODULE EsenetSendProofs --------------------------
(***************************************************************************)
(* For buffers, blocks and files of any size: what send() is given reaches *)
(* the host in order, once and whole.                                      *)
(***************************************************************************)
EXTENDS EsenetSend, StreamLemmas

\* send() is called only by input() and filesend(), when no call is in progress: what
\* it has left belongs to the call that waits for it.
OneCall == pc \notin {"key", "file"} => pend = <<>>

Inv == TypeOK /\ OneCall /\ SentInOrder

----------------------------------------------------------------------------
(* The types.                                                             *)

\* The streams and the rest of the type invariant.
StreamsOK ==
  /\ obuf \in Seq(Bytes) /\ kbd \in Seq(Bytes) /\ typed \in Seq(Bytes) /\ got \in Seq(Bytes)
  /\ echo \in Seq(Bytes) /\ shown \in Seq(Bytes) /\ asked \in Seq(Bytes)
  /\ sbuf \in Seq(Bytes) /\ rbuf \in Seq(Bytes) /\ pend \in Seq(Bytes)

RestOK ==
  /\ pc \in {"input", "key", "read", "file", "recv", "quit"}
  /\ Len(sbuf) <= SbufSize /\ Len(rbuf) <= RbufSize /\ tries \in 0..RetrySend
  /\ swLine \in BOOLEAN /\ fileDone \in BOOLEAN /\ aborted \in BOOLEAN
  /\ pos \in -1..FileLen /\ toggles \in 0..MaxToggles /\ pressed \in 0..MaxTyped

\* They are what the type invariant says.
LEMMA TypeParts == TypeOK <=> StreamsOK /\ RestOK
  BY Zenon DEF TypeOK, StreamsOK, RestOK

LEMMA TypePartsNext == TypeOK' <=> StreamsOK' /\ RestOK'
  BY Zenon DEF TypeOK, StreamsOK, RestOK

\* Every byte the client makes is one of Bytes.
LEMMA MadeBytes ==
  /\ CR \in Bytes /\ LF \in Bytes /\ ESC \in Bytes
  /\ \A n \in 0..(MaxTyped - 1) : (-4 - n) \in Bytes
  BY BoundAssumption, FileAssumption DEF CR, LF, ESC, Bytes

\* main() enters mainloop() with nothing typed, sent or received.
LEMMA InitInv == ASSUME Init PROVE Inv
<1>1. <<>> \in Seq(Bytes) /\ Len(<<>>) = 0
  OBVIOUS
<1>2. StreamsOK
  BY <1>1, Zenon DEF Init, TcpInit, StreamsOK
<1>3. RestOK
  <2>1. Len(sbuf) = 0 /\ Len(rbuf) = 0
    BY <1>1 DEF Init, TcpInit
  <2>2. /\ 0 \in 0..RetrySend /\ 0 \in 0..MaxToggles /\ 0 \in 0..MaxTyped
        /\ -1 \in -1..FileLen
    BY RetrySendAssumption, FileAssumption, BoundAssumption
  <2>3. Len(sbuf) <= SbufSize /\ Len(rbuf) <= RbufSize
    BY <2>1, BufferAssumption
  <2> QED
    BY <2>2, <2>3 DEF Init, TcpInit, RestOK
<1>4. OneCall
  BY DEF Init, TcpInit, OneCall
<1>5. SentInOrder
  BY DEF Init, TcpInit, SentInOrder
<1> QED
  BY <1>2, <1>3, <1>4, <1>5, TypeParts DEF Inv

----------------------------------------------------------------------------
(* send().                                                                *)

\* A call of send(), which input() and filesend() make when none is in progress,
\* hands over its bytes behind all that were handed over before.
LEMMA CallsKeepsOrder ==
  ASSUME Inv, pend = <<>>, NEW data \in Seq(Bytes), Calls(data),
         UNCHANGED <<got, sbuf, aborted>>
  PROVE  /\ pend' \in Seq(Bytes) /\ asked' \in Seq(Bytes) /\ tries' \in 0..RetrySend
         /\ SentInOrder'
<1>1. StreamsOK
  BY TypeParts DEF Inv
<1>2. pend' \in Seq(Bytes) /\ asked' \in Seq(Bytes) /\ tries' \in 0..RetrySend
  BY <1>1, RetrySendAssumption DEF Calls, Send, StreamsOK
<1>3. got \o sbuf \in Seq(Bytes)
  BY <1>1 DEF StreamsOK
<1>4. (got \o sbuf) \o <<>> = got \o sbuf
  BY <1>3, ConcatEmptySeq
<1>5. ~aborted => asked = got \o sbuf
  BY <1>4, Zenon DEF Inv, SentInOrder
<1>6. SentInOrder'
  BY <1>5, Zenon DEF Calls, Send, SentInOrder
<1> QED
  BY <1>2, <1>6

\* A try copies the front of what is left to the end of the send buffer, as far as
\* there is room: the host, the buffer and what is left then still are one stream.
LEMMA HandOverKeepsOrder ==
  ASSUME Inv, HandOver, UNCHANGED <<got, asked>>
  PROVE  /\ Unsent(Room) \in Seq(Bytes) /\ sbuf' \in Seq(Bytes) /\ Len(sbuf') <= SbufSize
         /\ ~aborted => got' \o sbuf' \o Unsent(Room) = asked'
<1>1. StreamsOK /\ RestOK
  BY TypeParts DEF Inv
<1>2. Room \in 0..Len(pend) /\ Len(sbuf) + Room <= SbufSize
  BY <1>1, BufferAssumption DEF Room, Least, StreamsOK, RestOK
<1>3. /\ SubSeq(pend, 1, Room) \in Seq(Bytes) /\ Len(SubSeq(pend, 1, Room)) = Room
      /\ Rest(pend, Room) \in Seq(Bytes)
  BY <1>1, <1>2, Split DEF StreamsOK
<1>4. Unsent(Room) \in Seq(Bytes) /\ sbuf' \in Seq(Bytes) /\ Len(sbuf') <= SbufSize
  BY <1>1, <1>2, <1>3 DEF HandOver, Unsent, StreamsOK
<1>5. (got \o (sbuf \o SubSeq(pend, 1, Room))) \o Rest(pend, Room) = (got \o sbuf) \o pend
  <2>1. pend \in Seq(Bytes) /\ got \in Seq(Bytes) /\ sbuf \in Seq(Bytes)
    BY <1>1, Zenon DEF StreamsOK
  <2>2. got \o (sbuf \o SubSeq(pend, 1, Room)) = (got \o sbuf) \o SubSeq(pend, 1, Room)
    <3>1. ASSUME NEW f \in Seq(Bytes)
          PROVE  got \o (sbuf \o f) = (got \o sbuf) \o f
      BY <2>1
    <3> QED
      BY <1>3, <3>1
  <2>3. ((got \o sbuf) \o SubSeq(pend, 1, Room)) \o Rest(pend, Room) = (got \o sbuf) \o pend
    <3>1. got \o sbuf \in Seq(Bytes)
      BY <2>1
    <3> QED
      BY <2>1, <3>1, <1>2, Moved
  <2> QED
    BY <2>2, <2>3, Zenon
<1>6. ~aborted => got' \o sbuf' \o Unsent(Room) = asked'
  BY <1>5, Zenon DEF Inv, HandOver, Unsent, SentInOrder
<1> QED
  BY <1>4, <1>6

\* The host takes the front of the send buffer behind what it has.
LEMMA TakeKeepsOrder ==
  ASSUME Inv, NEW n \in 1..Len(sbuf), TcpTake(n), got' = got \o SubSeq(sbuf, 1, n),
         UNCHANGED <<pend, asked, aborted>>
  PROVE  /\ sbuf' \in Seq(Bytes) /\ Len(sbuf') <= SbufSize /\ got' \in Seq(Bytes)
         /\ SentInOrder'
<1>1. StreamsOK /\ RestOK
  BY TypeParts DEF Inv
<1>2. got \in Seq(Bytes) /\ sbuf \in Seq(Bytes)
  BY <1>1, Zenon DEF StreamsOK
<1>3. n \in 0..Len(sbuf)
  BY <1>2
<1>4. /\ SubSeq(sbuf, 1, n) \in Seq(Bytes)
      /\ Rest(sbuf, n) \in Seq(Bytes) /\ Len(Rest(sbuf, n)) = Len(sbuf) - n
  BY <1>2, <1>3, Split
<1>5. got' \in Seq(Bytes)
  BY <1>2, <1>4
<1>6. sbuf' \in Seq(Bytes) /\ Len(sbuf') <= SbufSize
  BY <1>1, <1>2, <1>4, BufferAssumption DEF TcpTake, RestOK
<1>7. (got \o SubSeq(sbuf, 1, n)) \o Rest(sbuf, n) = got \o sbuf
  BY <1>2, <1>3, Moved
<1>8. SentInOrder'
  BY <1>7, Zenon DEF Inv, TcpTake, SentInOrder
<1> QED
  BY <1>5, <1>6, <1>8

----------------------------------------------------------------------------
(* The steps.                                                             *)

\* What getchnw takes is a byte, and so is what stays.
LEMMA TakenType ==
  ASSUME StreamsOK, KeyTaken
  PROVE  /\ kbd' \in Seq(Bytes) /\ Head(kbd) \in Bytes /\ UNCHANGED <<typed, pressed>>
<1>1. kbd \in Seq(Bytes) /\ kbd # <<>>
  BY DEF StreamsOK, KeyTaken
<1>2. Head(kbd) \in Bytes /\ Tail(kbd) \in Seq(Bytes)
  BY <1>1
<1> QED
  BY <1>2 DEF KeyTaken

\* The same of eschit, which takes a key only if there is one.
LEMMA CheckType ==
  ASSUME StreamsOK, eschit
  PROVE  kbd' \in Seq(Bytes) /\ typed' \in Seq(Bytes) /\ UNCHANGED pressed
<1> DEFINE k == Len(typed) - Len(kbd)
<1>1. typed \in Seq(Bytes) /\ kbd \in Seq(Bytes)
  BY DEF StreamsOK
<1>2. Len(typed) \in Nat /\ Len(kbd) \in Nat /\ k \in Int /\ k <= Len(typed)
  BY <1>1
<1>3. \A i \in 1..k : typed[i] \in Bytes
  BY <1>1, <1>2, ElementOfSeq
<1>4. \A i \in 2..Len(kbd) : kbd[i] \in Bytes
  BY <1>1, <1>2, ElementOfSeq
<1> HIDE DEF k
<1>5. SubSeq(typed, 1, k) \in Seq(Bytes)
  BY <1>2, <1>3, SubSeqProperties
<1>6. SubSeq(kbd, 2, Len(kbd)) \in Seq(Bytes)
  BY <1>2, <1>4, SubSeqProperties
<1>7. Rest(kbd, 1) \in Seq(Bytes)
  BY <1>6 DEF Rest
<1>8. SubSeq(typed, 1, k) \o Rest(kbd, 1) \in Seq(Bytes)
  BY <1>5, <1>7
<1> QED
  BY <1>7, <1>8 DEF eschit, k

\* Steps that neither send nor give up, nor take anything from a stream.
LEMMA Elsewhere ==
  ASSUME Inv, UNCHANGED <<got, sbuf, pend, asked, aborted>>
  PROVE  SentInOrder'
  BY Zenon DEF Inv, SentInOrder

\* input(): a key, a line or nothing is sent, and what is kept of the line is typed.
LEMMA InputKeepsInv ==
  ASSUME Inv, NoKey \/ Type \/ Return \/ SwitchLine \/ SendNow \/ Quit \/ FileOpen
  PROVE  Inv'
<1>1. StreamsOK /\ RestOK /\ OneCall
  BY TypeParts DEF Inv
<1>2. pc = "input" /\ pend = <<>>
  BY <1>1 DEF OneCall, NoKey, Type, Return, Menu, SwitchLine, SendNow, Quit, FileOpen
<1>3. obuf \in Seq(Bytes) /\ <<>> \in Seq(Bytes)
  BY <1>1 DEF StreamsOK
<1>4. CASE NoKey
  BY <1>1, <1>2, <1>4, Elsewhere, TypePartsNext
  DEF NoKey, Inv, OneCall, StreamsOK, RestOK, tcpVars, sendVars, keyVars, hostVars
<1>5. CASE Type
  <2> DEFINE c == Head(kbd)
  <2>1. kbd' \in Seq(Bytes) /\ c \in Bytes /\ UNCHANGED <<typed, pressed>>
    BY <1>1, <1>5, TakenType DEF Type
  <2> HIDE DEF c
  <2>2. Append(obuf, c) \in Seq(Bytes)
    BY <1>3, <2>1
  <2>3. UNCHANGED <<got, sbuf, aborted>>
    BY <1>5 DEF Type, tcpVars, hostVars
  <2>4. CASE swLine
    <3>1. obuf' = Append(obuf, c) /\ pc' = "recv" /\ UNCHANGED <<sendVars, asked>>
      BY <1>5, <2>4 DEF Type, c
    <3>2. StreamsOK'
      BY <1>1, <1>5, <2>1, <2>2, <3>1 DEF Type, StreamsOK, tcpVars, sendVars, hostVars
    <3>3. RestOK'
      BY <1>1, <1>5, <2>1, <3>1 DEF Type, RestOK, tcpVars, sendVars
    <3>4. UNCHANGED pend
      BY <3>1 DEF sendVars
    <3> QED
      BY <1>2, <2>3, <3>1, <3>2, <3>3, <3>4, Elsewhere, TypePartsNext DEF Inv, OneCall
  <2>5. CASE ~swLine
    <3>1. Calls(Append(obuf, c)) /\ obuf' = <<>> /\ pc' = "key"
      BY <1>5, <2>5 DEF Type, LineSent, c
    <3>2. /\ pend' \in Seq(Bytes) /\ asked' \in Seq(Bytes) /\ tries' \in 0..RetrySend
          /\ SentInOrder'
      BY <1>2, <2>2, <2>3, <3>1, CallsKeepsOrder
    <3>3. StreamsOK'
      BY <1>1, <1>3, <1>5, <2>1, <3>1, <3>2 DEF Type, StreamsOK, tcpVars, hostVars
    <3>4. RestOK'
      BY <1>1, <1>5, <2>1, <3>1, <3>2 DEF Type, RestOK, tcpVars
    <3> QED
      BY <3>1, <3>2, <3>3, <3>4, TypePartsNext DEF Inv, OneCall
  <2> QED
    BY <2>4, <2>5
<1>6. CASE Return
  <2>1. kbd' \in Seq(Bytes) /\ UNCHANGED <<typed, pressed>>
    BY <1>1, <1>6, TakenType DEF Return
  <2>2. obuf \o <<CR, LF>> \in Seq(Bytes)
    <3>1. <<CR, LF>> \in Seq(Bytes)
      BY MadeBytes
    <3> QED
      BY <1>3, <3>1
  <2>3. UNCHANGED <<got, sbuf, aborted>>
    BY <1>6 DEF Return, tcpVars, hostVars
  <2>4. Calls(obuf \o <<CR, LF>>) /\ obuf' = <<>> /\ pc' = "key"
    BY <1>6 DEF Return, LineSent
  <2>5. /\ pend' \in Seq(Bytes) /\ asked' \in Seq(Bytes) /\ tries' \in 0..RetrySend
        /\ SentInOrder'
    BY <1>2, <2>2, <2>3, <2>4, CallsKeepsOrder
  <2>6. StreamsOK'
    BY <1>1, <1>3, <1>6, <2>1, <2>4, <2>5 DEF Return, StreamsOK, tcpVars, hostVars
  <2>7. RestOK'
    BY <1>1, <1>6, <2>1, <2>4, <2>5 DEF Return, RestOK, tcpVars
  <2> QED
    BY <2>4, <2>5, <2>6, <2>7, TypePartsNext DEF Inv, OneCall
<1>7. CASE SwitchLine
  BY <1>1, <1>2, <1>7, Elsewhere, TypePartsNext, BoundAssumption
  DEF SwitchLine, Inv, OneCall, StreamsOK, RestOK, tcpVars, sendVars, keyVars, hostVars
<1>8. CASE SendNow
  <2>1. UNCHANGED <<got, sbuf, aborted>>
    BY <1>8 DEF SendNow, tcpVars, hostVars
  <2>2. toggles' \in 0..MaxToggles
    BY <1>1, <1>8, BoundAssumption DEF SendNow, RestOK
  <2>3. CASE swLine /\ obuf # <<>>
    <3>1. Calls(obuf) /\ obuf' = <<>> /\ pc' = "key"
      BY <1>8, <2>3 DEF SendNow, LineSent
    <3>2. /\ pend' \in Seq(Bytes) /\ asked' \in Seq(Bytes) /\ tries' \in 0..RetrySend
          /\ SentInOrder'
      BY <1>2, <1>3, <2>1, <3>1, CallsKeepsOrder
    <3>3. StreamsOK'
      BY <1>1, <1>3, <1>8, <3>1, <3>2 DEF SendNow, StreamsOK, tcpVars, keyVars, hostVars
    <3>4. RestOK'
      BY <1>1, <1>8, <2>2, <3>1, <3>2 DEF SendNow, RestOK, tcpVars, keyVars
    <3> QED
      BY <3>1, <3>2, <3>3, <3>4, TypePartsNext DEF Inv, OneCall
  <2>4. CASE ~(swLine /\ obuf # <<>>)
    BY <1>1, <1>2, <1>8, <2>2, <2>4, Elsewhere, TypePartsNext
    DEF SendNow, Inv, OneCall, StreamsOK, RestOK, tcpVars, sendVars, keyVars, hostVars
  <2> QED
    BY <2>3, <2>4
<1>9. CASE Quit
  BY <1>1, <1>2, <1>9, Elsewhere, TypePartsNext
  DEF Quit, Inv, OneCall, StreamsOK, RestOK, tcpVars, sendVars, keyVars, hostVars
<1>10. CASE FileOpen
  BY <1>1, <1>2, <1>10, Elsewhere, TypePartsNext, FileAssumption
  DEF FileOpen, Inv, OneCall, StreamsOK, RestOK, tcpVars, sendVars, keyVars, hostVars
<1> QED
  BY <1>4, <1>5, <1>6, <1>7, <1>8, <1>9, <1>10

\* filesend(): a block is as long as fread says, and lies within the file.
LEMMA FileKeepsInv ==
  ASSUME Inv, FileRead \/ FileGoesOn \/ FileEscape
  PROVE  Inv'
<1>1. StreamsOK /\ RestOK /\ OneCall
  BY TypeParts DEF Inv
<1>2. CASE FileRead
  <2>1. pc = "read" /\ pend = <<>>
    BY <1>1, <1>2 DEF FileRead, OneCall
  <2>2. UNCHANGED <<got, sbuf, aborted>>
    BY <1>2 DEF FileRead, tcpVars, hostVars
  <2>3. CASE AtEnd
    BY <1>1, <1>2, <2>1, <2>3, Elsewhere, TypePartsNext
    DEF FileRead, Inv, OneCall, StreamsOK, RestOK, tcpVars, sendVars, keyVars, hostVars
  <2>4. CASE ~AtEnd
    <3> DEFINE data == [i \in 1..Chunk |-> pos + i]
    <3>1. pos \in -1..FileLen /\ Chunk \in Nat /\ pos + Chunk \in -1..FileLen
      BY <1>1, FileAssumption DEF RestOK, Chunk, Least
    <3>2. \A i \in 1..Chunk : pos + i \in Bytes
      BY <3>1, BoundAssumption, FileAssumption DEF Bytes
    <3>3. data \in Seq(Bytes)
      BY <3>1, <3>2
    <3>4. Calls(data) /\ pos' = pos + Chunk /\ pc' = "file"
      BY <1>2, <2>4 DEF FileRead
    <3> HIDE DEF data
    <3>5. /\ pend' \in Seq(Bytes) /\ asked' \in Seq(Bytes) /\ tries' \in 0..RetrySend
          /\ SentInOrder'
      BY <2>1, <2>2, <3>3, <3>4, CallsKeepsOrder
    <3>6. StreamsOK'
      BY <1>1, <1>2, <3>5 DEF FileRead, StreamsOK, tcpVars, keyVars, hostVars
    <3>7. RestOK'
      <4>1. pos' \in -1..FileLen
        BY <3>1, <3>4
      <4>2. UNCHANGED <<sbuf, rbuf, swLine, fileDone, aborted, toggles, pressed>>
        BY <1>2, <2>4 DEF FileRead, tcpVars, keyVars
      <4> QED
        BY <1>1, <3>4, <3>5, <4>1, <4>2 DEF RestOK
    <3> QED
      BY <3>4, <3>5, <3>6, <3>7, TypePartsNext DEF Inv, OneCall
  <2> QED
    BY <2>3, <2>4
<1>3. CASE FileGoesOn \/ FileEscape
  <2>1. eschit /\ pend = <<>> /\ pc' \in {"read", "recv"}
    BY <1>3 DEF FileGoesOn, FileEscape, NoEscape, EscapeHit, Sending
  <2>2. kbd' \in Seq(Bytes) /\ typed' \in Seq(Bytes) /\ UNCHANGED pressed
    BY <1>1, <2>1, CheckType
  <2>3. UNCHANGED <<obuf, got, echo, shown, asked, sbuf, rbuf, pend>>
    BY <1>3 DEF FileGoesOn, FileEscape, tcpVars, sendVars, hostVars
  <2>4. StreamsOK'
    BY <1>1, <2>2, <2>3, Zenon DEF StreamsOK
  <2>5. RestOK'
    BY <1>1, <1>3, <2>2, <2>3 DEF FileGoesOn, FileEscape, RestOK, sendVars
  <2>6. UNCHANGED aborted \/ aborted'
    BY <1>3 DEF FileGoesOn, FileEscape
  <2>7. SentInOrder'
    BY <2>3, <2>6, Zenon DEF Inv, SentInOrder
  <2> QED
    BY <2>1, <2>3, <2>4, <2>5, <2>7, TypePartsNext DEF Inv, OneCall
<1> QED
  BY <1>2, <1>3

\* send() and what follows it.
LEMMA SendKeepsInv ==
  ASSUME Inv, SendPass \/ SendGivesUp \/ KeySent
  PROVE  Inv'
<1>1. StreamsOK /\ RestOK /\ OneCall
  BY TypeParts DEF Inv
<1>2. ASSUME SendPass \/ SendGivesUp
      PROVE  /\ HandOver /\ pc \in {"key", "file"}
             /\ UNCHANGED <<pc, obuf, swLine, pos, fileDone, toggles, shown, asked, got, echo>>
             /\ UNCHANGED rbuf /\ tries' \in 0..RetrySend
             /\ kbd' \in Seq(Bytes) /\ typed' \in Seq(Bytes) /\ UNCHANGED pressed
  <2>1. /\ HandOver /\ pc \in {"key", "file"} /\ UNCHANGED rbuf
        /\ UNCHANGED <<pc, obuf, swLine, pos, fileDone, toggles, shown, asked, got, echo>>
    BY <1>2 DEF SendPass, SendGivesUp, SendTry, SendEscape, HandOver, clientVars, hostVars
  <2>2. tries' \in 0..RetrySend
    BY <1>1, <1>2, RetrySendAssumption DEF SendPass, SendGivesUp, SendTry, SendEscape, RestOK
  <2>3. CASE eschit
    BY <1>1, <2>1, <2>2, <2>3, CheckType
  <2>4. CASE UNCHANGED keyVars
    BY <1>1, <2>1, <2>2, <2>4 DEF keyVars, StreamsOK
  <2> QED
    BY <1>2, <2>3, <2>4 DEF SendPass, SendGivesUp, NoEscape, EscapeHit
<1>3. CASE SendPass \/ SendGivesUp
  <2>1. /\ Unsent(Room) \in Seq(Bytes) /\ sbuf' \in Seq(Bytes) /\ Len(sbuf') <= SbufSize
        /\ ~aborted => got' \o sbuf' \o Unsent(Room) = asked'
    BY <1>2, <1>3, HandOverKeepsOrder
  <2>2. /\ pend' = Unsent(Room) \/ pend' = <<>>
        /\ <<>> \in Seq(Bytes)
        /\ ~aborted' => ~aborted /\ pend' = Unsent(Room)
        /\ aborted' \in BOOLEAN
    <3>1. aborted \in BOOLEAN /\ <<>> \in Seq(Bytes)
      BY <1>1 DEF RestOK
    <3>2. CASE SendPass
      <4>1. pend' = Unsent(Room) /\ aborted' = aborted
        BY <3>2 DEF SendPass, SendTry, clientVars
      <4> QED
        BY <3>1, <4>1, Zenon
    <3>3. CASE SendGivesUp
      <4>1. pend' = <<>> /\ aborted' = (aborted \/ Unsent(Room) # <<>>)
        BY <3>3 DEF SendGivesUp, SendEscape
      <4> QED
        BY <3>1, <4>1, Zenon
    <3> QED
      BY <1>3, <3>2, <3>3
  <2>3. pend' \in Seq(Bytes)
    BY <2>1, <2>2, Zenon
  <2>4. StreamsOK'
    BY <1>1, <1>2, <1>3, <2>1, <2>3, Zenon DEF StreamsOK
  <2>5. RestOK'
    BY <1>1, <1>2, <1>3, <2>1, <2>2 DEF RestOK
  <2>6. SentInOrder'
    BY <2>1, <2>2, Zenon DEF SentInOrder
  <2>7. OneCall'
    BY <1>2, <1>3 DEF OneCall
  <2> QED
    BY <2>4, <2>5, <2>6, <2>7, TypePartsNext DEF Inv
<1>4. CASE KeySent
  BY <1>1, <1>4, Elsewhere, TypePartsNext
  DEF KeySent, Sending, Inv, OneCall, StreamsOK, RestOK, tcpVars, sendVars, keyVars, hostVars
<1> QED
  BY <1>3, <1>4

\* Receiving, and the host's steps.
LEMMA OtherSideKeepsInv ==
  ASSUME Inv, Recv \/ HostTakes \/ HostEchoes
  PROVE  Inv'
<1>1. StreamsOK /\ RestOK /\ OneCall
  BY TypeParts DEF Inv
<1>2. CASE Recv
  <2> DEFINE n == Least(RecvBufLen, Len(rbuf))
  <2>1. n \in 0..Len(rbuf)
    BY <1>1, RecvBufLenAssumption DEF StreamsOK, Least
  <2>2. /\ SubSeq(rbuf, 1, n) \in Seq(Bytes)
        /\ Rest(rbuf, n) \in Seq(Bytes) /\ Len(Rest(rbuf, n)) = Len(rbuf) - n
    BY <1>1, <2>1, Split DEF StreamsOK
  <2>3. shown' \in Seq(Bytes)
    BY <1>1, <1>2, <2>2 DEF Recv, Received, StreamsOK
  <2>4. rbuf' \in Seq(Bytes) /\ Len(rbuf') <= RbufSize
    BY <1>1, <1>2, <2>1, <2>2, BufferAssumption, SMTT(40) DEF Recv, TcpRecv, StreamsOK, RestOK
  <2>5. UNCHANGED <<got, sbuf, pend, asked, aborted>> /\ pc = "recv"
    BY <1>2 DEF Recv, TcpRecv, sendVars, hostVars
  <2>6. StreamsOK'
    BY <1>1, <1>2, <2>3, <2>4, <2>5 DEF Recv, StreamsOK, keyVars, hostVars
  <2>7. RestOK'
    BY <1>1, <1>2, <2>4, <2>5 DEF Recv, RestOK, sendVars, keyVars
  <2> QED
    BY <1>1, <1>2, <2>5, <2>6, <2>7, Elsewhere, TypePartsNext DEF Inv, OneCall, Recv
<1>3. CASE HostTakes
  <2>1. PICK n \in 1..Len(sbuf) :
           /\ TcpTake(n) /\ got' = got \o SubSeq(sbuf, 1, n)
           /\ echo' = IF Echoes THEN echo \o SubSeq(sbuf, 1, n) ELSE echo
    BY <1>3 DEF HostTakes
  <2>2. UNCHANGED <<pend, tries, clientVars, keyVars>>
    BY <1>3 DEF HostTakes, sendVars
  <2>3. UNCHANGED <<asked, aborted>>
    BY <2>2 DEF clientVars
  <2>4. /\ sbuf' \in Seq(Bytes) /\ Len(sbuf') <= SbufSize /\ got' \in Seq(Bytes)
        /\ SentInOrder'
    BY <2>1, <2>2, <2>3, TakeKeepsOrder
  <2>5. SubSeq(sbuf, 1, n) \in Seq(Bytes)
    <3>1. n \in 0..Len(sbuf) /\ sbuf \in Seq(Bytes)
      BY <1>1 DEF StreamsOK
    <3> QED
      BY <3>1, Split
  <2>6. echo' \in Seq(Bytes)
    BY <1>1, <2>1, <2>5 DEF StreamsOK
  <2>7. rbuf' = rbuf
    BY <2>1 DEF TcpTake
  <2>8. StreamsOK'
    BY <1>1, <2>2, <2>4, <2>6, <2>7 DEF StreamsOK, clientVars, keyVars
  <2>9. RestOK'
    BY <1>1, <2>2, <2>4, <2>7 DEF RestOK, clientVars, keyVars
  <2> QED
    BY <1>1, <2>2, <2>4, <2>8, <2>9, TypePartsNext DEF Inv, OneCall, clientVars
<1>4. CASE HostEchoes
  <2>1. PICK n \in 1..Len(echo) :
           TcpArrive(SubSeq(echo, 1, n)) /\ echo' = Rest(echo, n)
    BY <1>4 DEF HostEchoes
  <2>2. UNCHANGED <<pend, tries, clientVars, keyVars, got>>
    BY <1>4 DEF HostEchoes, sendVars
  <2>3. n \in 0..Len(echo) /\ echo \in Seq(Bytes) /\ rbuf \in Seq(Bytes)
    BY <1>1 DEF StreamsOK
  <2>4. SubSeq(echo, 1, n) \in Seq(Bytes) /\ Rest(echo, n) \in Seq(Bytes)
    BY <2>3, Split
  <2>5. /\ rbuf' = rbuf \o SubSeq(echo, 1, n) /\ sbuf' = sbuf
        /\ Len(rbuf) + Len(SubSeq(echo, 1, n)) <= RbufSize
    BY <2>1 DEF TcpArrive
  <2>6. rbuf' \in Seq(Bytes) /\ Len(rbuf') <= RbufSize
    BY <2>3, <2>4, <2>5
  <2>7. UNCHANGED <<got, sbuf, pend, asked, aborted>>
    BY <2>2, <2>5 DEF clientVars
  <2>8. StreamsOK'
    BY <1>1, <2>1, <2>2, <2>4, <2>5, <2>6 DEF StreamsOK, clientVars, keyVars
  <2>9. RestOK'
    BY <1>1, <2>2, <2>5, <2>6 DEF RestOK, clientVars, keyVars
  <2> QED
    BY <1>1, <2>2, <2>7, <2>8, <2>9, Elsewhere, TypePartsNext DEF Inv, OneCall, clientVars
<1> QED
  BY <1>2, <1>3, <1>4

\* A key is pressed.
LEMMA PressKeepsInv == ASSUME Inv, Press PROVE Inv'
<1>1. StreamsOK /\ RestOK /\ OneCall
  BY TypeParts DEF Inv
<1>2. PICK k \in {-4 - pressed, CR} \cup {x \in {ESC} : UserAborts} :
         kbd' = Append(kbd, k) /\ typed' = Append(typed, k)
  BY DEF Press
<1>3. k \in Bytes
  <2>1. pressed \in 0..(MaxTyped - 1)
    BY <1>1, BoundAssumption DEF Press, RestOK
  <2> QED
    BY <1>2, <2>1, MadeBytes
<1>4. kbd' \in Seq(Bytes) /\ typed' \in Seq(Bytes)
  BY <1>1, <1>2, <1>3 DEF StreamsOK
<1>5. UNCHANGED <<tcpVars, sendVars, clientVars, hostVars>> /\ pressed' \in 0..MaxTyped
  BY <1>1, BoundAssumption DEF Press, RestOK
<1>6. StreamsOK' /\ RestOK' /\ OneCall'
  BY <1>1, <1>4, <1>5
  DEF StreamsOK, RestOK, OneCall, tcpVars, sendVars, clientVars, hostVars
<1>7. UNCHANGED <<got, sbuf, pend, asked, aborted>>
  BY <1>5 DEF tcpVars, sendVars, clientVars, hostVars
<1> QED
  BY <1>6, <1>7, Elsewhere, TypePartsNext DEF Inv

\* Nothing changes.
LEMMA StutterKeepsInv == ASSUME Inv, UNCHANGED vars PROVE Inv'
<1>1. StreamsOK /\ RestOK /\ OneCall
  BY TypeParts DEF Inv
<1>2. UNCHANGED <<got, sbuf, pend, asked, aborted>>
  BY DEF vars, tcpVars, sendVars, clientVars, hostVars
<1>3. StreamsOK' /\ RestOK' /\ OneCall'
  BY <1>1 DEF StreamsOK, RestOK, OneCall, vars, tcpVars, sendVars, clientVars, keyVars, hostVars
<1> QED
  BY <1>2, <1>3, Elsewhere, TypePartsNext DEF Inv

----------------------------------------------------------------------------
\* The invariant holds in every state of every run.
THEOREM InvHolds == Spec => []Inv
<1>1. Init => Inv
  BY InitInv
<1>2. Inv /\ [Next]_vars => Inv'
  <2> SUFFICES ASSUME Inv, [Next]_vars PROVE Inv'
    OBVIOUS
  <2> QED
    BY InputKeepsInv, FileKeepsInv, SendKeepsInv, OtherSideKeepsInv, PressKeepsInv,
       StutterKeepsInv, Zenon
    DEF Next, Client, User, Host, Terminated
<1> QED
  BY <1>1, <1>2, PTL DEF Spec

\* The buffers of the stack never hold more than they have room for, and fread's
\* place never passes the end of the file.
THEOREM TypeCorrect == Spec => []TypeOK
<1>1. Inv => TypeOK
  BY DEF Inv
<1> QED
  BY <1>1, InvHolds, PTL

\* However little tcp_send takes at a time, what the host has, what the stack has
\* and what send() has left are together all that send() was given, in order: a
\* telnet user's keys and a file sent (send(), line 177) lose and repeat nothing,
\* until ESC.
THEOREM SentInOrderHolds == Spec => []SentInOrder
<1>1. Inv => SentInOrder
  BY DEF Inv
<1> QED
  BY <1>1, InvHolds, PTL

----------------------------------------------------------------------------
(* Keys and the bytes of the file share one connection; each keeps its     *)
(* order.                                                                  *)

\* The first n bytes of the file.
FileFront(n) == [i \in 1..n |-> i]

\* The line and the keyboard buffer hold keys only, and the keys that have left them
\* were sent.
KeysInv == obuf \in Seq(Keys) /\ kbd \in Seq(Keys) /\ NoKeyLost

\* What input() sends: keys, and the LF behind a Return.
Sendable == (-3 - MaxTyped)..CR

\* What was sent of the file is what fread has given, and filesend is left at the end
\* of the file or by ESC.
FileInv ==
  /\ pc \in {"read", "file"} => pos >= 0 /\ ~fileDone
  /\ pos < 0 => ~fileDone
  /\ IsSelection(FileFront(IF pos < 0 THEN 0 ELSE pos), asked, FileBytes)
  /\ fileDone /\ ~aborted => pos = FileLen

\* Numbers, keys and bytes of the file.
LEMMA ByteKinds ==
  /\ Keys \subseteq Sendable /\ Sendable \subseteq Bytes /\ FileBytes \subseteq Bytes
  /\ Sendable \cap FileBytes = {} /\ LF \notin Keys /\ LF \in Sendable
  /\ CR \in Keys /\ ESC \in Keys
  /\ \A n \in 0..(MaxTyped - 1) : (-4 - n) \in Keys
  BY BoundAssumption, FileAssumption DEF CR, LF, ESC, Bytes, Keys, Sendable, FileBytes

\* A key is neither in the file nor is a byte of the file a key.
LEMMA OneKindOnly ==
  /\ \A u \in Seq(Keys) : u \in Seq(Bytes) /\ u \in Seq(Sendable)
  /\ \A u \in Seq(Sendable) : u \in Seq(Bytes) /\ \A i \in 1..Len(u) : u[i] \notin FileBytes
  /\ \A u \in Seq(FileBytes) : u \in Seq(Bytes) /\ \A i \in 1..Len(u) : u[i] \notin Keys
<1>1. ASSUME NEW u \in Seq(Sendable)
      PROVE  u \in Seq(Bytes) /\ \A i \in 1..Len(u) : u[i] \notin FileBytes
  <2>1. \A i \in 1..Len(u) : u[i] \in Sendable
    BY ElementOfSeq
  <2> QED
    BY <2>1, ByteKinds
<1>2. ASSUME NEW u \in Seq(FileBytes)
      PROVE  u \in Seq(Bytes) /\ \A i \in 1..Len(u) : u[i] \notin Keys
  <2>1. \A i \in 1..Len(u) : u[i] \in FileBytes
    BY ElementOfSeq
  <2> QED
    BY <2>1, ByteKinds
<1>3. ASSUME NEW u \in Seq(Keys)
      PROVE  u \in Seq(Bytes) /\ u \in Seq(Sendable)
  <2>1. \A i \in 1..Len(u) : u[i] \in Keys
    BY ElementOfSeq
  <2> QED
    BY <2>1, ByteKinds
<1> QED
  BY <1>1, <1>2, <1>3

\* What is in front of the keys o is what is left without them.
LEMMA GoneIs ==
  ASSUME NEW g \in Seq(Bytes), NEW o \in Seq(Bytes), NEW t, t = g \o o
  PROVE  SubSeq(t, 1, Len(t) - Len(o)) = g
<1>1. /\ t \in Seq(Bytes) /\ Len(t) = Len(g) + Len(o) /\ Len(g) \in Nat /\ Len(o) \in Nat
      /\ \A i \in 1..Len(g) : t[i] = g[i]
  OBVIOUS
<1> DEFINE f == SubSeq(t, 1, Len(g))
<1>2. f \in Seq(Bytes) /\ Len(f) = Len(g)
  BY <1>1, SubSeqProperties
<1>3. \A i \in 1..Len(g) : f[i] = t[i]
  BY <1>1
<1> HIDE DEF f
<1>4. f = g
  BY <1>1, <1>2, <1>3, SeqEqual
<1>5. Len(t) - Len(o) = Len(g)
  BY <1>1
<1> QED
  BY <1>4, <1>5 DEF f

\* Bytes in a row may be taken together in either way.
LEMMA Together ==
  ASSUME NEW g \in Seq(Bytes), NEW o \in Seq(Bytes), NEW k \in Seq(Bytes)
  PROVE  (g \o o) \o k = g \o (o \o k) /\ g \o o \in Seq(Bytes) /\ o \o k \in Seq(Bytes)
  BY SMTT(40)

Joined(g, o, k, r) == (g \o (o \o k)) \o r = g \o (o \o (k \o r))

LEMMA FourTogether ==
  ASSUME NEW g \in Seq(Bytes), NEW o \in Seq(Bytes), NEW k \in Seq(Bytes),
         NEW r \in Seq(Bytes)
  PROVE  Joined(g, o, k, r)
<1>1. (o \o k) \o r = o \o (k \o r) /\ o \o k \in Seq(Bytes)
  BY Together
<1>2. ASSUME NEW w \in Seq(Bytes)
      PROVE  (g \o w) \o r = g \o (w \o r)
  BY <1>2, SMTT(40)
<1>3. (g \o (o \o k)) \o r = g \o ((o \o k) \o r)
  BY <1>1, <1>2, Zenon
<1> QED
  BY <1>1, <1>3, Zenon DEF Joined

\* The line, the keys that wait, and what has left them.
LEMMA GoneType ==
  ASSUME Inv, KeysInv
  PROVE  /\ Gone \in Seq(Bytes) /\ obuf \in Seq(Bytes) /\ kbd \in Seq(Bytes)
         /\ asked \in Seq(Bytes)
         /\ typed = Gone \o (obuf \o kbd) /\ IsSelection(Gone, asked, Keys)
<1>1. /\ typed \in Seq(Bytes) /\ obuf \in Seq(Bytes) /\ kbd \in Seq(Bytes)
      /\ asked \in Seq(Bytes)
  BY TypeParts DEF Inv, StreamsOK
<1>2. Gone \o (obuf \o kbd) = typed /\ IsSelection(Gone, asked, Keys)
  BY Zenon DEF KeysInv, NoKeyLost, Waiting
<1>3. Gone \in Seq(Bytes)
  <2> DEFINE k == Len(typed) - Len(Waiting)
  <2>1. Waiting \in Seq(Bytes)
    BY <1>1, Together DEF Waiting
  <2>2. Len(typed) \in Nat /\ Len(Waiting) \in Nat /\ k \in Int /\ k <= Len(typed)
    BY <1>1, <2>1
  <2>3. \A i \in 1..k : typed[i] \in Bytes
    BY <1>1, <2>2, ElementOfSeq
  <2> HIDE DEF k
  <2>4. SubSeq(typed, 1, k) \in Seq(Bytes)
    BY <2>2, <2>3, SubSeqProperties
  <2> QED
    BY <2>4 DEF Gone, k
<1> QED
  BY <1>1, <1>2, <1>3

\* Keys k, the front of those that wait, may be counted with the line.
LEMMA FrontGone ==
  ASSUME Inv, KeysInv, NEW k \in Seq(Keys), NEW r \in Seq(Keys)
  PROVE  kbd = k \o r => typed = (Gone \o (obuf \o k)) \o r
<1>1. typed = Gone \o (obuf \o kbd)
  BY GoneType
<1>2. Gone \in Seq(Bytes) /\ obuf \in Seq(Bytes)
  BY GoneType
<1>3. k \in Seq(Bytes) /\ r \in Seq(Bytes)
  BY OneKindOnly
<1>4. Joined(Gone, obuf, k, r)
  BY <1>2, <1>3, FourTogether, Zenon
<1> QED
  BY <1>1, <1>4, Zenon DEF Joined

\* That the keys are accounted for follows from any such split.
LEMMA KeysHold ==
  ASSUME NEW g \in Seq(Bytes), NEW o \in Seq(Keys), NEW k \in Seq(Keys), NEW a,
         IsSelection(g, a, Keys),
         typed' = g \o (o \o k), obuf' = o, kbd' = k, asked' = a
  PROVE  KeysInv'
<1>1. o \o k \in Seq(Bytes)
  BY OneKindOnly, Together
<1> DEFINE t == g \o (o \o k)
<1>2. SubSeq(t, 1, Len(t) - Len(o \o k)) = g
  BY <1>1, GoneIs
<1>3. Gone' = g /\ Waiting' = o \o k
  BY <1>2, Zenon DEF Gone, Waiting
<1> QED
  BY <1>3, Zenon DEF KeysInv, NoKeyLost

\* Keys k are taken from those that wait, and go out behind the line as bytes d.
LEMMA KeysGoOut ==
  ASSUME Inv, KeysInv, NEW k \in Seq(Keys), NEW r \in Seq(Keys), NEW d \in Seq(Bytes),
         kbd = k \o r, IsSelection(k, d, Keys),
         typed' = typed, kbd' = r, asked' = asked \o (obuf \o d), obuf' = <<>>
  PROVE  KeysInv'
<1>1. /\ Gone \in Seq(Bytes) /\ obuf \in Seq(Bytes) /\ asked \in Seq(Bytes)
      /\ typed = Gone \o (obuf \o kbd) /\ IsSelection(Gone, asked, Keys)
  BY GoneType
<1>2. k \in Seq(Bytes) /\ r \in Seq(Bytes) /\ obuf \in Seq(Keys) /\ <<>> \in Seq(Keys)
  BY OneKindOnly DEF KeysInv
<1>4. typed = (Gone \o (obuf \o k)) \o r
  BY FrontGone, Zenon
<1> DEFINE u == obuf \o k
           v == obuf \o d
<1>5. u \in Seq(Bytes) /\ v \in Seq(Bytes) /\ IsSelection(u, v, Keys)
  <2>1. IsSelection(obuf, obuf, Keys)
    BY <1>2, SelectAll
  <2>2. IsSelection(u, v, Keys)
    BY <1>1, <1>2, <2>1, SelectConcat
  <2> QED
    BY <1>1, <1>2, <2>2, Together
<1>6. <<>> \o r = r
  BY <1>2, ConcatEmptySeq
<1>7. typed' = (Gone \o u) \o (<<>> \o r) /\ asked' = asked \o v
  BY <1>1, <1>4, <1>6, Zenon
<1> HIDE DEF u, v
<1>8. Gone \o u \in Seq(Bytes) /\ IsSelection(Gone \o u, asked \o v, Keys)
  <2>1. IsSelection(Gone \o u, asked \o v, Keys)
    BY <1>1, <1>5, SelectConcat
  <2> QED
    BY <1>1, <1>5, <2>1, Together
<1> QED
  BY <1>2, <1>7, <1>8, KeysHold, Zenon

\* Between the keys sent and those that wait: the keys o of the line and the keys k
\* that wait may become others, if the keys that count are the same.
LEMMA KeysMove ==
  ASSUME Inv, KeysInv, NEW o \in Seq(Keys), NEW k \in Seq(Keys),
         typed' = Gone \o (o \o k), obuf' = o, kbd' = k, asked' = asked
  PROVE  KeysInv'
  BY GoneType, KeysHold

\* eschit: without the key it takes, if any, the keys are what they were.
LEMMA CheckKeeps ==
  ASSUME Inv, KeysInv, eschit, UNCHANGED <<obuf, asked>>
  PROVE  KeysInv'
<1>1. /\ Gone \in Seq(Bytes) /\ obuf \in Seq(Bytes) /\ kbd \in Seq(Bytes)
      /\ typed = Gone \o (obuf \o kbd)
  BY GoneType
<1> DEFINE r == Rest(kbd, 1)
<1>2. obuf \in Seq(Keys) /\ kbd \in Seq(Keys)
  BY DEF KeysInv
<1>3. r \in Seq(Keys) /\ r \in Seq(Bytes)
  <2>1. Len(kbd) \in Nat /\ \A i \in 2..Len(kbd) : kbd[i] \in Keys
    BY <1>2, ElementOfSeq
  <2>2. SubSeq(kbd, 2, Len(kbd)) \in Seq(Keys)
    BY <2>1, SubSeqProperties
  <2>3. r \in Seq(Keys)
    BY <2>2 DEF Rest
  <2> QED
    BY <2>3, OneKindOnly
<1> HIDE DEF r
<1>4. typed = (Gone \o obuf) \o kbd /\ Gone \o obuf \in Seq(Bytes)
  BY <1>1, Together
<1>5. SubSeq(typed, 1, Len(typed) - Len(kbd)) = Gone \o obuf
  BY <1>1, <1>4, GoneIs
<1>6. typed' = Gone \o (obuf \o r) /\ kbd' = r
  <2>1. typed' = (Gone \o obuf) \o r /\ kbd' = r
    BY <1>5 DEF eschit, r
  <2> QED
    BY <1>1, <1>3, <2>1, Together
<1> QED
  BY <1>2, <1>3, <1>6, KeysMove

\* A key is pressed.
LEMMA PressKeeps ==
  ASSUME Inv, KeysInv, Press
  PROVE  KeysInv'
<1>1. /\ Gone \in Seq(Bytes) /\ obuf \in Seq(Bytes) /\ kbd \in Seq(Bytes)
      /\ typed = Gone \o (obuf \o kbd)
  BY GoneType
<1>2. PICK k \in {-4 - pressed, CR} \cup {x \in {ESC} : UserAborts} :
         kbd' = Append(kbd, k) /\ typed' = Append(typed, k)
  BY DEF Press
<1>3. k \in Keys /\ k \in Bytes
  <2>1. pressed \in 0..MaxTyped
    BY Zenon DEF Inv, TypeOK
  <2>2. pressed \in 0..(MaxTyped - 1)
    BY <2>1, BoundAssumption DEF Press
  <2> QED
    BY <1>2, <2>2, ByteKinds
<1>4. Append(Gone \o (obuf \o kbd), k) = Gone \o (obuf \o Append(kbd, k))
  <2>1. ASSUME NEW g \in Seq(Bytes), NEW o \in Seq(Bytes), NEW x \in Bytes
        PROVE  Append(g \o o, x) = g \o Append(o, x)
    OBVIOUS
  <2>2. obuf \o kbd \in Seq(Bytes)
    BY <1>1, Together
  <2>3. Append(Gone \o (obuf \o kbd), k) = Gone \o Append(obuf \o kbd, k)
    BY <1>1, <1>3, <2>1, <2>2
  <2>4. Append(obuf \o kbd, k) = obuf \o Append(kbd, k)
    BY <1>1, <1>3, <2>1
  <2> QED
    BY <2>3, <2>4, Zenon
<1>5. obuf \in Seq(Keys) /\ Append(kbd, k) \in Seq(Keys)
  BY <1>3 DEF KeysInv
<1>6. UNCHANGED <<obuf, asked>>
  BY DEF Press, clientVars
<1> QED
  BY <1>1, <1>2, <1>4, <1>5, <1>6, KeysMove

\* Bytes without keys go out: the line and what was typed stay.
LEMMA KeysStay ==
  ASSUME Inv, KeysInv, NEW d \in Seq(FileBytes), asked' = asked \o d,
         UNCHANGED <<typed, obuf, kbd>>
  PROVE  KeysInv'
<1>1. /\ Gone \in Seq(Bytes) /\ asked \in Seq(Bytes)
      /\ typed = Gone \o (obuf \o kbd) /\ IsSelection(Gone, asked, Keys)
  BY GoneType
<1>2. d \in Seq(Bytes) /\ IsSelection(<<>>, d, Keys)
  BY OneKindOnly, SelectNone
<1>3. <<>> \in Seq(Bytes) /\ Gone \o <<>> = Gone
  BY <1>1, ConcatEmptySeq
<1>4. IsSelection(Gone, asked \o d, Keys)
  <2>1. IsSelection(Gone \o <<>>, asked \o d, Keys)
    BY <1>1, <1>2, <1>3, SelectConcat
  <2> QED
    BY <1>3, <2>1
<1>5. obuf \in Seq(Keys) /\ kbd \in Seq(Keys)
  BY DEF KeysInv
<1> QED
  BY <1>1, <1>4, <1>5, KeysHold, Zenon

\* The front of the file and the block behind it are the front of the file.
LEMMA FrontGrows ==
  ASSUME NEW n \in Nat, NEW k \in Nat
  PROVE  FileFront(n) \o [i \in 1..k |-> n + i] = FileFront(n + k)
<1> DEFINE f == FileFront(n)
           b == [i \in 1..k |-> n + i]
           w == FileFront(n + k)
<1>1. /\ f \in Seq(Nat) /\ Len(f) = n /\ \A i \in 1..n : f[i] = i
      /\ b \in Seq(Nat) /\ Len(b) = k /\ \A i \in 1..k : b[i] = n + i
      /\ w \in Seq(Nat) /\ Len(w) = n + k /\ \A i \in 1..(n + k) : w[i] = i
  BY DEF FileFront
<1> HIDE DEF f, b, w
<1>2. f \o b \in Seq(Nat) /\ Len(f \o b) = n + k
  BY <1>1
<1>3. ASSUME NEW i \in 1..(n + k)
      PROVE  (f \o b)[i] = w[i]
  <2>1. CASE i <= n
    BY <1>1, <2>1
  <2>2. CASE i > n
    <3>1. i - n \in 1..k /\ n + (i - n) = i
      BY <2>2
    <3>2. (f \o b)[i] = b[i - n]
      BY <1>1, <2>2
    <3> QED
      BY <1>1, <3>1, <3>2
  <2>3. i <= n \/ i > n
    OBVIOUS
  <2> QED
    BY <2>1, <2>2, <2>3
<1>4. f \o b = w
  BY <1>1, <1>2, <1>3, SeqEqual
<1> QED
  BY <1>4 DEF f, b, w

\* A line goes out: the bytes sent of the file stay.
LEMMA FileStays ==
  ASSUME Inv, FileInv, NEW k \in Seq(Sendable), asked' = asked \o k,
         UNCHANGED <<pos, fileDone, aborted>>, pc' \notin {"read", "file"}
  PROVE  FileInv'
<1> DEFINE f == FileFront(IF pos < 0 THEN 0 ELSE pos)
<1>1. asked \in Seq(Bytes) /\ pos \in Int
  BY FileAssumption, TypeParts DEF Inv, StreamsOK, RestOK
<1>2. f \in Seq(Int)
  BY <1>1 DEF FileFront
<1>3. k \in Seq(Int) /\ asked \in Seq(Int) /\ IsSelection(<<>>, k, FileBytes)
  <2>1. k \in Seq(Bytes) /\ Bytes \subseteq Int
    BY OneKindOnly DEF Bytes
  <2>2. IsSelection(<<>>, k, FileBytes)
    BY OneKindOnly, SelectNone
  <2>3. k \in Seq(Int) /\ asked \in Seq(Int)
    BY <1>1, <2>1, Widen
  <2> QED
    BY <2>2, <2>3
<1>4. IsSelection(f, asked, FileBytes)
  BY DEF FileInv
<1> HIDE DEF f
<1>5. <<>> \in Seq(Int) /\ f \o <<>> = f
  BY <1>2, ConcatEmptySeq
<1>6. IsSelection(f \o <<>>, asked \o k, FileBytes)
  BY <1>2, <1>3, <1>4, <1>5, SelectConcat
<1>7. IsSelection(f, asked', FileBytes)
  BY <1>5, <1>6
<1> QED
  BY <1>7 DEF FileInv, f

\* Steps that send nothing and take no key.
LEMMA NothingSent ==
  ASSUME KeysInv, FileInv, UNCHANGED <<typed, kbd, obuf, asked, pos, fileDone>>,
         pc' \in {"read", "file"} => pc \in {"read", "file"},
         aborted => aborted'
  PROVE  KeysInv' /\ FileInv'
  BY Zenon DEF KeysInv, NoKeyLost, Gone, Waiting, FileInv

\* Steps that concern neither what was sent of the file nor filesend.
LEMMA FileUntouched ==
  ASSUME FileInv, UNCHANGED <<asked, pos, fileDone>>,
         pc' \in {"read", "file"} => pc \in {"read", "file"},
         aborted => aborted'
  PROVE  FileInv'
  BY Zenon DEF FileInv

\* Every step keeps both.
LEMMA StepKeepsBoth ==
  ASSUME Inv, KeysInv, FileInv, [Next]_vars
  PROVE  KeysInv' /\ FileInv'
<1>1. StreamsOK /\ RestOK
  BY TypeParts DEF Inv
<1>2. obuf \in Seq(Keys) /\ kbd \in Seq(Keys) /\ <<>> \in Seq(Keys)
  BY DEF KeysInv
<1>3. ASSUME NEW k \in Seq(Keys), NEW r \in Seq(Keys), NEW d \in Seq(Sendable),
             kbd = k \o r, IsSelection(k, d, Keys),
             typed' = typed, kbd' = r, asked' = asked \o (obuf \o d), obuf' = <<>>,
             UNCHANGED <<pos, fileDone, aborted>>, pc' = "key"
      PROVE  KeysInv' /\ FileInv'
  <2>1. d \in Seq(Bytes) /\ obuf \o d \in Seq(Sendable)
    BY <1>2, OneKindOnly
  <2> QED
    BY <1>3, <2>1, KeysGoOut, FileStays
<1> DEFINE h == Head(kbd)
           r == Tail(kbd)
<1>4. ASSUME KeyTaken
      PROVE  /\ h \in Keys /\ r \in Seq(Keys) /\ kbd = <<h>> \o r /\ <<h>> \in Seq(Keys)
             /\ kbd' = r /\ typed' = typed
  <2>1. kbd # <<>> /\ kbd' = r /\ typed' = typed
    BY <1>4 DEF KeyTaken
  <2>2. h \in Keys /\ r \in Seq(Keys) /\ <<h>> \in Seq(Keys)
    BY <1>2, <2>1
  <2>3. kbd = <<h>> \o r
    <3>1. ASSUME NEW q \in Seq(Keys), q # <<>>
          PROVE  q = <<Head(q)>> \o Tail(q)
      BY <3>1, SMTT(40)
    <3> QED
      BY <1>2, <2>1, <3>1
  <2> QED
    BY <2>1, <2>2, <2>3
<1> HIDE DEF h, r
<1>5. CASE Type
  <2>1. /\ h \in Keys /\ r \in Seq(Keys) /\ kbd = <<h>> \o r /\ <<h>> \in Seq(Keys)
        /\ kbd' = r /\ typed' = typed /\ UNCHANGED <<pos, fileDone, aborted>>
    BY <1>4, <1>5 DEF Type
  <2>2. CASE swLine
    <3>1. obuf' = Append(obuf, h) /\ pc' = "recv" /\ UNCHANGED asked
      BY <1>5, <2>2 DEF Type, h
    <3>2. FileInv'
      BY <2>1, <3>1, FileUntouched
    <3>3. Gone \in Seq(Bytes) /\ typed = Gone \o (obuf \o kbd)
      BY GoneType
    <3>4. Append(obuf, h) = obuf \o <<h>> /\ obuf \o <<h>> \in Seq(Keys)
      BY <1>2, <2>1
    <3>5. obuf \o kbd = (obuf \o <<h>>) \o r
      <4>1. obuf \in Seq(Bytes) /\ <<h>> \in Seq(Bytes) /\ r \in Seq(Bytes)
        BY <1>2, <2>1, OneKindOnly
      <4> QED
        BY <2>1, <4>1, Together
    <3>6. KeysInv'
      BY <2>1, <3>1, <3>3, <3>4, <3>5, KeysMove
    <3> QED
      BY <3>2, <3>6
  <2>3. CASE ~swLine
    <3>1. Calls(Append(obuf, h)) /\ obuf' = <<>> /\ pc' = "key"
      BY <1>5, <2>3 DEF Type, LineSent, h
    <3>2. asked' = asked \o (obuf \o <<h>>)
      <4>1. Append(obuf, h) = obuf \o <<h>>
        BY <1>2, <2>1
      <4> QED
        BY <3>1, <4>1 DEF Calls
    <3>3. <<h>> \in Seq(Sendable) /\ IsSelection(<<h>>, <<h>>, Keys)
      BY <2>1, OneKindOnly, SelectAll
    <3> QED
      BY <1>3, <2>1, <3>1, <3>2, <3>3
  <2> QED
    BY <2>2, <2>3
<1>6. CASE Return
  <2>1. /\ r \in Seq(Keys) /\ kbd = <<h>> \o r /\ h = CR
        /\ kbd' = r /\ typed' = typed /\ UNCHANGED <<pos, fileDone, aborted>>
    BY <1>4, <1>6 DEF Return, h
  <2>2. asked' = asked \o (obuf \o <<CR, LF>>) /\ obuf' = <<>> /\ pc' = "key"
    BY <1>6 DEF Return, Calls, LineSent
  <2>3. <<CR>> \in Seq(Keys) /\ <<CR, LF>> \in Seq(Sendable) /\ <<LF>> \in Seq(Sendable)
    BY ByteKinds
  <2>4. IsSelection(<<CR>>, <<CR, LF>>, Keys)
    <3>1. IsSelection(<<CR>>, <<CR>>, Keys)
      BY <2>3, SelectAll
    <3>2. IsSelection(<<>>, <<LF>>, Keys)
      <4>1. <<LF>> \in Seq({LF}) /\ LF \notin Keys
        BY ByteKinds
      <4>2. \A i \in 1..Len(<<LF>>) : <<LF>>[i] \in {LF}
        BY <4>1, ElementOfSeq, Zenon
      <4>3. \A i \in 1..Len(<<LF>>) : <<LF>>[i] \notin Keys
        BY <4>1, <4>2, Zenon
      <4> QED
        BY <2>3, <4>3, SelectNone
    <3>3. <<CR>> \o <<>> = <<CR>> /\ <<CR>> \o <<LF>> = <<CR, LF>>
      <4>1. ASSUME NEW x \in Bytes, NEW y \in Bytes
            PROVE  <<x>> \o <<y>> = <<x, y>>
        <5>1. <<x>> \in Seq(Bytes) /\ <<y>> \in Seq(Bytes) /\ <<x, y>> \in Seq(Bytes)
          BY <4>1
        <5>2. Len(<<x>>) = 1 /\ Len(<<y>>) = 1 /\ Len(<<x, y>>) = 2
          OBVIOUS
        <5>3. <<x>>[1] = x /\ <<y>>[1] = y /\ <<x, y>>[1] = x /\ <<x, y>>[2] = y
          OBVIOUS
        <5>4. Append(<<x>>, y) = <<x, y>>
          <6>1. /\ Append(<<x>>, y) \in Seq(Bytes) /\ Len(Append(<<x>>, y)) = 2
                /\ Append(<<x>>, y)[1] = x /\ Append(<<x>>, y)[2] = y
            BY <4>1, <5>1, <5>2, <5>3, AppendProperties
          <6>2. \A i \in 1..2 : Append(<<x>>, y)[i] = <<x, y>>[i]
            BY <5>3, <6>1
          <6> QED
            BY <5>1, <5>2, <6>1, <6>2, SeqEqual
        <5> QED
          BY <4>1, <5>1, <5>4, AppendIsConcat, Zenon
      <4>2. <<CR>> \o <<LF>> = <<CR, LF>>
        BY <4>1, MadeBytes
      <4>3. <<CR>> \o <<>> = <<CR>>
        BY <2>3, ConcatEmptySeq
      <4> QED
        BY <4>2, <4>3
    <3>4. <<CR>> \in Seq(Sendable) /\ <<>> \in Seq(Sendable)
      BY <2>3, OneKindOnly
    <3>5. IsSelection(<<CR>> \o <<>>, <<CR>> \o <<LF>>, Keys)
      BY <2>3, <3>1, <3>2, <3>4, SelectConcat
    <3> QED
      BY <3>3, <3>5
  <2> QED
    BY <1>3, <2>1, <2>2, <2>3, <2>4
<1>7. CASE SendNow
  <2>1. CASE swLine /\ obuf # <<>>
    <3>1. <<>> \o kbd = kbd /\ obuf \o <<>> = obuf /\ <<>> \in Seq(Sendable)
      BY <1>2, ConcatEmptySeq
    <3>2. /\ asked' = asked \o (obuf \o <<>>) /\ obuf' = <<>> /\ pc' = "key"
          /\ UNCHANGED <<typed, kbd, pos, fileDone, aborted>>
      BY <1>7, <2>1, <3>1 DEF SendNow, Calls, LineSent, keyVars
    <3>3. IsSelection(<<>>, <<>>, Keys)
      BY <1>2, SelectAll
    <3> QED
      BY <1>2, <1>3, <3>1, <3>2, <3>3
  <2>2. CASE ~(swLine /\ obuf # <<>>)
    BY <1>7, <2>2, NothingSent DEF SendNow, keyVars
  <2> QED
    BY <2>1, <2>2
<1>14. CASE FileOpen
  <2>1. pos = -1 /\ pos' = 0 /\ UNCHANGED <<typed, kbd, obuf, asked, fileDone>>
    BY <1>14 DEF FileOpen, keyVars
  <2>2. KeysInv'
    BY <2>1, Zenon DEF KeysInv, NoKeyLost, Gone, Waiting
  <2> QED
    BY <2>1, <2>2 DEF FileInv
<1>8. CASE FileRead
  <2>1. /\ pc = "read" /\ pos \in 0..FileLen /\ ~fileDone
        /\ UNCHANGED <<typed, kbd, obuf, aborted>>
    BY <1>1, <1>8, FileAssumption DEF FileRead, FileInv, RestOK, keyVars
  <2>2. CASE AtEnd
    <3>1. UNCHANGED <<pos, asked>> /\ pc' = "recv" /\ fileDone' = TRUE
      BY <1>8, <2>2 DEF FileRead
    <3>2. pos = FileLen
      BY <2>1, <2>2, FileAssumption DEF AtEnd, Chunk, Least
    <3>3. KeysInv'
      BY <2>1, <3>1, Zenon DEF KeysInv, NoKeyLost, Gone, Waiting
    <3> QED
      BY <2>1, <3>1, <3>2, <3>3, FileAssumption DEF FileInv
  <2>3. CASE ~AtEnd
    <3> DEFINE data == [i \in 1..Chunk |-> pos + i]
    <3>1. Chunk \in Nat /\ pos \in Nat /\ pos + Chunk \in 0..FileLen
      BY <2>1, FileAssumption DEF Chunk, Least
    <3>2. \A i \in 1..Chunk : pos + i \in FileBytes
      BY <3>1, FileAssumption DEF FileBytes
    <3>3. data \in Seq(FileBytes)
      BY <3>1, <3>2
    <3>4. asked' = asked \o data /\ pos' = pos + Chunk /\ UNCHANGED fileDone
      BY <1>8, <2>3 DEF FileRead, Calls
    <3>5. FileFront(pos) \o data = FileFront(pos + Chunk)
      BY <3>1, FrontGrows
    <3> HIDE DEF data
    <3>6. KeysInv'
      BY <2>1, <3>3, <3>4, KeysStay
    <3>7. IsSelection(FileFront(pos) \o data, asked \o data, FileBytes)
      <4>1. IsSelection(data, data, FileBytes) /\ data \in Seq(Int)
        <5>1. FileBytes \subseteq Int
          BY DEF FileBytes
        <5> QED
          BY <3>3, <5>1, SelectAll, Widen
      <4>2. FileFront(pos) \in Seq(Int)
        BY <3>1 DEF FileFront
      <4>3. asked \in Seq(Int)
        <5>1. Bytes \subseteq Int /\ asked \in Seq(Bytes)
          BY <1>1 DEF Bytes, StreamsOK
        <5> QED
          BY <5>1, Widen
      <4>4. IsSelection(FileFront(pos), asked, FileBytes)
        BY <2>1 DEF FileInv
      <4> QED
        BY <4>1, <4>2, <4>3, <4>4, SelectConcat
    <3>8. ~(pos' < 0) /\ pos' >= 0
      BY <3>1, <3>4
    <3>9. FileInv'
      BY <2>1, <3>4, <3>5, <3>7, <3>8, Zenon DEF FileInv
    <3> QED
      BY <3>6, <3>9
  <2> QED
    BY <2>2, <2>3
<1>9. CASE FileEscape
  <2>1. /\ pc = "file" /\ aborted' /\ UNCHANGED <<obuf, asked, pos>>
        /\ pc' = "recv" /\ eschit
    BY <1>9 DEF FileEscape, EscapeHit
  <2>2. pos >= 0
    BY <2>1 DEF FileInv
  <2>3. KeysInv'
    BY <2>1, CheckKeeps
  <2>4. ~(pos < 0)
    BY <1>1, <2>2, FileAssumption DEF RestOK
  <2> QED
    BY <2>1, <2>3, <2>4, Zenon DEF FileInv
<1>10. CASE SendPass \/ SendGivesUp \/ FileGoesOn
  <2>1. /\ UNCHANGED <<obuf, asked, pos, fileDone>>
        /\ pc' \in {"read", "file"} => pc \in {"read", "file"}
    BY <1>10 DEF SendPass, SendGivesUp, FileGoesOn, clientVars
  <2>2. aborted => aborted'
    <3>1. aborted' = aborted \/ aborted' = (aborted \/ Unsent(Room) # <<>>)
      BY <1>10 DEF SendPass, SendGivesUp, FileGoesOn, clientVars
    <3> QED
      BY <3>1, Zenon
  <2>3. FileInv'
    BY <2>1, <2>2, FileUntouched
  <2>4. CASE eschit
    BY <2>1, <2>3, <2>4, CheckKeeps
  <2>5. CASE UNCHANGED keyVars
    BY <2>1, <2>2, <2>5, NothingSent DEF keyVars
  <2> QED
    BY <1>10, <2>4, <2>5, Zenon
    DEF SendPass, SendGivesUp, FileGoesOn, NoEscape, EscapeHit
<1>11. CASE NoKey \/ SwitchLine \/ Quit \/ Recv \/ KeySent
  BY <1>11, NothingSent DEF NoKey, SwitchLine, Quit, Recv, KeySent, keyVars
<1>12. CASE Host \/ UNCHANGED vars
  BY <1>12, NothingSent DEF Host, HostTakes, HostEchoes, clientVars, keyVars, vars
<1>13. CASE Press
  <2>1. UNCHANGED clientVars
    BY <1>13 DEF Press
  <2>2. FileInv'
    BY <2>1, FileUntouched DEF clientVars
  <2> QED
    BY <1>13, <2>2, PressKeeps
<1> QED
  BY <1>5, <1>6, <1>7, <1>8, <1>9, <1>10, <1>11, <1>12, <1>13, <1>14, Zenon
  DEF Next, Client, User, Terminated

\* Nothing is typed, and nothing sent, when mainloop is entered.
LEMMA InitBoth == ASSUME Init PROVE KeysInv /\ FileInv
<1>1. /\ typed = <<>> /\ kbd = <<>> /\ obuf = <<>> /\ asked = <<>> /\ pos = -1
      /\ ~fileDone /\ pc = "input"
  BY DEF Init
<1>2. <<>> \in Seq(Bytes) /\ <<>> \in Seq(Keys) /\ <<>> \o <<>> = <<>>
  <2>1. <<>> \in Seq(Bytes) /\ <<>> \in Seq(Keys)
    OBVIOUS
  <2> QED
    BY <2>1, ConcatEmptySeq
<1>3. SubSeq(<<>>, 1, Len(<<>>) - Len(<<>>)) = <<>>
  BY <1>2, GoneIs
<1>4. \A S : IsSelection(<<>>, <<>>, S)
  <2> TAKE S
  <2>1. <<>> \in Seq(S)
    OBVIOUS
  <2> QED
    BY <2>1, SelectAll
<1>5. Gone = <<>> /\ Waiting = <<>>
  BY <1>1, <1>2, <1>3, Zenon DEF Gone, Waiting
<1>6. KeysInv
  BY <1>1, <1>2, <1>4, <1>5, Zenon DEF KeysInv, NoKeyLost
<1>7. FileFront(0) = <<>>
  BY DEF FileFront
<1> QED
  BY <1>1, <1>4, <1>6, <1>7 DEF FileInv

\* Both hold in every state of every run.
THEOREM BothHold == Spec => [](KeysInv /\ FileInv)
<1>1. Init => KeysInv /\ FileInv
  BY InitBoth
<1>2. Inv /\ (KeysInv /\ FileInv) /\ [Next]_vars => (KeysInv /\ FileInv)'
  BY StepKeepsBoth
<1> QED
  BY <1>1, <1>2, InvHolds, PTL DEF Spec

\* Whatever is switched between keys and lines, and whenever a file is sent or a line
\* is sent early, each key that was pressed, at any time, is sent, is in the line or
\* waits, in order and once, unless a look for ESC has taken it (input(), line 399,
\* and eschit(), line 125).
THEOREM NoKeyLostHolds == Spec => []NoKeyLost
<1>1. KeysInv /\ FileInv => NoKeyLost
  BY DEF KeysInv
<1> QED
  BY <1>1, BothHold, PTL

\* A file that ends without ESC was handed to send() whole, each byte once and in order,
\* also when it is not a multiple of the block (filesend(), line 222).
THEOREM FileSentWholeHolds == Spec => []FileSentWhole
<1>1. Inv /\ (KeysInv /\ FileInv) => FileSentWhole
  <2> SUFFICES ASSUME FileInv, fileDone, ~aborted
               PROVE  IsSelection([i \in FileBytes |-> i], asked, FileBytes)
    BY DEF FileSentWhole
  <2>1. pos = FileLen /\ ~(pos < 0)
    BY FileAssumption DEF FileInv
  <2> QED
    BY <2>1, Zenon DEF FileInv, FileFront, FileBytes
<1> QED
  BY <1>1, InvHolds, BothHold, PTL
=============================================================================
