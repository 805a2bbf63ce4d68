--------------------------- MODULE GaToolsProofs ---------------------------
(***************************************************************************)
(* Theorems about the picture programs, one part for each.                 *)
(***************************************************************************)
EXTENDS GaTools, StreamLemmas

----------------------------------------------------------------------------
(* freadline(): the lines come one after another.                          *)

\* The file and its buffer.
RdType ==
  [len : Nat, at : Nat, fp : Nat, remain : Nat, idx : Nat, ret : Nat,
   buff : [0 .. BuffSize - 1 -> Int]]

\* What is read at once when a line has s bytes.
Room(s) == (BuffSize \div s) * s

Multiple(m, s) == \E j \in Nat : m = j * s

\* The bytes from p on, as far as the file has them, are in the buffer b from i on.
HasBytes(b, i, p, n, len) == \A k \in 0 .. n - 1 : p + k < len => b[i + k] = p + k

\* How far the file is read, when what comes next is at p.
ReadSoFar(r, p) ==
  IF p + r.remain <= r.len THEN r.at = p + r.remain ELSE r.at >= r.len

\* The next line is at p: what is left in the buffer begins there, and the
\* file is read to where that ends.
Reader(r, s, p) ==
  /\ r \in RdType
  /\ Multiple(r.remain, s)
  /\ ReadSoFar(r, p)
  /\ r.remain > 0 => r.fp + r.remain = Room(s)
  /\ r.remain > 0 => HasBytes(r.buff, r.fp, p, r.remain, r.len)

\* The line just read is the one at p.
LineRead(r, s, p) ==
  /\ r.idx + s <= BuffSize
  /\ HasBytes(r.buff, r.idx, p, s, r.len)

\* What is in the buffer goes less than lim bytes beyond the file.
Within(r, p, lim) == p + r.remain - r.len < lim

\* Taking one line off a number of whole lines leaves whole lines.
LEMMA MultipleLess ==
  ASSUME NEW s \in Nat \ {0}, NEW m, Multiple(m, s)
  PROVE  /\ m \in Nat
         /\ m < s => m = 0
         /\ m >= s => Multiple(m - s, s)
<1>1. PICK j \in Nat : m = j * s
  BY DEF Multiple
<1>2. m \in Nat
  BY <1>1
<1>3. ASSUME j > 0 PROVE m >= s /\ Multiple(m - s, s)
  <2>1. j - 1 \in Nat /\ m = (j - 1) * s + s
    BY <1>1, <1>3
  <2>2. (j - 1) * s \in Nat
    BY <2>1
  <2> DEFINE q == (j - 1) * s
  <2>3. q \in Nat /\ m = q + s /\ q = (j - 1) * s
    BY <2>1, <2>2
  <2> HIDE DEF q
  <2>4. m >= s /\ m - s = q
    BY <2>3
  <2> QED
    BY <2>1, <2>3, <2>4 DEF Multiple
<1>4. j = 0 => m = 0
  BY <1>1
<1> QED
  BY <1>2, <1>3, <1>4 DEF Multiple

\* A buffer has room for one line at least, and for whole ones.
LEMMA RoomFits ==
  ASSUME NEW s \in 1 .. BuffSize
  PROVE  /\ Room(s) \in s .. BuffSize
         /\ Multiple(Room(s), s)
<1>0. BuffSize \in Nat
  BY GaAssumption
<1> DEFINE q == BuffSize \div s
<1>1. q \in Nat /\ q >= 1 /\ BuffSize - q * s >= 0 /\ q * s \in Nat
  BY <1>0
<1>2. q * s >= s
  BY <1>1
<1> QED
  BY <1>0, <1>1, <1>2 DEF Room, Multiple

\* read() of n bytes to the start of the buffer, when what was read is at q.
LEMMA ReadToFills ==
  ASSUME NEW r \in RdType, NEW n \in 0 .. BuffSize, NEW q \in Nat,
         IF q <= r.len THEN r.at = q ELSE r.at >= r.len
  PROVE  LET t == ReadTo(r, n)
         IN  /\ t \in RdType
             /\ t.len = r.len /\ t.fp = r.fp /\ t.remain = r.remain /\ t.idx = r.idx
             /\ IF q + n <= t.len THEN t.at = q + n ELSE t.at >= t.len
             /\ HasBytes(t.buff, 0, q, n, t.len)
             /\ n > 0 => (t.ret = 0 <=> q >= t.len)
<1>0. BuffSize \in Nat
  BY GaAssumption
<1> DEFINE got == IF r.at > r.len THEN 0 ELSE Least(n, r.len - r.at)
           b == [k \in DOMAIN r.buff |-> IF k < got THEN r.at + k ELSE r.buff[k]]
           t == [r EXCEPT !.at = @ + got, !.ret = got, !.buff = b]
<1>1. t = ReadTo(r, n)
  BY DEF ReadTo
<1>2. /\ r.len \in Nat /\ r.at \in Nat /\ DOMAIN r.buff = 0 .. BuffSize - 1
      /\ \A k \in 0 .. BuffSize - 1 : r.buff[k] \in Int
  BY DEF RdType
<1>3. got \in 0 .. n /\ (r.at <= r.len => r.at + got <= r.len)
  BY <1>2 DEF Least
<1>4. b \in [0 .. BuffSize - 1 -> Int]
  BY <1>2, <1>3
<1>5. r.at + got \in Nat /\ got \in Nat
  BY <1>2, <1>3
<1>6. t \in RdType /\ t.len = r.len /\ t.fp = r.fp /\ t.remain = r.remain /\ t.idx = r.idx
      /\ t.at = r.at + got /\ t.ret = got /\ t.buff = b
  <2> HIDE DEF got, b
  <2> QED
    BY <1>4, <1>5 DEF RdType
<1>7. IF q + n <= r.len THEN r.at + got = q + n ELSE r.at + got >= r.len
  BY <1>2, <1>3 DEF Least
<1>8. n > 0 => (got = 0 <=> q >= r.len)
  BY <1>2 DEF Least
<1>9. HasBytes(b, 0, q, n, r.len)
  <2> SUFFICES ASSUME NEW k \in 0 .. n - 1, q + k < r.len
               PROVE  b[0 + k] = q + k
    BY DEF HasBytes
  <2>1. r.at = q /\ k < got /\ k \in 0 .. BuffSize - 1
    BY <1>0, <1>2 DEF Least
  <2>2. b[k] = r.at + k
    BY <1>2, <2>1
  <2>3. 0 + k = k
    OBVIOUS
  <2> QED
    BY <2>1, <2>2, <2>3
<1> HIDE DEF got, b, t
<1> QED
  BY <1>1, <1>6, <1>7, <1>8, <1>9

\* A line of the file, or less when it ends, is given at every call; what
\* comes back is nothing only when the line begins behind the end.
LEMMA FreadLineGives ==
  ASSUME NEW r, NEW s \in 1 .. BuffSize, NEW p \in Nat, Reader(r, s, p)
  PROVE  LET t == FreadLine(r, s)
         IN  /\ Reader(t, s, p + s)
             /\ LineRead(t, s, p)
             /\ t.len = r.len
             /\ t.ret = 0 => p >= r.len
             /\ r.remain = 0 /\ p >= r.len => t.ret = 0
             /\ t.remain = (IF r.remain = 0 THEN Room(s) ELSE r.remain) - s
<1>0. BuffSize \in Nat /\ r \in RdType /\ s \in Nat \ {0}
  BY GaAssumption DEF Reader
<1>1. Room(s) \in s .. BuffSize /\ Multiple(Room(s), s)
  BY RoomFits
<1>2. r.remain \in Nat /\ Multiple(r.remain, s)
  BY <1>0 DEF RdType, Reader
<1>3. r.remain < s <=> r.remain = 0
  BY <1>0, <1>2, MultipleLess
<1> DEFINE full == IF r.remain < s
                   THEN [ReadTo(r, Room(s)) EXCEPT !.fp = 0, !.remain = Room(s)]
                   ELSE [r EXCEPT !.ret = s]
           t == [full EXCEPT !.idx = full.fp, !.fp = @ + s, !.remain = @ - s]
<1>4. FreadLine(r, s) = t
  BY DEF FreadLine, Room
<1>5. /\ Reader(full, s, p) /\ full.remain >= s /\ full.len = r.len
      /\ full.fp + full.remain = Room(s) /\ HasBytes(full.buff, full.fp, p, full.remain, r.len)
      /\ full.ret = 0 => p >= r.len
      /\ r.remain = 0 /\ p >= r.len => full.ret = 0
      /\ full.remain = IF r.remain = 0 THEN Room(s) ELSE r.remain
  <2>1. CASE r.remain = 0
    <3> DEFINE u == ReadTo(r, Room(s))
    <3>1. IF p <= r.len THEN r.at = p ELSE r.at >= r.len
      BY <2>1, <1>2 DEF Reader, ReadSoFar
    <3>2. /\ u \in RdType /\ u.len = r.len
          /\ IF p + Room(s) <= u.len THEN u.at = p + Room(s) ELSE u.at >= u.len
          /\ HasBytes(u.buff, 0, p, Room(s), u.len)
          /\ u.ret = 0 <=> p >= u.len
      BY <1>0, <1>1, <3>1, ReadToFills
    <3>3. full = [u EXCEPT !.fp = 0, !.remain = Room(s)]
      BY <1>3, <2>1
    <3> HIDE DEF u, full
    <3>4. Room(s) \in Nat /\ Room(s) > 0 /\ 0 + Room(s) = Room(s) /\ Room(s) >= s
      BY <1>0, <1>1
    <3>5. /\ full \in RdType /\ full.len = r.len /\ full.at = u.at /\ full.ret = u.ret
          /\ full.buff = u.buff /\ full.fp = 0 /\ full.remain = Room(s)
      BY <3>2, <3>3, <3>4 DEF RdType
    <3>6. ReadSoFar(full, p)
      BY <3>2, <3>5 DEF ReadSoFar
    <3>7. HasBytes(full.buff, full.fp, p, full.remain, full.len)
      BY <3>2, <3>5
    <3>8. Reader(full, s, p)
      BY <1>1, <3>4, <3>5, <3>6, <3>7 DEF Reader
    <3> QED
      BY <2>1, <3>2, <3>4, <3>5, <3>7, <3>8
  <2>2. CASE r.remain # 0
    <3>1. r.remain > 0 /\ r.remain >= s /\ full = [r EXCEPT !.ret = s]
      BY <1>2, <1>3, <2>2
    <3> HIDE DEF full
    <3>2. /\ full \in RdType /\ full.len = r.len /\ full.at = r.at /\ full.ret = s
          /\ full.buff = r.buff /\ full.fp = r.fp /\ full.remain = r.remain
      BY <1>0, <3>1 DEF RdType
    <3>3. /\ ReadSoFar(r, p) /\ r.fp + r.remain = Room(s)
          /\ HasBytes(r.buff, r.fp, p, r.remain, r.len)
      BY <3>1 DEF Reader
    <3>4. ReadSoFar(full, p)
      BY <3>2, <3>3 DEF ReadSoFar
    <3>5. Reader(full, s, p)
      BY <1>2, <3>2, <3>3, <3>4 DEF Reader
    <3> QED
      BY <1>0, <2>2, <3>1, <3>2, <3>3, <3>5
  <2> QED
    BY <2>1, <2>2
<1> HIDE DEF full
<1>6. full \in RdType /\ ReadSoFar(full, p) /\ Multiple(full.remain, s)
  BY <1>5 DEF Reader
<1>7. full.remain \in Nat /\ full.fp \in Nat /\ full.at \in Nat /\ full.len \in Nat
  BY <1>6 DEF RdType
<1>8. full.remain - s \in Nat /\ full.fp + s \in Nat
  BY <1>0, <1>5, <1>7
<1>9. /\ t \in RdType /\ t.len = full.len /\ t.at = full.at /\ t.ret = full.ret
      /\ t.buff = full.buff /\ t.idx = full.fp /\ t.fp = full.fp + s
      /\ t.remain = full.remain - s
  BY <1>6, <1>7, <1>8 DEF RdType
<1> HIDE DEF t
<1>10. Multiple(t.remain, s)
  BY <1>0, <1>5, <1>6, <1>9, MultipleLess
<1>11. ReadSoFar(t, p + s)
  <2>1. (p + s) + (full.remain - s) = p + full.remain
    BY <1>0, <1>7
  <2> QED
    BY <1>6, <1>9, <2>1 DEF ReadSoFar
<1>12. t.fp + t.remain = Room(s)
  BY <1>0, <1>5, <1>7, <1>9
<1>13. HasBytes(t.buff, t.fp, p + s, t.remain, t.len)
  <2> SUFFICES ASSUME NEW k \in 0 .. (full.remain - s) - 1, (p + s) + k < full.len
               PROVE  full.buff[(full.fp + s) + k] = (p + s) + k
    BY <1>9 DEF HasBytes
  <2>1. s + k \in 0 .. full.remain - 1 /\ p + (s + k) < full.len
        /\ (full.fp + s) + k = full.fp + (s + k) /\ (p + s) + k = p + (s + k)
    BY <1>0, <1>7
  <2>2. full.buff[full.fp + (s + k)] = p + (s + k)
    BY <1>5, <2>1, Zenon DEF HasBytes
  <2> QED
    BY <2>1, <2>2
<1>14. Reader(t, s, p + s)
  BY <1>9, <1>10, <1>11, <1>12, <1>13 DEF Reader
<1>15. LineRead(t, s, p)
  <2>1. full.fp + s <= BuffSize
    BY <1>0, <1>1, <1>5, <1>7
  <2>2. HasBytes(full.buff, full.fp, p, s, full.len)
    <3> SUFFICES ASSUME NEW k \in 0 .. s - 1, p + k < full.len
                 PROVE  full.buff[full.fp + k] = p + k
      BY DEF HasBytes
    <3>1. k \in 0 .. full.remain - 1
      BY <1>0, <1>5, <1>7
    <3> QED
      BY <1>5, <3>1 DEF HasBytes
  <2> QED
    BY <1>9, <2>1, <2>2 DEF LineRead
<1> QED
  BY <1>4, <1>5, <1>9, <1>14, <1>15

\* What is in the buffer stays within its size of the end of the file as long as
\* the program heeds that nothing came.
LEMMA StaysWithin ==
  ASSUME NEW r, NEW s \in 1 .. BuffSize, NEW p \in Nat, Reader(r, s, p),
         NEW lim \in Nat, Room(s) <= lim, Within(r, p, lim) \/ r.remain = 0,
         FreadLine(r, s).ret # 0
  PROVE  Within(FreadLine(r, s), p + s, lim)
<1> DEFINE t == FreadLine(r, s)
<1>1. /\ t.len = r.len /\ (r.remain = 0 /\ p >= r.len => t.ret = 0)
      /\ t.remain = (IF r.remain = 0 THEN Room(s) ELSE r.remain) - s
  BY FreadLineGives
<1>2. r.remain \in Nat /\ r.len \in Nat /\ Room(s) \in Nat /\ s \in Nat
  BY RoomFits, GaAssumption DEF Reader, RdType
<1> HIDE DEF t
<1>3. t.ret # 0
  BY DEF t
<1> QED
  BY <1>1, <1>2, <1>3 DEF Within, t

\* A file just opened.
LEMMA OpenedIs ==
  ASSUME NEW len \in Nat
  PROVE  /\ Opened(len) \in RdType /\ Opened(len).len = len /\ Opened(len).remain = 0
         /\ \A s \in 1 .. BuffSize : Reader(Opened(len), s, 0)
<1>1. Opened(len) \in RdType /\ Opened(len).len = len /\ Opened(len).at = 0
      /\ Opened(len).remain = 0
  BY GaAssumption DEF Opened, RdType, Never
<1>2. ASSUME NEW s \in 1 .. BuffSize PROVE Reader(Opened(len), s, 0)
  <2>1. Multiple(0, s)
    <3>1. s \in Nat /\ 0 = 0 * s
      BY GaAssumption
    <3> QED
      BY <3>1 DEF Multiple
  <2> QED
    BY <1>1, <2>1 DEF Reader, ReadSoFar
<1> QED
  BY <1>1, <1>2

----------------------------------------------------------------------------
(* bmpload: plain files.                                                   *)

\* Where line n of the file is.
BmpAt(n) == in.lut + n * BmpStride

\* The screen has lines.
LEMMA HighestLine == MaxHeight \in Nat /\ MaxHeight >= 1
BY BmpAssumption

\* The lines are read as many bytes at a time as the format has in them.
LEMMA ScanIsStride ==
  ASSUME IsBmpFile(in)
  PROVE  /\ BmpScan = BmpStride /\ BmpStride \in 1 .. BuffSize
         /\ BmpUsed \in 1 .. BmpStride
<1>1. in.w \in Nat /\ in.w >= 1 /\ BuffSize \in Nat /\ BmpStride <= BuffSize
  BY GaAssumption DEF IsBmpFile, BmpStride
<1>2. CASE in.bit = 1
  <2> DEFINE q == ((in.w + 31) \div 8) \div 4
  <2>1. q \in Nat /\ ((in.w + 31) \div 8) \in 4 * q .. 4 * q + 3 /\ ((in.w + 31) \div 8) >= 4
    BY <1>1
  <2>2. (1 * in.w + 31) \div 32 = q
    <3>1. 1 * in.w + 31 \in 32 * q .. 32 * q + 31
      BY <1>1, <2>1
    <3> HIDE DEF q
    <3> QED
      BY <1>1, <2>1, <3>1
  <2>3. ((in.w + 31) \div 8) - (((in.w + 31) \div 8) % 4) = 4 * q
    BY <1>1, <2>1
  <2>4. (1 * in.w + 7) \div 8 \in 1 .. 4 * q /\ 4 * q = q * 4 /\ q * 4 >= 1
    BY <1>1, <2>1
  <2> HIDE DEF q
  <2>5. BmpScan = ((in.w + 31) \div 8) - (((in.w + 31) \div 8) % 4)
    BY <1>2 DEF BmpScan, Mask4
  <2>6. BmpStride = 4 * q /\ BmpUsed = (1 * in.w + 7) \div 8
    BY <1>2, <2>2, <2>4 DEF BmpStride, BmpUsed
  <2>7. BmpStride \in 1 .. BuffSize
    BY <1>1, <2>1, <2>4, <2>6
  <2> QED
    BY <2>3, <2>4, <2>5, <2>6, <2>7
<1>3. CASE in.bit = 4
  <2> DEFINE q == ((in.w + 7) \div 2) \div 4
  <2>1. q \in Nat /\ ((in.w + 7) \div 2) \in 4 * q .. 4 * q + 3 /\ ((in.w + 7) \div 2) >= 4
    BY <1>1
  <2>2. (4 * in.w + 31) \div 32 = q
    <3>1. 4 * in.w + 31 \in 32 * q .. 32 * q + 31
      BY <1>1, <2>1
    <3> HIDE DEF q
    <3> QED
      BY <1>1, <2>1, <3>1
  <2>3. ((in.w + 7) \div 2) - (((in.w + 7) \div 2) % 4) = 4 * q
    BY <1>1, <2>1
  <2>4. (4 * in.w + 7) \div 8 \in 1 .. 4 * q /\ 4 * q = q * 4 /\ q * 4 >= 1
    BY <1>1, <2>1
  <2> HIDE DEF q
  <2>5. BmpScan = ((in.w + 7) \div 2) - (((in.w + 7) \div 2) % 4)
    BY <1>3 DEF BmpScan, Mask4
  <2>6. BmpStride = 4 * q /\ BmpUsed = (4 * in.w + 7) \div 8
    BY <1>3, <2>2, <2>4 DEF BmpStride, BmpUsed
  <2>7. BmpStride \in 1 .. BuffSize
    BY <1>1, <2>1, <2>4, <2>6
  <2> QED
    BY <2>3, <2>4, <2>5, <2>6, <2>7
<1>4. CASE in.bit = 8
  <2> DEFINE q == (in.w + 3) \div 4
  <2>1. q \in Nat /\ (in.w + 3) \in 4 * q .. 4 * q + 3 /\ (in.w + 3) >= 4
    BY <1>1
  <2>2. (8 * in.w + 31) \div 32 = q
    BY <1>1, <2>1
  <2>3. (in.w + 3) - ((in.w + 3) % 4) = 4 * q
    BY <1>1, <2>1
  <2>4. (8 * in.w + 7) \div 8 \in 1 .. 4 * q /\ 4 * q = q * 4 /\ q * 4 >= 1
    BY <1>1, <2>1
  <2> HIDE DEF q
  <2>5. BmpScan = (in.w + 3) - ((in.w + 3) % 4)
    BY <1>4 DEF BmpScan, Mask4
  <2>6. BmpStride = 4 * q /\ BmpUsed = (8 * in.w + 7) \div 8
    BY <1>4, <2>2, <2>4 DEF BmpStride, BmpUsed
  <2>7. BmpStride \in 1 .. BuffSize
    BY <1>1, <2>1, <2>4, <2>6
  <2> QED
    BY <2>3, <2>4, <2>5, <2>6, <2>7
<1>5. CASE in.bit = 24
  <2> DEFINE q == (in.w * 3 + 3) \div 4
  <2>1. q \in Nat /\ (in.w * 3 + 3) \in 4 * q .. 4 * q + 3 /\ (in.w * 3 + 3) >= 4
    BY <1>1
  <2>2. (24 * in.w + 31) \div 32 = q
    BY <1>1, <2>1
  <2>3. (in.w * 3 + 3) - ((in.w * 3 + 3) % 4) = 4 * q
    BY <1>1, <2>1
  <2>4. (24 * in.w + 7) \div 8 \in 1 .. 4 * q /\ 4 * q = q * 4 /\ q * 4 >= 1
    BY <1>1, <2>1
  <2> HIDE DEF q
  <2>5. BmpScan = (in.w * 3 + 3) - ((in.w * 3 + 3) % 4)
    BY <1>5 DEF BmpScan, Mask4
  <2>6. BmpStride = 4 * q /\ BmpUsed = (24 * in.w + 7) \div 8
    BY <1>5, <2>2, <2>4 DEF BmpStride, BmpUsed
  <2>7. BmpStride \in 1 .. BuffSize
    BY <1>1, <2>1, <2>4, <2>6
  <2> QED
    BY <2>3, <2>4, <2>5, <2>6, <2>7
<1> QED
  BY <1>2, <1>3, <1>4, <1>5 DEF IsBmpFile

\* The lines of a BMP file follow each other without a gap.
LEMMA BmpAtNext ==
  ASSUME IsBmpFile(in), NEW n \in Nat
  PROVE  BmpAt(n) \in Nat /\ BmpAt(n + 1) = BmpAt(n) + BmpStride /\ BmpAt(0) = in.lut
<1> DEFINE s == BmpStride
<1>1. s \in Nat /\ in.lut \in Nat
  BY ScanIsStride, GaAssumption DEF IsBmpFile
<1> HIDE DEF s
<1>2. n * s \in Nat /\ (n + 1) * s = n * s + s /\ 0 * s = 0
  BY <1>1
<1> QED
  BY <1>1, <1>2 DEF BmpAt, s

\* The weights of the palette and of the bytes make blue the first byte of three.
LEMMA BlueFirst ==
  ASSUME NEW b, NEW k \in Int
  PROVE  BmpColours(b, k) = [red |-> b[k + 2], green |-> b[k + 1], blue |-> b[k]]
<1> DEFINE byte(c) == CHOOSE j \in 1 .. 3 : BmpByteWeight[j] = BmpLutWeight[c]
<1>1. byte("red") = 3 /\ byte("green") = 2 /\ byte("blue") = 1
  <2>1. \A j \in 1 .. 3 : j = 1 \/ j = 2 \/ j = 3
    OBVIOUS
  <2> QED
    BY <2>1 DEF BmpByteWeight, BmpLutWeight
<1> HIDE DEF byte
<1>2. k + byte("red") - 1 = k + 2 /\ k + byte("green") - 1 = k + 1 /\ k + byte("blue") - 1 = k
  BY <1>1
<1>3. [c \in {"red", "green", "blue"} |-> b[k + byte(c) - 1]]
       = [red |-> b[k + 2], green |-> b[k + 1], blue |-> b[k]]
  BY <1>2
<1> QED
  BY <1>3 DEF BmpColours, byte

\* The pixels shown are those of the line, when the file has all of it.
LEMMA BmpPixelsAreLine ==
  ASSUME IsBmpFile(in), NEW r, NEW k \in Nat, r.len = in.len, r.idx \in Int,
         LineRead(r, BmpStride, BmpAt(k)), BmpAt(k) + BmpUsed <= in.len
  PROVE  BmpPixels(r) = BmpLine(k)
<1> DEFINE p == BmpAt(k)
<1>1. /\ in.w \in Nat /\ in.w >= 1 /\ in.len \in Nat /\ p \in Nat
      /\ BmpUsed \in 1 .. BmpStride /\ BmpStride \in Nat
  <2>1. in.w \in Nat /\ in.w >= 1 /\ in.len \in Nat
    BY DEF IsBmpFile
  <2>2. p \in Nat
    BY BmpAtNext
  <2>3. BmpUsed \in 1 .. BmpStride /\ BmpStride \in 1 .. BuffSize /\ BuffSize \in Nat
    BY ScanIsStride, GaAssumption
  <2> QED
    BY <2>1, <2>2, <2>3
<1> HIDE DEF p
<1>2. ASSUME NEW j \in 0 .. BmpUsed - 1 PROVE r.buff[r.idx + j] = p + j
  <2>1. j \in 0 .. BmpStride - 1 /\ p + j < r.len
    BY <1>1 DEF p
  <2> QED
    BY <2>1 DEF LineRead, HasBytes, p
<1>3. CASE in.bit = 24
  <2> SUFFICES ASSUME NEW x \in 1 .. in.w
               PROVE  BmpColours(r.buff, r.idx + 3 * (x - 1))
                      = [red |-> p + 3 * x - 1, green |-> p + 3 * x - 2, blue |-> p + 3 * x - 3]
    BY <1>3 DEF BmpPixels, BmpLine, BmpAt, p
  <2>1. 3 * (x - 1) \in 0 .. BmpUsed - 1 /\ 3 * (x - 1) + 1 \in 0 .. BmpUsed - 1
        /\ 3 * (x - 1) + 2 \in 0 .. BmpUsed - 1
    BY <1>1, <1>3 DEF BmpUsed
  <2> DEFINE i == r.idx + 3 * (x - 1)
  <2>2. i \in Int /\ i = r.idx + 3 * (x - 1) /\ i + 1 = r.idx + (3 * (x - 1) + 1)
        /\ i + 2 = r.idx + (3 * (x - 1) + 2)
    BY <1>1
  <2> HIDE DEF i
  <2>3. r.buff[i] = p + 3 * (x - 1) /\ r.buff[i + 1] = p + (3 * (x - 1) + 1)
        /\ r.buff[i + 2] = p + (3 * (x - 1) + 2)
    BY <1>2, <2>1, <2>2
  <2>4. r.buff[i] = p + 3 * x - 3 /\ r.buff[i + 1] = p + 3 * x - 2
        /\ r.buff[i + 2] = p + 3 * x - 1
    BY <1>1, <2>3
  <2> QED
    BY <2>2, <2>4, BlueFirst
<1>4. CASE in.bit = 8
  <2> SUFFICES ASSUME NEW x \in 1 .. in.w
               PROVE  <<r.buff[r.idx + x - 1], 0>> = <<p + (x - 1) \div 1, (x - 1) % 1>>
    BY <1>4 DEF BmpPixels, BmpLine, BmpAt, p
  <2>1. x - 1 \in 0 .. BmpUsed - 1 /\ r.idx + x - 1 = r.idx + (x - 1)
        /\ (x - 1) \div 1 = x - 1 /\ (x - 1) % 1 = 0
    BY <1>1, <1>4 DEF BmpUsed
  <2> QED
    BY <1>2, <2>1
<1>5. CASE in.bit = 4
  <2> SUFFICES ASSUME NEW x \in 1 .. in.w
               PROVE  <<r.buff[r.idx + (x - 1) \div 2], (x - 1) % 2>>
                      = <<p + (x - 1) \div 2, (x - 1) % 2>>
    BY <1>5 DEF BmpPixels, BmpLine, BmpAt, p
  <2>1. (x - 1) \div 2 \in 0 .. BmpUsed - 1
    BY <1>1, <1>5 DEF BmpUsed
  <2> QED
    BY <1>2, <2>1
<1>6. CASE in.bit = 1
  <2> SUFFICES ASSUME NEW x \in 1 .. in.w
               PROVE  <<r.buff[r.idx + (x - 1) \div 8], (x - 1) % 8>>
                      = <<p + (x - 1) \div 8, (x - 1) % 8>>
    BY <1>6 DEF BmpPixels, BmpLine, BmpAt, p
  <2>1. (x - 1) \div 8 \in 0 .. BmpUsed - 1
    BY <1>1, <1>6 DEF BmpUsed
  <2> QED
    BY <1>2, <2>1
<1> QED
  BY <1>3, <1>4, <1>5, <1>6 DEF IsBmpFile

\* A sequence, of whatever.
IsSequence(s) == \E S : s \in Seq(S)

\* What Append() does to a sequence, whatever its elements are.
LEMMA Appended ==
  ASSUME NEW s, IsSequence(s), NEW e
  PROVE  /\ IsSequence(Append(s, e)) /\ Len(s) \in Nat
         /\ Len(Append(s, e)) = Len(s) + 1
         /\ \A k \in 1 .. Len(s) : Append(s, e)[k] = s[k]
         /\ Append(s, e)[Len(s) + 1] = e
<1>1. PICK S : s \in Seq(S)
  BY DEF IsSequence
<1> DEFINE T == S \cup {e}
<1>2. s \in Seq(T) /\ e \in T
  BY <1>1
<1> HIDE DEF T
<1>3. Append(s, e) \in Seq(T)
  BY <1>2, AppendProperties
<1> QED
  BY <1>2, <1>3, AppendProperties DEF IsSequence

\* The empty screen is a sequence.
LEMMA EmptyIsSequence == IsSequence(<<>>) /\ Len(<<>>) = 0
<1>1. <<>> \in Seq({})
  OBVIOUS
<1> QED
  BY <1>1 DEF IsSequence

\* The plain files are not packed and, in 24 bits, not without a palette.
BmpPlain == in.comp = 0 /\ (in.bit = 24 => in.lut = 0)

\* The lines of the picture that the screen has room for.
BmpHeight == Least(in.h, MaxHeight)

\* A line drawn, and what it says of the file.
BmpLineShown(k, shown) ==
  /\ shown.x = 0 /\ shown.y = BmpHeight - 1 - k
  /\ BmpAt(k) + BmpUsed <= in.len => shown.px = BmpLine(k)

BmpDrawn ==
  /\ IsSequence(screen)
  /\ \A k \in 0 .. Len(screen) - 1 : BmpLineShown(k, screen[k + 1])

\* What is shown of no line of the file is less than a buffer, and no line is
\* left out but the top one.
BmpEnds ==
  /\ BmpAt(Len(screen)) - in.len < BuffSize
  /\ in.h > 0 => Len(screen) < BmpHeight
  /\ pc = "keys" => Len(screen) >= BmpHeight - 1 \/ BmpAt(Len(screen)) >= in.len
  /\ pc \in {"row", "keys"} => flag \in {0, 1} /\ (flag = 0 => pal = "picture")

\* What comes next in the file is the line that is drawn next.
BmpReading ==
  pc = "row" =>
    /\ rd.len = in.len /\ Reader(rd, BmpStride, BmpAt(Len(screen)))
    /\ Within(rd, BmpAt(Len(screen)), BuffSize) \/ rd.remain = 0
    /\ row = BmpHeight - 1 - Len(screen)

BmpPhase ==
  /\ pc \in {"main", "ginit", "gaload", "row", "keys", "end", "error"}
  /\ pc \in {"main", "ginit", "gaload"} => rd = Opened(in.len)
  /\ pc \in {"main", "ginit", "gaload", "error"} => screen = <<>>
  /\ pc \in {"ginit", "gaload"} => flag \in {0, 1}
  /\ pc \in {"row", "keys", "end"} => BmpEnds

BmpKept == BmpDrawn /\ BmpReading /\ BmpPhase
BmpInv == prog = "bmpload" => IsBmpFile(in) /\ (BmpPlain => BmpKept)

\* A quotient is no greater than what its divisor was multiplied by.
LEMMA QuotientLeast ==
  ASSUME NEW s \in Nat \ {0}, NEW n \in Nat, NEW m \in Int, m <= n * s
  PROVE  m \div s <= n
<1> DEFINE q == m \div s
<1>1. q \in Int /\ q * s <= m
  OBVIOUS
<1> HIDE DEF q
<1>2. ASSUME q > n PROVE FALSE
  <2>1. q - n - 1 \in Nat
    BY <1>1, <1>2
  <2> DEFINE d == q - n - 1
  <2>2. d \in Nat /\ q = n + 1 + d
    BY <1>1, <2>1
  <2> HIDE DEF d
  <2>3. d * s \in Nat /\ q * s = n * s + s + d * s /\ n * s \in Nat
    BY <2>2
  <2> QED
    BY <1>1, <2>3
<1> QED
  BY <1>1, <1>2 DEF q

\* The invariant says what the property does.
LEMMA BmpInvTells == ASSUME BmpInv PROVE BmpRowsInPlace
<1> SUFFICES ASSUME prog = "bmpload", BmpPlain
             PROVE  /\ \A k \in 0 .. Len(screen) - 1 :
                         /\ screen[k + 1].x = 0
                         /\ screen[k + 1].y = Least(in.h, MaxHeight) - 1 - k
                         /\ in.lut + k * BmpStride + BmpUsed <= in.len =>
                              screen[k + 1].px = BmpLine(k)
                    /\ Len(screen) * BmpStride - (in.len - in.lut) < BuffSize
                    /\ pc = "keys" /\ flag = 0 => pal = "picture"
                    /\ pc = "keys" =>
                         Len(screen) >= Least(Least(in.h, MaxHeight) - 1,
                                              (in.len - in.lut) \div BmpStride)
  BY DEF BmpRowsInPlace, BmpPlain
<1>1. IsBmpFile(in) /\ BmpDrawn /\ BmpPhase
  BY DEF BmpInv, BmpKept
<1>2. \A k \in 0 .. Len(screen) - 1 :
        /\ screen[k + 1].x = 0 /\ screen[k + 1].y = Least(in.h, MaxHeight) - 1 - k
        /\ in.lut + k * BmpStride + BmpUsed <= in.len => screen[k + 1].px = BmpLine(k)
  BY <1>1 DEF BmpDrawn, BmpLineShown, BmpHeight, BmpAt
<1> DEFINE n == Len(screen)
           s == BmpStride
<1>3. n \in Nat /\ s \in Nat \ {0} /\ s <= BuffSize /\ in.len \in Nat /\ in.lut \in Nat
      /\ in.lut < BuffSize /\ BuffSize \in Nat
  BY <1>1, Appended, ScanIsStride, GaAssumption, SMTT(40) DEF BmpDrawn, IsBmpFile
<1> HIDE DEF s
<1>4. n * s \in Nat
  BY <1>3
<1>5. BmpAt(n) = in.lut + n * s
  BY DEF BmpAt, s
<1>6. n * s - (in.len - in.lut) < BuffSize
  <2>1. CASE pc \in {"row", "keys", "end"}
    BY <1>1, <1>3, <1>4, <1>5, <2>1 DEF BmpPhase, BmpEnds
  <2>2. CASE pc \in {"main", "ginit", "gaload", "error"}
    <3>1. n = 0
      BY <1>1, <2>2, EmptyIsSequence DEF BmpPhase
    <3>2. n * s = 0
      BY <1>3, <3>1
    <3> QED
      BY <1>3, <3>2
  <2> QED
    BY <1>1, <2>1, <2>2 DEF BmpPhase
<1>7. pc = "keys" /\ flag = 0 => pal = "picture"
  BY <1>1 DEF BmpPhase, BmpEnds
<1>8. ASSUME pc = "keys"
      PROVE  n >= Least(BmpHeight - 1, (in.len - in.lut) \div s)
  <2>1. n >= BmpHeight - 1 \/ BmpAt(n) >= in.len
    BY <1>1, <1>8 DEF BmpPhase, BmpEnds
  <2>2. BmpHeight \in Nat
    <3>1. in.h \in Nat
      BY <1>1 DEF IsBmpFile
    <3> QED
      BY <3>1, HighestLine DEF BmpHeight, Least
  <2>3. CASE BmpAt(n) >= in.len
    <3>1. in.len - in.lut <= n * s /\ in.len - in.lut \in Int
      BY <1>3, <1>4, <1>5, <2>3
    <3>2. (in.len - in.lut) \div s <= n
      BY <1>3, <3>1, QuotientLeast
    <3>3. (in.len - in.lut) \div s \in Int
      BY <1>3
    <3> QED
      BY <1>3, <2>2, <3>2, <3>3 DEF Least
  <2>4. CASE n >= BmpHeight - 1
    <3>1. (in.len - in.lut) \div s \in Int
      BY <1>3
    <3> QED
      BY <1>3, <2>2, <2>4, <3>1 DEF Least
  <2> QED
    BY <2>1, <2>3, <2>4
<1> QED
  BY <1>2, <1>6, <1>7, <1>8 DEF BmpHeight, s

\* The palette and the place of the first line.
LEMMA BmpGaloadKeeps ==
  ASSUME IsBmpFile(in), BmpPlain, BmpKept, BmpGaload
  PROVE  BmpKept'
<1>1. /\ pc = "gaload" /\ rd = Opened(in.len) /\ screen = <<>> /\ flag \in {0, 1}
      /\ UNCHANGED <<in, screen, flag>>
  BY DEF BmpGaload, BmpKept, BmpPhase
<1>2. BmpPlain' /\ IsBmpFile(in)'
  BY <1>1, SMTT(40) DEF BmpPlain, IsBmpFile
<1> DEFINE lut == IF in.bit # 24 THEN ReadTo(rd, in.lut) ELSE rd
           ysize == IF in.h > MaxHeight THEN MaxHeight ELSE in.h
<1>3. in.lut \in 0 .. BuffSize /\ in.lut < BuffSize /\ in.len \in Nat /\ in.h \in Nat
      /\ BuffSize \in Nat /\ MaxHeight \in Nat /\ MaxHeight > 0
      /\ BmpStride \in 1 .. BuffSize
  BY ScanIsStride, GaAssumption, BmpAssumption, SMTT(40) DEF IsBmpFile
<1>4. Reader(lut, BmpStride, in.lut) /\ lut.len = in.len /\ lut.remain = 0
  <2>1. Opened(in.len) \in RdType /\ Opened(in.len).len = in.len
        /\ Opened(in.len).remain = 0 /\ Reader(Opened(in.len), BmpStride, 0)
    BY <1>3, OpenedIs
  <2>2. CASE in.bit # 24
    <3>1. IF 0 <= rd.len THEN rd.at = 0 ELSE rd.at >= rd.len
      BY <1>1, <2>1 DEF Reader, ReadSoFar
    <3>0. lut = ReadTo(rd, in.lut) /\ rd \in RdType
      BY <1>1, <2>1, <2>2
    <3> HIDE DEF lut
    <3>2. /\ lut \in RdType /\ lut.len = rd.len /\ lut.remain = rd.remain
          /\ IF 0 + in.lut <= lut.len THEN lut.at = 0 + in.lut ELSE lut.at >= lut.len
      BY <1>3, <3>0, <3>1, ReadToFills
    <3>3. Multiple(lut.remain, BmpStride) /\ lut.remain = 0
      BY <1>1, <2>1, <3>2 DEF Reader
    <3>4. ReadSoFar(lut, in.lut)
      BY <1>3, <3>2, <3>3 DEF ReadSoFar
    <3> QED
      BY <1>1, <2>1, <3>2, <3>3, <3>4 DEF Reader
  <2>3. CASE in.bit = 24
    BY <1>1, <2>1, <2>3 DEF BmpPlain
  <2> QED
    BY <2>2, <2>3
<1>5. ysize = BmpHeight /\ BmpHeight \in Nat /\ (in.h > 0 => BmpHeight > 0)
  BY <1>3 DEF BmpHeight, Least
<1>6. CASE pc' = "error"
  BY <1>1, <1>6, EmptyIsSequence DEF BmpKept, BmpDrawn, BmpReading, BmpPhase
<1>7. CASE ~(in.type # "BM" \/ (in.bit # 24 /\ lut.ret = 0))
  <2>1. /\ pal' = IF flag = 0 THEN "picture" ELSE "default"
        /\ rd' = lut /\ row' = ysize - 1 /\ pc' = "row"
    BY <1>7 DEF BmpGaload, BmpPlain
  <2>2. Len(screen) = 0 /\ BmpAt(0) = in.lut /\ IsSequence(screen)
    BY <1>1, BmpAtNext, EmptyIsSequence
  <2> HIDE DEF lut, ysize
  <2>3. BmpDrawn'
    BY <1>1, <2>2 DEF BmpDrawn
  <2>4. BmpReading'
    <3>1. rd'.len = in.len /\ Reader(rd', BmpStride, BmpAt(Len(screen))) /\ rd'.remain = 0
      BY <1>4, <2>1, <2>2
    <3>2. row' = BmpHeight - 1 - Len(screen)
      BY <1>5, <2>1, <2>2
    <3>3. /\ BmpStride' = BmpStride /\ BmpHeight' = BmpHeight
          /\ BmpAt(Len(screen))' = BmpAt(Len(screen))
      BY <1>1 DEF BmpStride, BmpHeight, BmpAt
    <3> QED
      BY <1>1, <3>1, <3>2, <3>3 DEF BmpReading
  <2>5. BmpEnds'
    <3>1. BmpAt(Len(screen))' = in.lut /\ BmpHeight' = BmpHeight /\ Len(screen)' = 0
      BY <1>1, <2>2 DEF BmpStride, BmpHeight, BmpAt
    <3>2. in.lut - in.len < BuffSize
      BY <1>3
    <3> QED
      BY <1>1, <1>5, <2>1, <3>1, <3>2 DEF BmpEnds
  <2> QED
    BY <2>1, <2>3, <2>4, <2>5 DEF BmpKept, BmpPhase
<1> QED
  BY <1>6, <1>7 DEF BmpGaload

\* One line more, or the end of the lines.
LEMMA BmpNomalRowKeeps ==
  ASSUME IsBmpFile(in), BmpPlain, BmpKept, BmpNomalRow
  PROVE  BmpKept'
<1> DEFINE n == Len(screen)
           s == BmpStride
           p == BmpAt(n)
           t == FreadLine(rd, s)
<1>1. /\ pc = "row" /\ UNCHANGED <<in, pal, flag>>
      /\ BmpDrawn /\ BmpEnds
      /\ rd.len = in.len /\ Reader(rd, s, p)
      /\ Within(rd, p, BuffSize) \/ rd.remain = 0
      /\ row = BmpHeight - 1 - n
  BY DEF BmpNomalRow, BmpKept, BmpPhase, BmpReading
<1>2. BmpScan = s /\ s \in 1 .. BuffSize /\ n \in Nat /\ p \in Nat /\ BuffSize \in Nat
      /\ BmpHeight \in Nat /\ in.len \in Nat /\ in.h \in Nat
      /\ BmpAt(n + 1) = p + s
  <2>1. in.len \in Nat /\ in.h \in Nat
    BY <1>1 DEF IsBmpFile
  <2>2. BmpHeight \in Nat
    BY <2>1, HighestLine DEF BmpHeight, Least
  <2>3. n \in Nat
    BY <1>1, Appended DEF BmpDrawn
  <2>4. p \in Nat /\ BmpAt(n + 1) = p + s
    BY <1>1, <2>3, BmpAtNext
  <2> QED
    BY <1>1, <2>1, <2>2, <2>3, <2>4, ScanIsStride, GaAssumption
<1>3. /\ Reader(t, s, p + s) /\ LineRead(t, s, p) /\ t.len = rd.len
      /\ t.ret = 0 => p >= rd.len
  BY <1>1, <1>2, FreadLineGives
<1>4. \/ row = 0 /\ pc' = "keys" /\ UNCHANGED <<rd, row, screen>>
      \/ row # 0 /\ rd' = t /\ t.ret = 0 /\ pc' = "keys" /\ UNCHANGED <<row, screen>>
      \/ /\ row # 0 /\ rd' = t /\ t.ret # 0 /\ row' = row - 1 /\ pc' = pc
         /\ screen' = Append(screen, [x |-> 0, y |-> row, px |-> BmpPixels(t)])
  BY <1>2 DEF BmpNomalRow, Draw
<1>5. BmpStride' = BmpStride /\ BmpHeight' = BmpHeight /\ BmpUsed' = BmpUsed
      /\ \A k : BmpAt(k)' = BmpAt(k) /\ BmpLine(k)' = BmpLine(k)
  BY <1>1 DEF BmpStride, BmpHeight, BmpUsed, BmpAt, BmpLine
<1>6. \A k, l : BmpLineShown(k, l)' <=> BmpLineShown(k, l)
  BY <1>1, <1>5 DEF BmpLineShown
<1> HIDE DEF n, s, t
<1>7. CASE pc' = "keys"
  <2>1. screen' = screen /\ (n >= BmpHeight - 1 \/ p >= in.len)
    BY <1>1, <1>2, <1>3, <1>4, <1>7
  <2>2. BmpDrawn'
    BY <1>1, <1>6, <2>1 DEF BmpDrawn
  <2>3. BmpEnds'
    BY <1>1, <1>5, <1>7, <2>1 DEF BmpEnds, n
  <2> QED
    BY <1>7, <2>2, <2>3 DEF BmpKept, BmpReading, BmpPhase
<1>8. CASE /\ row # 0 /\ rd' = t /\ t.ret # 0 /\ row' = row - 1 /\ pc' = pc
           /\ screen' = Append(screen, [x |-> 0, y |-> row, px |-> BmpPixels(t)])
  <2> DEFINE new == [x |-> 0, y |-> row, px |-> BmpPixels(t)]
  <2>1. /\ IsSequence(screen') /\ Len(screen') = n + 1
        /\ \A k \in 1 .. n : screen'[k] = screen[k]
        /\ screen'[n + 1] = new
    BY <1>1, <1>8, Appended DEF BmpDrawn, n
  <2>2. BmpLineShown(n, new)
    <3>1. ASSUME BmpAt(n) + BmpUsed <= in.len PROVE BmpPixels(t) = BmpLine(n)
      <4>1. t.len = in.len /\ t.idx \in Int
        BY <1>1, <1>3 DEF Reader, RdType
      <4> QED
        BY <1>2, <1>3, <3>1, <4>1, BmpPixelsAreLine DEF s
    <3> QED
      BY <1>1, <3>1 DEF BmpLineShown
  <2> HIDE DEF new
  <2>3. BmpDrawn'
    <3>1. ASSUME NEW k \in 0 .. n PROVE BmpLineShown(k, screen'[k + 1])
      <4>1. CASE k = n
        BY <2>1, <2>2, <4>1
      <4>2. CASE k # n
        <5>1. k \in 0 .. n - 1 /\ k + 1 \in 1 .. n
          BY <1>2, <4>2
        <5>2. BmpLineShown(k, screen[k + 1])
          BY <1>1, <5>1 DEF BmpDrawn, n
        <5> QED
          BY <2>1, <5>1, <5>2
      <4> QED
        BY <4>1, <4>2
    <3>2. Len(screen') - 1 = n
      BY <1>2, <2>1
    <3> QED
      BY <1>6, <2>1, <3>1, <3>2 DEF BmpDrawn
  <2>4. BmpAt(Len(screen))' = p + s
    BY <1>2, <1>5, <2>1
  <2>5. Within(t, p + s, BuffSize)
    <3>1. Room(s) <= BuffSize
      BY <1>2, RoomFits
    <3> QED
      BY <1>1, <1>2, <1>8, <3>1, StaysWithin DEF t
  <2>6. BmpReading'
    <3>1. row' = BmpHeight - 1 - (n + 1)
      BY <1>1, <1>2, <1>8
    <3>2. rd'.len = in.len /\ Reader(rd', s, p + s) /\ Within(rd', p + s, BuffSize)
      BY <1>1, <1>3, <1>8, <2>5
    <3> QED
      BY <1>1, <1>5, <2>1, <2>4, <3>1, <3>2 DEF BmpReading, s
  <2>7. BmpEnds'
    <3>1. p + s - in.len < BuffSize
      <4>1. t.remain \in Nat /\ t.len = in.len
        BY <1>1, <1>3 DEF Reader, RdType
      <4> QED
        BY <1>2, <2>5, <4>1 DEF Within
    <3>2. in.h > 0 => n + 1 < BmpHeight
      BY <1>1, <1>2, <1>8 DEF BmpEnds, n
    <3>3. flag' \in {0, 1} /\ (flag' = 0 => pal' = "picture") /\ pc' = "row"
      BY <1>1, <1>8 DEF BmpEnds
    <3>4. BmpAt(Len(screen))' - in'.len < BuffSize
      <4>1. in' = in
        BY <1>1
      <4> HIDE DEF p
      <4> QED
        BY <1>2, <2>4, <3>1, <4>1
    <3>5. in'.h > 0 => Len(screen)' < BmpHeight'
      BY <1>1, <1>5, <2>1, <3>2
    <3> HIDE DEF p
    <3> QED
      BY <3>3, <3>4, <3>5 DEF BmpEnds
  <2> QED
    BY <1>1, <1>8, <2>3, <2>6, <2>7 DEF BmpKept, BmpPhase
<1> QED
  BY <1>1, <1>4, <1>7, <1>8

\* bmpload starts with nothing drawn and nothing read.
LEMMA BmpStartKeeps ==
  ASSUME prog = "bmpload" => IsBmpFile(in) /\ pc = "main" /\ screen = <<>> /\ rd = Opened(in.len)
  PROVE  BmpInv
BY EmptyIsSequence DEF BmpInv, BmpKept, BmpDrawn, BmpReading, BmpPhase

\* Every step of bmpload keeps the lines where they belong.
LEMMA BmpNextKeeps ==
  ASSUME BmpInv, prog = "bmpload", BmpNext, prog' = prog
  PROVE  BmpInv'
<1>1. IsBmpFile(in)
  BY DEF BmpInv
<1>2. in' = in
  BY DEF BmpNext, BmpMain, BmpGinit, BmpGaload, BmpNomalRow, BmpRle8, BmpRle4, BmpKeyC, BmpKeyEnd
<1>3. IsBmpFile(in)' /\ BmpPlain' = BmpPlain
  BY <1>1, <1>2 DEF BmpPlain, IsBmpFile
<1> SUFFICES ASSUME BmpPlain PROVE BmpKept'
  BY <1>3 DEF BmpInv
<1>4. BmpKept
  BY DEF BmpInv
<1>5. BmpStride' = BmpStride /\ BmpHeight' = BmpHeight /\ BmpUsed' = BmpUsed
      /\ \A k : BmpAt(k)' = BmpAt(k) /\ BmpLine(k)' = BmpLine(k)
  BY <1>2 DEF BmpStride, BmpHeight, BmpUsed, BmpAt, BmpLine
<1>6. \A k, l : BmpLineShown(k, l)' <=> BmpLineShown(k, l)
  BY <1>2, <1>5 DEF BmpLineShown
<1>7. screen' = screen => BmpDrawn'
  BY <1>4, <1>6 DEF BmpKept, BmpDrawn
<1>8. CASE BmpMain
  BY <1>4, <1>7, <1>8 DEF BmpMain, BmpKept, BmpReading, BmpPhase
<1>9. CASE BmpGinit
  <2>1. /\ screen = <<>> /\ screen' = <<>> /\ rd' = Opened(in'.len) /\ flag' = flag
        /\ pc' \in {"gaload", "error"}
    BY <1>2, <1>4, <1>9 DEF BmpGinit, BmpKept, BmpPhase
  <2>2. flag' \in {0, 1}
    BY <1>4, <1>9, <2>1 DEF BmpGinit, BmpKept, BmpPhase
  <2>3. BmpDrawn'
    BY <1>7, <2>1
  <2> QED
    BY <2>1, <2>2, <2>3 DEF BmpKept, BmpReading, BmpPhase
<1>10. CASE BmpGaload
  BY <1>1, <1>4, <1>10, BmpGaloadKeeps
<1>11. CASE BmpNomalRow
  BY <1>1, <1>4, <1>11, BmpNomalRowKeeps
<1>12. CASE BmpKeyC
  <2>1. /\ pc = "keys" /\ pc' = pc /\ UNCHANGED <<screen, flag>> /\ BmpEnds
        /\ flag' = 0 => pal' = "picture"
    BY <1>4, <1>12 DEF BmpKeyC, BmpKept, BmpPhase
  <2>2. BmpAt(Len(screen))' = BmpAt(Len(screen)) /\ Len(screen)' = Len(screen)
    BY <1>5, <2>1
  <2>3. BmpEnds'
    BY <1>2, <1>5, <2>1, <2>2 DEF BmpEnds
  <2> QED
    BY <1>7, <2>1, <2>3 DEF BmpKept, BmpReading, BmpPhase
<1>13. CASE BmpKeyEnd
  <2>1. pc = "keys" /\ pc' = "end" /\ screen' = screen /\ BmpEnds
    BY <1>4, <1>13 DEF BmpKeyEnd, BmpKept, BmpPhase
  <2>2. BmpAt(Len(screen))' = BmpAt(Len(screen)) /\ Len(screen)' = Len(screen)
    BY <1>5, <2>1
  <2>3. BmpEnds'
    BY <1>2, <1>5, <2>1, <2>2 DEF BmpEnds
  <2> QED
    BY <1>7, <2>1, <2>3 DEF BmpKept, BmpReading, BmpPhase
<1>14. ~BmpRle8 /\ ~BmpRle4
  BY <1>4 DEF BmpRle8, BmpRle4, BmpKept, BmpPhase
<1> QED
  BY <1>8, <1>9, <1>10, <1>11, <1>12, <1>13, <1>14 DEF BmpNext

----------------------------------------------------------------------------
(* bmpsave: the box that marks a part of the screen, for any mouse.        *)

\* Where the mouse was last seen to have taken the box.
LastBox == Box(mouse.sx, mouse.sy, mouse.ox, mouse.oy)

\* What is kept of the mouse, the box and the part marked.
SaveTypes ==
  /\ pc \in {"main", "mouse", "save", "end", "error"}
  /\ mouse \in [sx : Nat, sy : Nat, ox : Nat, oy : Nat, on : {0, 1}]
  /\ sel \in [x : Nat, y : Nat, w : Nat \ {0}, h : Nat \ {0}]
  /\ cursor \in BOOLEAN

\* Nothing is on the screen before the mouse is looked at, and the button is not
\* pressed; afterwards the box and the button go together.
BoxKept ==
  /\ pc = "main" => boxes = {} /\ mouse.on = 0
  /\ pc = "mouse" => boxes = {b \in {LastBox} : mouse.on = 1}
  /\ pc \in {"save", "end"} => ~cursor
  /\ pc \in {"save", "end"} /\ by = "button" =>
       boxes = {} /\ LastBox = Box(sel.x, sel.y, sel.x + sel.w - 1, sel.y + sel.h - 1)

BoxInv == prog = "bmpsave" => SaveTypes /\ BoxKept

\* A box drawn over itself is gone, and one drawn on an empty screen is there.
LEMMA InvertedTwice ==
  ASSUME NEW b
  PROVE  Inverted({b}, b) = {} /\ Inverted({}, b) = {b}
  BY DEF Inverted

\* The two corners a box was let go between are its left upper and right lower
\* one, whichever way it was drawn: the box is the same.
LEMMA CornersSorted ==
  ASSUME NEW a \in Nat, NEW b \in Nat
  PROVE  LET low == Least(a, b)  high == a + b - low
         IN  /\ low \in Nat /\ high \in Nat /\ low <= high
             /\ Least(low, high) = Least(a, b) /\ low + high = a + b
             /\ high - low + 1 \in Nat \ {0}
             /\ low + (high - low + 1) - 1 = high
  BY DEF Least

\* At the start there is no box.
LEMMA SaveInitInv == ASSUME Init PROVE BoxInv
<1>1. ASSUME prog = "bmpsave"
      PROVE  SaveTypes /\ BoxKept
  <2>1. SaveRest /\ pc = "main"
    BY <1>1 DEF Init, BmpStart, SaveStart, RgbStart, X68Start, TiffStart
  <2>2. DefaultWidth \in Nat \ {0} /\ DefaultHeight \in Nat \ {0}
    BY SaveAssumption, BmpAssumption, SMTT(40)
  <2> QED
    BY <2>1, <2>2 DEF SaveRest, SaveTypes, BoxKept
<1> QED
  BY <1>1 DEF BoxInv

\* Each look at the mouse leaves the box where it was last drawn, or none.
LEMMA SaveMouseKeeps ==
  ASSUME SaveTypes, BoxKept, SaveMouse
  PROVE  SaveTypes' /\ BoxKept'
<1>1. PICK x \in MouseX, y \in MouseY, left \in BOOLEAN, right \in BOOLEAN :
        \/ mouse.on = 1 /\ right /\ SaveCancel(x, y)
        \/ mouse.on = 1 /\ ~right /\ left /\ SaveDrag(x, y)
        \/ mouse.on = 1 /\ ~right /\ ~left /\ SaveRelease(x, y)
        \/ mouse.on = 0 /\ left /\ SavePress(x, y)
        \/ mouse.on = 0 /\ ~left /\ SaveIdle(x, y)
  BY DEF SaveMouse
<1>2. x \in Nat /\ y \in Nat /\ pc = "mouse"
  BY SaveAssumption DEF SaveMouse
<1>3. boxes = {b \in {LastBox} : mouse.on = 1}
  BY <1>2 DEF BoxKept
<1>4. CASE mouse.on = 1 /\ SaveCancel(x, y)
  <2>1. boxes' = {}
    BY <1>3, <1>4, InvertedTwice DEF SaveCancel, LastBox
  <2>2. pc' = "mouse" /\ mouse'.on = 0 /\ sel' = sel /\ cursor' \in BOOLEAN
    BY <1>2, <1>4 DEF SaveCancel, SaveTypes
  <2>3. mouse' \in [sx : Nat, sy : Nat, ox : Nat, oy : Nat, on : {0, 1}]
    BY <1>2, <1>4 DEF SaveCancel, SaveTypes
  <2> QED
    BY <2>1, <2>2, <2>3 DEF SaveTypes, BoxKept
<1>5. CASE mouse.on = 1 /\ SaveDrag(x, y)
  <2>1. pc' = "mouse" /\ mouse' = [mouse EXCEPT !.ox = x, !.oy = y] /\ sel' = sel
        /\ cursor' \in BOOLEAN
    BY <1>2, <1>5 DEF SaveDrag, SaveTypes
  <2>2. mouse' \in [sx : Nat, sy : Nat, ox : Nat, oy : Nat, on : {0, 1}] /\ mouse'.on = 1
    BY <1>2, <1>5, <2>1 DEF SaveTypes
  <2>3. LastBox' = Box(mouse.sx, mouse.sy, x, y)
    BY <2>1 DEF LastBox, SaveTypes
  <2>4. boxes = {LastBox}
    BY <1>3, <1>5
  <2>5. boxes' = {LastBox'}
    <3>1. CASE x # mouse.ox \/ y # mouse.oy
      <4>1. boxes' = Inverted(Inverted(boxes, LastBox), LastBox')
        BY <1>5, <2>3, <3>1 DEF SaveDrag, LastBox
      <4> QED
        BY <4>1, <2>4, InvertedTwice
    <3>2. CASE ~(x # mouse.ox \/ y # mouse.oy)
      BY <1>5, <2>3, <2>4, <3>2 DEF SaveDrag, LastBox
    <3> QED
      BY <3>1, <3>2
  <2> QED
    BY <2>1, <2>2, <2>5 DEF SaveTypes, BoxKept
<1>6. CASE mouse.on = 1 /\ SaveRelease(x, y)
  <2> DEFINE left1 == Least(mouse.sx, mouse.ox)
             right1 == mouse.sx + mouse.ox - left1
             top1 == Least(mouse.sy, mouse.oy)
             bottom1 == mouse.sy + mouse.oy - top1
  <2>1. mouse.sx \in Nat /\ mouse.sy \in Nat /\ mouse.ox \in Nat /\ mouse.oy \in Nat
    BY DEF SaveTypes
  <2>2. /\ left1 \in Nat /\ right1 \in Nat /\ right1 - left1 + 1 \in Nat \ {0}
        /\ left1 + (right1 - left1 + 1) - 1 = right1
        /\ Least(left1, right1) = Least(mouse.sx, mouse.ox)
        /\ left1 + right1 = mouse.sx + mouse.ox
    BY <2>1, CornersSorted, ZenonT(60)
  <2>3. /\ top1 \in Nat /\ bottom1 \in Nat /\ bottom1 - top1 + 1 \in Nat \ {0}
        /\ top1 + (bottom1 - top1 + 1) - 1 = bottom1
        /\ Least(top1, bottom1) = Least(mouse.sy, mouse.oy)
        /\ top1 + bottom1 = mouse.sy + mouse.oy
    BY <2>1, CornersSorted, ZenonT(60)
  <2>4. /\ sel' = [x |-> left1, y |-> top1, w |-> right1 - left1 + 1,
                   h |-> bottom1 - top1 + 1]
        /\ boxes' = Inverted(boxes, Box(left1, top1, right1, bottom1))
        /\ mouse' = [mouse EXCEPT !.sx = left1, !.sy = top1, !.ox = right1, !.oy = bottom1]
        /\ cursor' = FALSE /\ by' = "button" /\ pc' = "save"
    BY <1>6 DEF SaveRelease
  <2>5. Box(left1, top1, right1, bottom1) = LastBox
    BY <2>2, <2>3 DEF Box, LastBox
  <2> HIDE DEF left1, right1, top1, bottom1
  <2>6. boxes' = {}
    BY <1>3, <1>6, <2>4, <2>5, InvertedTwice
  <2>7. /\ mouse' \in [sx : Nat, sy : Nat, ox : Nat, oy : Nat, on : {0, 1}]
        /\ mouse'.sx = left1 /\ mouse'.sy = top1 /\ mouse'.ox = right1 /\ mouse'.oy = bottom1
    BY <2>2, <2>3, <2>4 DEF SaveTypes
  <2>8. /\ sel' \in [x : Nat, y : Nat, w : Nat \ {0}, h : Nat \ {0}]
        /\ sel'.x = left1 /\ sel'.y = top1
        /\ sel'.x + sel'.w - 1 = right1 /\ sel'.y + sel'.h - 1 = bottom1
    BY <2>2, <2>3, <2>4
  <2>9. LastBox' = Box(sel'.x, sel'.y, sel'.x + sel'.w - 1, sel'.y + sel'.h - 1)
    BY <2>7, <2>8, Zenon DEF LastBox
  <2> QED
    BY <2>4, <2>6, <2>7, <2>8, <2>9 DEF SaveTypes, BoxKept
<1>7. CASE mouse.on = 0 /\ SavePress(x, y)
  <2>1. mouse' = [sx |-> x, sy |-> y, ox |-> x, oy |-> y, on |-> 1]
        /\ pc' = "mouse" /\ sel' = sel /\ cursor' = FALSE
    BY <1>2, <1>7 DEF SavePress
  <2>2. LastBox' = Box(x, y, x, y)
    BY <2>1 DEF LastBox
  <2>3. boxes' = {LastBox'}
    <3>1. boxes = {}
      BY <1>3, <1>7
    <3>2. boxes' = Inverted(boxes, Box(x, y, x, y))
      BY <1>7 DEF SavePress
    <3> QED
      BY <2>2, <3>1, <3>2, InvertedTwice
  <2> QED
    BY <1>2, <2>1, <2>3 DEF SaveTypes, BoxKept
<1>8. CASE mouse.on = 0 /\ SaveIdle(x, y)
  <2>1. mouse' \in [sx : Nat, sy : Nat, ox : Nat, oy : Nat, on : {0, 1}] /\ mouse'.on = 0
    BY <1>2, <1>8 DEF SaveIdle, SaveTypes
  <2>2. pc' = "mouse" /\ boxes' = {} /\ sel' = sel /\ cursor' \in BOOLEAN
    BY <1>2, <1>3, <1>8 DEF SaveIdle, SaveTypes
  <2> QED
    BY <2>1, <2>2 DEF SaveTypes, BoxKept
<1> QED
  BY <1>1, <1>4, <1>5, <1>6, <1>7, <1>8

\* The other steps of bmpsave draw no box.
LEMMA SaveNextKeeps ==
  ASSUME SaveTypes, BoxKept, SaveNext
  PROVE  SaveTypes' /\ BoxKept'
<1>1. CASE SaveGinit
  BY <1>1 DEF SaveGinit, saveVars, SaveTypes, BoxKept, LastBox
<1>2. CASE SaveKeyC
  BY <1>2 DEF SaveKeyC, saveVars, SaveTypes, BoxKept, LastBox
<1>3. CASE SaveKeyS
  BY <1>3 DEF SaveKeyS, SaveTypes, BoxKept, LastBox
<1>4. CASE SaveKeyOther
  BY <1>4 DEF SaveKeyOther, saveVars, SaveTypes, BoxKept, LastBox
<1>5. CASE SaveMouse
  BY <1>5, SaveMouseKeeps
<1>6. CASE SaveWrite
  BY <1>6 DEF SaveWrite, SaveTypes, BoxKept, LastBox
<1> QED
  BY <1>1, <1>2, <1>3, <1>4, <1>5, <1>6 DEF SaveNext

\* Every step of the picture programs keeps the box as it was last drawn.
LEMMA SaveStepInv == ASSUME BoxInv, [Next]_vars PROVE BoxInv'
<1>1. CASE RunBmpSave
  BY <1>1, SaveNextKeeps DEF RunBmpSave, BoxInv
<1>2. CASE LoadSaved
  BY <1>2 DEF LoadSaved, BoxInv
<1>3. CASE prog # "bmpsave" /\ UNCHANGED prog
  BY <1>3 DEF BoxInv
<1>4. CASE UNCHANGED vars
  BY <1>4 DEF vars, gaVars, saveVars, BoxInv, SaveTypes, BoxKept, LastBox
<1>5. Next /\ ~RunBmpSave /\ ~LoadSaved => prog # "bmpsave" /\ UNCHANGED prog
  BY DEF Next, RunBmpLoad, RunRgbLoad, RunRgbld16, RunX68Load, RunTiffLoad
<1> QED
  BY <1>1, <1>2, <1>3, <1>4, <1>5

\* However the mouse is moved and whenever its buttons are pressed and let go: the
\* box on the screen is the one that was last drawn, it is taken away before the
\* picture is saved, and the part saved is the part it went around.
THEOREM BoxErasedHolds == Spec => []BoxErased
<1>1. BoxInv => BoxErased
  BY DEF BoxInv, BoxKept, LastBox, BoxErased
<1> QED
  BY <1>1, SaveInitInv, SaveStepInv, PTL DEF Spec

----------------------------------------------------------------------------
(* bmpsave: the file it writes is one that bmpload shows.                  *)

\* The bytes of the lines of the file.
SavedLines ==
  LET scan == SaveScan(sel.w)
  IN  [k \in 1 .. scan * sel.h |->
         <<sel.x + ((k - 1) % scan), sel.y + sel.h - 1 - ((k - 1) \div scan)>>]

\* The part marked fits the screen and its lines fit the buffer.
SelFits ==
  /\ sel.x \in Nat /\ sel.y \in Nat
  /\ sel.w \in Nat \ {0} /\ Mask4(sel.w + 3) <= BuffSize
  /\ sel.h \in 1 .. MaxHeight

MouseSeen ==
  /\ mouse.sx \in MouseX \cup {0} /\ mouse.ox \in MouseX \cup {0}
  /\ mouse.sy \in MouseY \cup {0} /\ mouse.oy \in MouseY \cup {0}

Saved == in = SavedHeader /\ file = SavedLines

SavedInv ==
  /\ SelFits
  /\ prog = "bmpsave" => MouseSeen /\ screen = <<>> /\ (pc = "end" => Saved)
  /\ prog = "bmpsave" /\ pc # "end" => file = <<>>
  /\ prog = "bmpload" /\ file # <<>> => Saved

\* At the start the part marked is the whole screen, and nothing is saved.
LEMMA SavedInit == ASSUME Init PROVE SavedInv
<1>1. SaveRest
  BY SMTT(40) DEF Init
<1>2. SelFits /\ MouseSeen /\ file = <<>>
  BY <1>1, SaveAssumption, BmpAssumption, GaAssumption DEF SaveRest, SelFits, MouseSeen
<1>3. prog = "bmpsave" => screen = <<>> /\ pc = "main"
  BY DEF Init, BmpStart, SaveStart, RgbStart, X68Start, TiffStart
<1> QED
  BY <1>2, <1>3 DEF SavedInv

\* A place of the mouse, or 0, is a number.
LEMMA NumberOrZero ==
  ASSUME NEW S \in SUBSET Nat, NEW a \in S \cup {0}
  PROVE  a \in Nat
OBVIOUS

\* The part marked is from one place of the mouse to another.
LEMMA ReleaseFits ==
  ASSUME MouseSeen, NEW x, NEW y, SaveRelease(x, y)
  PROVE  SelFits' /\ MouseSeen'
<1> DEFINE left1 == Least(mouse.sx, mouse.ox)
           right1 == mouse.sx + mouse.ox - left1
           top1 == Least(mouse.sy, mouse.oy)
           bottom1 == mouse.sy + mouse.oy - top1
<1>1. /\ mouse.sx \in Nat /\ mouse.ox \in Nat /\ mouse.sy \in Nat /\ mouse.oy \in Nat
      /\ MaxHeight \in Nat /\ MaxHeight > 0 /\ BuffSize \in Nat
  <2>1. MouseX \in SUBSET Nat /\ MouseY \in SUBSET Nat
    BY SaveAssumption, SMTT(40)
  <2>2. MaxHeight \in Nat /\ MaxHeight > 0 /\ BuffSize \in Nat
    BY BmpAssumption, GaAssumption, SMTT(40)
  <2>3. mouse.sx \in Nat /\ mouse.ox \in Nat
    BY <2>1, NumberOrZero, Zenon DEF MouseSeen
  <2>4. mouse.sy \in Nat /\ mouse.oy \in Nat
    BY <2>1, NumberOrZero, Zenon DEF MouseSeen
  <2> QED
    BY <2>2, <2>3, <2>4
<1>2. left1 \in MouseX \cup {0} /\ right1 \in MouseX \cup {0} /\ left1 <= right1
      /\ left1 \in Nat /\ right1 \in Nat
  <2>1. (left1 = mouse.sx /\ right1 = mouse.ox) \/ (left1 = mouse.ox /\ right1 = mouse.sx)
    BY <1>1 DEF Least
  <2>2. left1 <= right1
    BY <1>1 DEF Least
  <2> QED
    BY <1>1, <2>1, <2>2 DEF MouseSeen
<1>3. top1 \in MouseY \cup {0} /\ bottom1 \in MouseY \cup {0} /\ top1 <= bottom1
      /\ top1 \in Nat /\ bottom1 \in Nat
  <2>1. (top1 = mouse.sy /\ bottom1 = mouse.oy) \/ (top1 = mouse.oy /\ bottom1 = mouse.sy)
    BY <1>1 DEF Least
  <2>2. top1 <= bottom1
    BY <1>1 DEF Least
  <2> QED
    BY <1>1, <2>1, <2>2 DEF MouseSeen
<1>4. /\ sel' = [x |-> left1, y |-> top1, w |-> right1 - left1 + 1, h |-> bottom1 - top1 + 1]
      /\ mouse' = [mouse EXCEPT !.sx = left1, !.sy = top1, !.ox = right1, !.oy = bottom1]
  BY DEF SaveRelease
<1> HIDE DEF left1, right1, top1, bottom1
<1>5. Mask4(right1 + 4) <= BuffSize
  BY <1>1, <1>2, SaveAssumption DEF Mask4
<1>6. Mask4((right1 - left1 + 1) + 3) <= BuffSize /\ right1 - left1 + 1 \in Nat \ {0}
  BY <1>1, <1>2, <1>5 DEF Mask4
<1>7. bottom1 - top1 + 1 \in 1 .. MaxHeight
  <2>1. bottom1 < MaxHeight
    BY <1>1, <1>3, SaveAssumption
  <2> QED
    BY <1>1, <1>3, <2>1
<1>8. SelFits'
  BY <1>2, <1>3, <1>4, <1>6, <1>7 DEF SelFits
<1>9. mouse'.sx \in MouseX \cup {0} /\ mouse'.ox \in MouseX \cup {0}
      /\ mouse'.sy \in MouseY \cup {0} /\ mouse'.oy \in MouseY \cup {0}
  BY <1>2, <1>3, <1>4
<1> QED
  BY <1>8, <1>9 DEF MouseSeen

\* Every step of bmpsave keeps the part marked on the screen and the file, once
\* written, what that part showed.
LEMMA SavedSaveNext ==
  ASSUME SavedInv, SaveTypes, prog = "bmpsave", SaveNext, prog' = prog
  PROVE  SavedInv'
<1>1. SelFits /\ MouseSeen /\ screen = <<>> /\ (pc # "end" => file = <<>>)
  BY DEF SavedInv
<1>2. pc # "end" /\ screen' = screen
  BY DEF SaveNext, SaveGinit, SaveKeyC, SaveKeyS, SaveKeyOther, SaveMouse, SaveWrite
<1>3. ASSUME UNCHANGED <<sel, mouse, file>>, pc' # "end" PROVE SavedInv'
  BY <1>1, <1>2, <1>3 DEF SavedInv, SelFits, MouseSeen
<1>4. CASE SaveGinit \/ SaveKeyC \/ SaveKeyS \/ SaveKeyOther
  <2>1. UNCHANGED <<sel, mouse, file>> /\ pc' # "end"
    BY <1>2, <1>4 DEF SaveGinit, SaveKeyC, SaveKeyS, SaveKeyOther, saveVars
  <2> QED
    BY <1>3, <2>1
<1>5. CASE SaveMouse
  <2>1. PICK x \in MouseX, y \in MouseY, left \in BOOLEAN, right \in BOOLEAN :
          \/ mouse.on = 1 /\ right /\ SaveCancel(x, y)
          \/ mouse.on = 1 /\ ~right /\ left /\ SaveDrag(x, y)
          \/ mouse.on = 1 /\ ~right /\ ~left /\ SaveRelease(x, y)
          \/ mouse.on = 0 /\ left /\ SavePress(x, y)
          \/ mouse.on = 0 /\ ~left /\ SaveIdle(x, y)
    BY <1>5 DEF SaveMouse
  <2>2. file' = file /\ pc = "mouse"
    BY <1>5 DEF SaveMouse
  <2>3. CASE SaveRelease(x, y)
    <3>1. SelFits' /\ MouseSeen' /\ pc' = "save"
      BY <1>1, <2>3, ReleaseFits DEF SaveRelease
    <3> QED
      BY <1>1, <1>2, <2>2, <3>1 DEF SavedInv
  <2>4. CASE ~SaveRelease(x, y)
    <3>1. sel' = sel /\ pc' # "end"
      BY <2>1, <2>2, <2>4 DEF SaveCancel, SaveDrag, SavePress, SaveIdle
    <3>2. SelFits'
      BY <1>1, <3>1 DEF SelFits
    <3>3. MouseSeen'
      <4>1. \/ mouse' = [sx |-> x, sy |-> y, ox |-> x, oy |-> y, on |-> 1]
            \/ mouse' = [mouse EXCEPT !.ox = x, !.oy = y]
            \/ mouse' = [mouse EXCEPT !.on = 0, !.ox = x, !.oy = y]
        BY <2>1, <2>4 DEF SaveCancel, SaveDrag, SavePress, SaveIdle
      <4>2. mouse \in [sx : Nat, sy : Nat, ox : Nat, oy : Nat, on : {0, 1}]
        BY DEF SaveTypes
      <4>3. /\ mouse'.sx \in {x, mouse.sx} /\ mouse'.sy \in {y, mouse.sy}
            /\ mouse'.ox = x /\ mouse'.oy = y
        <5>1. CASE mouse' = [sx |-> x, sy |-> y, ox |-> x, oy |-> y, on |-> 1]
          BY <5>1
        <5>2. CASE mouse' = [mouse EXCEPT !.ox = x, !.oy = y]
          BY <4>2, <5>2
        <5>3. CASE mouse' = [mouse EXCEPT !.on = 0, !.ox = x, !.oy = y]
          BY <4>2, <5>3
        <5> QED
          BY <4>1, <5>1, <5>2, <5>3
      <4>4. mouse'.sx \in MouseX \cup {0} /\ mouse'.ox \in MouseX \cup {0}
        BY <1>1, <4>3, Zenon DEF MouseSeen
      <4>5. mouse'.sy \in MouseY \cup {0} /\ mouse'.oy \in MouseY \cup {0}
        BY <1>1, <4>3, Zenon DEF MouseSeen
      <4> QED
        BY <4>4, <4>5 DEF MouseSeen
    <3> QED
      BY <1>1, <1>2, <2>2, <3>1, <3>2, <3>3 DEF SavedInv
  <2> QED
    BY <2>3, <2>4
<1>6. CASE SaveWrite
  <2>1. UNCHANGED <<sel, mouse>>
    BY <1>6 DEF SaveWrite
  <2>2. SelFits' /\ MouseSeen'
    BY <1>1, <2>1 DEF SelFits, MouseSeen
  <2>3. CASE pc' = "error"
    <3>1. file' = file
      BY <1>6, <2>3 DEF SaveWrite
    <3> QED
      BY <1>3, <2>1, <2>3, <3>1
  <2>4. CASE pc' = "end"
    <3>1. in' = SavedHeader /\ file' = SavedLines
      BY <1>6, <2>4 DEF SaveWrite, SavedLines
    <3>2. SavedHeader' = SavedHeader /\ SavedLines' = SavedLines
      BY <2>1 DEF SavedHeader, SavedLines
    <3>3. Saved'
      BY <3>1, <3>2 DEF Saved
    <3> QED
      BY <1>1, <1>2, <2>2, <2>4, <3>3 DEF SavedInv
  <2> QED
    BY <1>6, <2>3, <2>4 DEF SaveWrite
<1> QED
  BY <1>4, <1>5, <1>6 DEF SaveNext

\* The header of a saved file is that of a picture bmpload can show.
LEMMA SavedIsBmp ==
  ASSUME SelFits
  PROVE  IsBmpFile(SavedHeader)
<1>1. sel.w \in Nat /\ sel.w >= 1 /\ sel.h \in Nat /\ LutSize \in 0 .. BuffSize - 1
      /\ LutSize \in Nat /\ Mask4(sel.w + 3) <= BuffSize
  BY SaveAssumption, BmpAssumption, SMTT(40) DEF SelFits
<1> DEFINE scan == SaveScan(sel.w)
<1>2. scan \in Nat /\ ((8 * sel.w + 31) \div 32) * 4 = Mask4(sel.w + 3)
  <2> DEFINE q == (sel.w + 3) \div 4
  <2>1. q \in Nat /\ sel.w + 3 \in 4 * q .. 4 * q + 3
    BY <1>1
  <2>2. (sel.w + 3) - ((sel.w + 3) % 4) = 4 * q
    BY <1>1, <2>1
  <2> HIDE DEF q
  <2>3. (8 * sel.w + 31) \div 32 = q
    BY <1>1, <2>1
  <2> QED
    BY <2>1, <2>2, <2>3 DEF SaveScan, Mask4
<1> HIDE DEF scan
<1>3. scan * sel.h \in Nat
  BY <1>1, <1>2
<1>4. LutSize + scan * sel.h \in Nat
  BY <1>1, <1>3
<1> QED
  BY <1>1, <1>2, <1>4, SMTT(40) DEF IsBmpFile, SavedHeader, scan

\* The place of a byte in a line, and its line.
LEMMA PlaceInLines ==
  ASSUME NEW s \in Nat \ {0}, NEW k \in Nat, NEW j \in 0 .. s - 1
  PROVE  (k * s + j) % s = j /\ (k * s + j) \div s = k
<1> DEFINE m == k * s + j
           q == m \div s
           t == m % s
<1>1. k * s \in Nat /\ m \in Nat /\ j \in Nat
  OBVIOUS
<1>2. q \in Nat /\ t \in 0 .. s - 1 /\ m = q * s + t /\ q * s \in Nat
  BY <1>1
<1> HIDE DEF q, t
<1>3. m = k * s + j
  OBVIOUS
<1> HIDE DEF m
<1>4. q = k
  <2>1. ASSUME q > k PROVE FALSE
    <3> DEFINE d == q - k - 1
    <3>1. d \in Nat /\ q = k + 1 + d
      BY <1>2, <2>1
    <3> HIDE DEF d
    <3>2. d * s \in Nat /\ q * s = k * s + s + d * s
      BY <3>1
    <3> QED
      BY <1>1, <1>2, <1>3, <3>2
  <2>2. ASSUME q < k PROVE FALSE
    <3> DEFINE d == k - q - 1
    <3>1. d \in Nat /\ k = q + 1 + d
      BY <1>2, <2>2
    <3> HIDE DEF d
    <3>2. d * s \in Nat /\ k * s = q * s + s + d * s
      BY <1>2, <3>1
    <3> QED
      BY <1>1, <1>2, <1>3, <3>2
  <2> QED
    BY <1>2, <2>1, <2>2
<1>5. t = j
  BY <1>1, <1>2, <1>3, <1>4
<1> QED
  BY <1>4, <1>5 DEF m, q, t

\* What is kept of the saved file and of the loader that reads it back says that
\* it is shown as it was.
LEMMA SavedTells == ASSUME BmpInv, SavedInv PROVE SavedReloads
<1> SUFFICES ASSUME prog = "bmpload", file # <<>>, pc = "keys"
             PROVE  /\ {screen[k].y : k \in 1 .. Len(screen)} = 1 .. sel.h - 1
                    /\ \A k \in 1 .. Len(screen) :
                         /\ Len(screen[k].px) = sel.w
                         /\ \A x \in 1 .. sel.w :
                              /\ screen[k].px[x][1] - LutSize + 1 \in DOMAIN file
                              /\ file[screen[k].px[x][1] - LutSize + 1]
                                 = <<sel.x + x - 1, sel.y + screen[k].y>>
  BY SMTT(40) DEF SavedReloads
<1>1. in = SavedHeader /\ file = SavedLines /\ SelFits
  BY DEF SavedInv, Saved
<1>2. IsBmpFile(in) /\ BmpKept
  BY <1>1, SavedIsBmp DEF BmpInv, BmpPlain, SavedHeader
<1> DEFINE n == Len(screen)
           s == SaveScan(sel.w)
           h == sel.h
           w == sel.w
<1>3. in.bit = 8 /\ in.w = w /\ in.h = h /\ in.lut = LutSize /\ in.len = LutSize + s * h
  BY <1>1 DEF SavedHeader
<1>4. w \in Nat /\ w >= 1 /\ h \in 1 .. MaxHeight /\ LutSize \in Nat /\ MaxHeight \in Nat
      /\ sel.x \in Nat /\ sel.y \in Nat
  BY <1>1, SaveAssumption, BmpAssumption, GaAssumption, SMTT(40) DEF SelFits
<1>5. BmpStride = s /\ s \in Nat \ {0} /\ BmpUsed = w /\ w <= s
  <2>1. BmpStride \in Nat \ {0} /\ BmpUsed \in 1 .. BmpStride /\ BmpScan = BmpStride
    BY <1>2, ScanIsStride, GaAssumption
  <2>2. BmpScan = s
    BY <1>3 DEF BmpScan, SaveScan
  <2>3. BmpUsed = w
    BY <1>3, <1>4, SMTT(40) DEF BmpUsed
  <2> QED
    BY <2>1, <2>2, <2>3
<1>6. BmpHeight = h
  BY <1>3, <1>4 DEF BmpHeight, Least
<1>7. n \in Nat /\ BmpDrawn /\ BmpEnds
  BY <1>2, Appended DEF BmpKept, BmpDrawn, BmpPhase
<1> HIDE DEF s, h, w, n
<1>8. n = h - 1
  <2>1. n < h /\ (n >= h - 1 \/ BmpAt(n) >= in.len)
    BY <1>3, <1>4, <1>6, <1>7 DEF BmpEnds, n
  <2>2. ASSUME BmpAt(n) >= in.len PROVE n >= h
    <3>1. n * s \in Nat /\ s * h \in Nat /\ s * h = h * s
      BY <1>4, <1>5, <1>7
    <3>2. s * h <= n * s
      BY <1>3, <1>4, <1>5, <2>2, <3>1 DEF BmpAt
    <3>3. (s * h) \div s <= n
      BY <1>5, <1>7, <3>1, <3>2, QuotientLeast
    <3>4. (h * s + 0) \div s = h
      BY <1>4, <1>5, PlaceInLines
    <3> QED
      BY <3>1, <3>3, <3>4
  <2> QED
    BY <1>4, <1>7, <2>1, <2>2
<1>9. ASSUME NEW k \in 1 .. n
      PROVE  /\ screen[k].y = h - k /\ screen[k].px = BmpLine(k - 1)
  <2>1. k - 1 \in 0 .. n - 1 /\ (k - 1) + 1 = k
    BY <1>7
  <2>2. BmpLineShown(k - 1, screen[k])
    BY <1>7, <2>1 DEF BmpDrawn, n
  <2>3. BmpAt(k - 1) + BmpUsed <= in.len
    <3>1. k \in Nat /\ h - k \in Nat /\ k - 1 \in Nat
      BY <1>4, <1>7, <1>8
    <3> DEFINE d == h - k
               e == k - 1
    <3>2. d \in Nat /\ e \in Nat /\ h = e + 1 + d
      BY <1>4, <3>1
    <3> HIDE DEF d, e
    <3>3. s * h = e * s + s + d * s /\ e * s \in Nat /\ d * s \in Nat
      BY <1>5, <3>2
    <3>4. BmpAt(e) = LutSize + e * s
      BY <1>3, <1>5 DEF BmpAt
    <3>5. BmpAt(e) + BmpUsed <= in.len
      BY <1>3, <1>4, <1>5, <3>3, <3>4
    <3> QED
      BY <3>5 DEF e
  <2> QED
    BY <1>4, <1>6, <1>7, <2>2, <2>3 DEF BmpLineShown
<1>10. {screen[k].y : k \in 1 .. n} = 1 .. h - 1
  <2>1. ASSUME NEW y \in 1 .. h - 1 PROVE \E k \in 1 .. n : screen[k].y = y
    <3>1. h - y \in 1 .. n /\ h - (h - y) = y
      BY <1>4, <1>8
    <3> QED
      BY <1>9, <3>1
  <2>2. ASSUME NEW k \in 1 .. n PROVE screen[k].y \in 1 .. h - 1
    BY <1>4, <1>8, <1>9
  <2> QED
    BY <2>1, <2>2
<1>11. ASSUME NEW k \in 1 .. n, NEW x \in 1 .. w
       PROVE  /\ Len(screen[k].px) = w
              /\ screen[k].px[x][1] - LutSize + 1 \in DOMAIN file
              /\ file[screen[k].px[x][1] - LutSize + 1]
                 = <<sel.x + x - 1, sel.y + screen[k].y>>
  <2> DEFINE e == k - 1
             place == e * s + x
  <2>1. e \in Nat /\ e \in 0 .. h - 2 /\ x - 1 \in 0 .. s - 1 /\ x \in Nat
    BY <1>4, <1>5, <1>7, <1>8
  <2>2. screen[k].px = BmpLine(e)
    BY <1>9
  <2>3. screen[k].px = [z \in 1 .. w |-> << (LutSize + e * s) + (z - 1) \div (8 \div 8),
                                           (z - 1) % (8 \div 8)>>]
    BY <1>3, <1>5, <2>2 DEF BmpLine
  <2> HIDE DEF e
  <2>4. Len(screen[k].px) = w
    BY <1>4, <2>3
  <2>5. e * s \in Nat
    BY <1>5, <2>1
  <2>6. screen[k].px[x][1] = LutSize + e * s + (x - 1)
    <3>1. (x - 1) \div (8 \div 8) = x - 1
      BY <2>1
    <3> QED
      BY <2>3, <2>5, <3>1
  <2>7. screen[k].px[x][1] - LutSize + 1 = place /\ place \in Nat /\ place - 1 = e * s + (x - 1)
    BY <1>4, <2>1, <2>5, <2>6
  <2> HIDE DEF place
  <2>8. (place - 1) % s = x - 1 /\ (place - 1) \div s = e
    BY <1>5, <2>1, <2>7, PlaceInLines, SMTT(40)
  <2>9. place \in 1 .. s * h
    <3> DEFINE d == h - 1 - e
    <3>1. d \in Nat /\ h = e + 1 + d
      BY <1>4, <2>1
    <3> HIDE DEF d
    <3>2. s * h = e * s + s + d * s /\ d * s \in Nat
      BY <1>5, <2>1, <3>1
    <3> QED
      BY <1>4, <1>5, <2>1, <2>5, <2>7, <3>2
  <2>10. file = [i \in 1 .. s * h |->
                  <<sel.x + ((i - 1) % s), sel.y + h - 1 - ((i - 1) \div s)>>]
    BY <1>1 DEF SavedLines, s, h
  <2>11. file[place] = <<sel.x + ((place - 1) % s), sel.y + h - 1 - ((place - 1) \div s)>>
         /\ place \in DOMAIN file
    BY <2>9, <2>10
  <2>12. sel.x + (x - 1) = sel.x + x - 1 /\ sel.y + h - 1 - e = sel.y + screen[k].y
    <3>1. screen[k].y = h - k /\ k \in Int /\ e = k - 1
      BY <1>9 DEF e
    <3> QED
      BY <1>4, <3>1
  <2> QED
    BY <2>4, <2>7, <2>8, <2>11, <2>12
<1>12. ASSUME NEW k \in 1 .. n PROVE Len(screen[k].px) = w
  <2>1. 1 \in 1 .. w
    BY <1>4
  <2> QED
    BY <1>11, <2>1
<1> QED
  BY <1>10, <1>11, <1>12 DEF n, h, w

----------------------------------------------------------------------------
(* rgbload and rgbld16.                                                    *)

\* The bytes of a line, and where line n is.
RgbSize == 3 * in.w
RgbAt(n) == n * RgbSize

\* The widths the programs are made for.
RgbWide == in.w \in 1 .. (IF prog = "rgbload" THEN LineBytes ELSE 2 * LineBytes)

\* Where a dot of the screen says that its byte is.
RgbChannel(v) == IF prog = "rgbload" THEN v[1] ELSE v

\* The dot of three bytes from p on.
RgbDotAt(dot, p) ==
  /\ RgbChannel(dot.red) = p /\ RgbChannel(dot.green) = p + 1 /\ RgbChannel(dot.blue) = p + 2

RgbLineShown(k, shown) ==
  /\ shown.x = 0 /\ shown.y = k
  /\ RgbAt(k) + RgbSize <= rd.len =>
       \A x \in 1 .. in.w : RgbDotAt(shown.px[x], RgbAt(k) + 3 * (x - 1))

RgbDrawn ==
  /\ IsSequence(screen)
  /\ \A k \in 0 .. Len(screen) - 1 : RgbLineShown(k, screen[k + 1])

\* Of a line under way the dots to the left are done.
RgbLineBegun ==
  /\ IsSequence(line) /\ Len(line) <= in.w
  /\ \A x \in 1 .. Len(line) : \A c \in Colour : line[x][c][1] = rd.buff[RgbPlace(c, x)]

RgbEnds ==
  /\ RgbAt(Len(screen)) - rd.len < BuffSize
  /\ pc = "keys" => Len(screen) >= in.h \/ RgbAt(Len(screen)) >= rd.len

\* What comes next in the file is the line that is drawn next, or the one after
\* the line that is under way.
RgbReading ==
  /\ pc = "row" /\ RgbWide =>
       /\ Reader(rd, RgbSize, RgbAt(Len(screen)))
       /\ Within(rd, RgbAt(Len(screen)), BuffSize) \/ rd.remain = 0
  /\ pc = "dot" =>
       /\ RgbWide
       /\ Reader(rd, RgbSize, RgbAt(Len(screen)) + RgbSize)
       /\ Within(rd, RgbAt(Len(screen)) + RgbSize, BuffSize)
       /\ LineRead(rd, RgbSize, RgbAt(Len(screen)))
       /\ RgbLineBegun
  /\ pc \in {"row", "dot"} => row = Len(screen)

RgbPhase ==
  /\ pc \in {"main", "ginit", "row", "dot", "keys", "end", "error", "fault"}
  /\ ~RgbWide \/ pc \in {"main", "ginit", "error"} => screen = <<>>
  /\ pc \in {"main", "ginit"} => row = 0 /\ rd = Opened(Len(in.data))
  /\ rd.len = Len(in.data)

RgbKept == IsRgbFile(in) /\ RgbDrawn /\ RgbEnds /\ RgbReading /\ RgbPhase
RgbInv == prog \in {"rgbload", "rgbld16"} => RgbKept

\* The numbers the RGB loaders compute with.
LEMMA RgbSizes ==
  ASSUME IsRgbFile(in)
  PROVE  /\ in.w \in Nat /\ in.h \in Nat /\ RgbSize \in Nat /\ Len(in.data) \in Nat
         /\ LineBytes \in Nat /\ BuffSize \in Nat
         /\ RgbWide => RgbSize \in 1 .. BuffSize
         /\ \A n \in Nat : RgbAt(n) \in Nat /\ RgbAt(n + 1) = RgbAt(n) + RgbSize
         /\ RgbAt(0) = 0
<1>1. in.w \in Nat /\ in.h \in Nat /\ RgbSize \in Nat /\ Len(in.data) \in Nat
  BY DEF IsRgbFile, RgbSize
<1>2. LineBytes \in Nat /\ BuffSize \in Nat /\ 6 * LineBytes <= BuffSize
  BY RgbAssumption, GaAssumption
<1>3. RgbWide => RgbSize \in 1 .. BuffSize
  BY <1>1, <1>2 DEF RgbWide, RgbSize
<1> DEFINE s == RgbSize
<1>4. s \in Nat
  BY <1>1
<1> HIDE DEF s
<1>5. \A n \in Nat : n * s \in Nat /\ (n + 1) * s = n * s + s
  BY <1>4
<1>6. 0 * s = 0
  BY <1>4
<1> QED
  BY <1>1, <1>2, <1>3, <1>5, <1>6 DEF RgbAt, s

\* Dots of three bytes, counted by lines.
LEMMA ThreeTimes ==
  ASSUME NEW k \in Nat, NEW w \in Nat
  PROVE  /\ k * (3 * w) \in Nat /\ k * (3 * w) = k * 3 * w
         /\ k * (3 * w) + 3 * w = (k + 1) * 3 * w
<1>1. k * w \in Nat /\ (k + 1) * w = k * w + w
  OBVIOUS
<1>2. k * (3 * w) = 3 * (k * w) /\ k * 3 * w = 3 * (k * w)
  OBVIOUS
<1>3. (k + 1) * 3 * w = 3 * ((k + 1) * w)
  OBVIOUS
<1> QED
  BY <1>1, <1>2, <1>3

\* What is kept says that the lines of an RGB file are in their places.
LEMMA RgbInvTells ==
  ASSUME RgbInv
  PROVE  /\ prog = "rgbload" => RgbLoadRowsInPlace
         /\ prog = "rgbld16" => Rgb16RowsInPlace
<1> SUFFICES ASSUME RgbKept
             PROVE  /\ prog = "rgbload" => RgbLoadRowsInPlace
                    /\ prog = "rgbld16" => Rgb16RowsInPlace
  BY DEF RgbInv
<1>1. IsRgbFile(in) /\ RgbDrawn /\ RgbEnds /\ RgbPhase
  BY DEF RgbKept
<1> DEFINE n == Len(screen)
           w == in.w
<1>2. n \in Nat /\ w \in Nat /\ in.h \in Nat /\ rd.len \in Nat
  BY <1>1, RgbSizes, Appended DEF RgbDrawn, RgbPhase
<1>3. ASSUME NEW k \in 0 .. n - 1
      PROVE  /\ screen[k + 1].x = 0 /\ screen[k + 1].y = k
             /\ (k + 1) * 3 * w <= rd.len =>
                  \A x \in 1 .. w :
                    /\ RgbChannel(screen[k + 1].px[x].red) = k * 3 * w + 3 * x - 3
                    /\ RgbChannel(screen[k + 1].px[x].green) = k * 3 * w + 3 * x - 2
                    /\ RgbChannel(screen[k + 1].px[x].blue) = k * 3 * w + 3 * x - 1
  <2>1. k \in Nat /\ RgbLineShown(k, screen[k + 1])
    BY <1>1 DEF RgbDrawn
  <2> DEFINE p == RgbAt(k)
  <2>2. p \in Nat /\ p = k * 3 * w /\ p + 3 * w = (k + 1) * 3 * w /\ RgbSize = 3 * w
    BY <1>2, <2>1, ThreeTimes DEF RgbAt, RgbSize
  <2> HIDE DEF p
  <2>3. ASSUME (k + 1) * 3 * w <= rd.len, NEW x \in 1 .. w
        PROVE  /\ RgbChannel(screen[k + 1].px[x].red) = p + 3 * x - 3
               /\ RgbChannel(screen[k + 1].px[x].green) = p + 3 * x - 2
               /\ RgbChannel(screen[k + 1].px[x].blue) = p + 3 * x - 1
    <3>1. p + RgbSize <= rd.len
      BY <2>2, <2>3
    <3>2. RgbDotAt(screen[k + 1].px[x], p + 3 * (x - 1))
      BY <2>1, <3>1 DEF RgbLineShown, p
    <3>3. p + 3 * (x - 1) = p + 3 * x - 3 /\ p + 3 * (x - 1) + 1 = p + 3 * x - 2
          /\ p + 3 * (x - 1) + 2 = p + 3 * x - 1
      BY <1>2, <2>2, SMTT(40)
    <3> QED
      BY <3>2, <3>3 DEF RgbDotAt
  <2> QED
    BY <2>1, <2>2, <2>3 DEF RgbLineShown
<1>4. n * 3 * w - rd.len < BuffSize
  <2>1. RgbAt(n) = n * 3 * w
    BY <1>2, ThreeTimes DEF RgbAt, RgbSize
  <2> QED
    BY <1>1, <2>1 DEF RgbEnds
<1>5. ASSUME pc = "keys", w > 0
      PROVE  n >= Least(in.h, rd.len \div (3 * w))
  <2> DEFINE s == RgbSize
  <2>1. s \in Nat \ {0} /\ s = 3 * w
    BY <1>2, <1>5 DEF RgbSize
  <2>2. n >= in.h \/ n * s >= rd.len
    BY <1>1, <1>5 DEF RgbEnds, RgbAt
  <2> HIDE DEF s
  <2>3. n * s >= rd.len => rd.len \div s <= n
    BY <1>2, <2>1, QuotientLeast, SMTT(40)
  <2>4. rd.len \div s \in Int
    BY <1>2, <2>1
  <2>5. n >= Least(in.h, rd.len \div s)
    BY <1>2, <2>2, <2>3, <2>4 DEF Least
  <2> QED
    BY <2>1, <2>5
<1>6. ASSUME prog = "rgbload" PROVE RgbLoadRowsInPlace
  <2>1. \A v : RgbChannel(v) = v[1]
    BY <1>6 DEF RgbChannel
  <2> QED
    BY <1>3, <1>4, <1>5, <2>1 DEF RgbLoadRowsInPlace, RgbRowsInPlace
<1>7. ASSUME prog = "rgbld16" PROVE Rgb16RowsInPlace
  <2>1. \A v : RgbChannel(v) = v
    BY <1>7 DEF RgbChannel
  <2> HIDE DEF n, w
  <2>2. ASSUME NEW k \in 0 .. n - 1
        PROVE  /\ screen[k + 1].x = 0 /\ screen[k + 1].y = k
               /\ (k + 1) * 3 * w <= rd.len =>
                  \A x \in 1 .. w :
                    /\ screen[k + 1].px[x].red = k * 3 * w + 3 * x - 3
                    /\ screen[k + 1].px[x].green = k * 3 * w + 3 * x - 2
                    /\ screen[k + 1].px[x].blue = k * 3 * w + 3 * x - 1
    BY <1>3, <2>1
  <2> USE DEF n, w
  <2> QED
    BY <1>4, <1>5, <2>2 DEF Rgb16RowsInPlace, RgbRowsInPlace
<1> QED
  BY <1>6, <1>7

\* What a step that leaves the file and the program as they are leaves true.
LEMMA RgbFrame ==
  ASSUME IsRgbFile(in), RgbPhase, in' = in, prog' = prog, rd'.len = rd.len
  PROVE  /\ IsRgbFile(in)' /\ RgbSize' = RgbSize /\ RgbWide' = RgbWide
         /\ rd'.len = Len(in'.data)
         /\ \A k : RgbAt(k)' = RgbAt(k)
         /\ \A k, l : RgbLineShown(k, l)' <=> RgbLineShown(k, l)
<1>1. IsRgbFile(in)' /\ RgbSize' = RgbSize /\ RgbWide' = RgbWide /\ rd'.len = Len(in'.data)
  BY DEF IsRgbFile, RgbSize, RgbWide, RgbPhase
<1>2. \A k : RgbAt(k)' = RgbAt(k)
  BY <1>1 DEF RgbAt
<1>3. \A d, p : RgbDotAt(d, p)' <=> RgbDotAt(d, p)
  BY DEF RgbDotAt, RgbChannel
<1>4. \A k, l : RgbLineShown(k, l)' <=> RgbLineShown(k, l)
  BY <1>1, <1>2, <1>3 DEF RgbLineShown
<1> QED
  BY <1>1, <1>2, <1>4

\* The programs begin with nothing on the screen.
LEMMA RgbEmpty ==
  ASSUME IsRgbFile(in), screen = <<>>, rd = Opened(Len(in.data)), pc # "keys"
  PROVE  RgbDrawn /\ RgbEnds /\ rd.len = Len(in.data)
         /\ (RgbWide => Reader(rd, RgbSize, RgbAt(Len(screen)))) /\ rd.remain = 0
<1>1. Len(in.data) \in Nat /\ BuffSize \in Nat /\ BuffSize > 0
      /\ RgbAt(0) = 0 /\ (RgbWide => RgbSize \in 1 .. BuffSize)
  BY RgbSizes, GaAssumption
<1>2. rd.len = Len(in.data) /\ rd.remain = 0
      /\ \A s \in 1 .. BuffSize : Reader(rd, s, 0)
  BY <1>1, OpenedIs
<1>3. Len(screen) = 0 /\ IsSequence(screen)
  BY EmptyIsSequence
<1> QED
  BY <1>1, <1>2, <1>3 DEF RgbDrawn, RgbEnds

\* Steps that draw nothing and read nothing.
LEMMA RgbQuiet ==
  ASSUME RgbKept, UNCHANGED <<in, prog, rd, row, screen>>,
         pc' \in {"main", "ginit", "keys", "end", "error", "fault"},
         pc' = "keys" => pc = "keys" \/ Len(screen) >= in.h,
         pc' \in {"main", "ginit"} => pc \in {"main", "ginit"},
         ~RgbWide \/ pc' = "error" => screen = <<>>
  PROVE  RgbKept'
<1>1. IsRgbFile(in) /\ RgbDrawn /\ RgbEnds /\ RgbPhase
  BY DEF RgbKept
<1>2. /\ IsRgbFile(in)' /\ RgbSize' = RgbSize /\ RgbWide' = RgbWide
      /\ rd'.len = Len(in'.data)
      /\ \A k : RgbAt(k)' = RgbAt(k)
      /\ \A k, l : RgbLineShown(k, l)' <=> RgbLineShown(k, l)
  BY <1>1, RgbFrame
<1>3. RgbDrawn'
  BY <1>1, <1>2 DEF RgbDrawn
<1>4. RgbEnds'
  <2>1. RgbAt(Len(screen))' = RgbAt(Len(screen))
    BY <1>2
  <2> QED
    BY <1>1, <1>2, <2>1 DEF RgbEnds
<1>5. RgbReading'
  BY DEF RgbReading
<1>6. RgbPhase'
  BY <1>1, <1>2 DEF RgbPhase
<1> QED
  BY <1>2, <1>3, <1>4, <1>5, <1>6 DEF RgbKept

\* The reader is started.
LEMMA RgbGinitKeeps ==
  ASSUME RgbKept, pc = "ginit", pc' = "row", screen' = <<>>, UNCHANGED <<in, prog, rd, row>>
  PROVE  RgbKept'
<1>1. IsRgbFile(in) /\ RgbPhase /\ screen = <<>> /\ rd = Opened(Len(in.data)) /\ row = 0
  BY DEF RgbKept, RgbPhase
<1>2. /\ IsRgbFile(in)' /\ RgbSize' = RgbSize /\ RgbWide' = RgbWide
      /\ rd'.len = Len(in'.data)
      /\ \A k : RgbAt(k)' = RgbAt(k)
      /\ \A k, l : RgbLineShown(k, l)' <=> RgbLineShown(k, l)
  BY <1>1, RgbFrame
<1>3. RgbDrawn /\ RgbEnds /\ (RgbWide => Reader(rd, RgbSize, RgbAt(Len(screen))))
      /\ rd.remain = 0
  BY <1>1, RgbEmpty
<1>4. RgbDrawn'
  BY <1>1, <1>2, <1>3 DEF RgbDrawn
<1>5. RgbAt(Len(screen))' = RgbAt(Len(screen)) /\ Len(screen)' = 0
  BY <1>1, <1>2, EmptyIsSequence
<1>6. RgbEnds'
  BY <1>1, <1>2, <1>3, <1>5 DEF RgbEnds
<1>7. RgbReading'
  BY <1>1, <1>2, <1>3, <1>5 DEF RgbReading
<1>8. RgbPhase'
  BY <1>1, <1>2 DEF RgbPhase
<1> QED
  BY <1>2, <1>4, <1>6, <1>7, <1>8 DEF RgbKept

\* What a line read brings, in either program.
LEMMA RgbReads ==
  ASSUME RgbKept, RgbWide, pc = "row"
  PROVE  LET n == Len(screen)
             t == FreadLine(rd, RgbSize)
         IN  /\ n \in Nat /\ row = n /\ RgbAt(n) \in Nat /\ RgbAt(n + 1) = RgbAt(n) + RgbSize
             /\ t.len = rd.len /\ Reader(t, RgbSize, RgbAt(n) + RgbSize)
             /\ LineRead(t, RgbSize, RgbAt(n))
             /\ t.ret = 0 => RgbAt(n) >= rd.len
             /\ t.ret # 0 => Within(t, RgbAt(n) + RgbSize, BuffSize)
                             /\ RgbAt(n) + RgbSize - rd.len < BuffSize
<1> DEFINE n == Len(screen)
           p == RgbAt(n)
           t == FreadLine(rd, RgbSize)
<1>1. IsRgbFile(in) /\ Reader(rd, RgbSize, p) /\ (Within(rd, p, BuffSize) \/ rd.remain = 0)
      /\ row = n /\ n \in Nat
  BY Appended DEF RgbKept, RgbReading, RgbDrawn
<1>2. RgbSize \in 1 .. BuffSize /\ p \in Nat /\ BuffSize \in Nat /\ RgbAt(n + 1) = p + RgbSize
  BY <1>1, RgbSizes
<1> HIDE DEF p
<1>3. /\ Reader(t, RgbSize, p + RgbSize) /\ LineRead(t, RgbSize, p) /\ t.len = rd.len
      /\ t.ret = 0 => p >= rd.len
  BY <1>1, <1>2, FreadLineGives
<1>4. Room(RgbSize) <= BuffSize
  BY <1>2, RoomFits
<1>5. ASSUME t.ret # 0 PROVE Within(t, p + RgbSize, BuffSize) /\ p + RgbSize - rd.len < BuffSize
  <2>1. Within(t, p + RgbSize, BuffSize)
    BY <1>1, <1>2, <1>4, <1>5, StaysWithin
  <2>2. t.remain \in Nat /\ t.len = rd.len /\ rd.len \in Nat
    BY <1>1, <1>3 DEF Reader, RdType
  <2> HIDE DEF t
  <2> QED
    BY <1>2, <2>1, <2>2 DEF Within
<1> QED
  BY <1>1, <1>2, <1>3, <1>5 DEF p

\* The reader at the end of the lines.
LEMMA RgbStops ==
  ASSUME RgbKept, RgbWide, pc = "row", pc' = "keys", UNCHANGED <<in, prog, row, screen>>,
         rd' = FreadLine(rd, RgbSize), rd'.ret = 0
  PROVE  RgbKept'
<1>1. IsRgbFile(in) /\ RgbDrawn /\ RgbEnds /\ RgbPhase
  BY DEF RgbKept
<1>2. rd'.len = rd.len /\ RgbAt(Len(screen)) >= rd.len
  BY RgbReads
<1>3. /\ IsRgbFile(in)' /\ RgbSize' = RgbSize /\ RgbWide' = RgbWide
      /\ rd'.len = Len(in'.data)
      /\ \A k : RgbAt(k)' = RgbAt(k)
      /\ \A k, l : RgbLineShown(k, l)' <=> RgbLineShown(k, l)
  BY <1>1, <1>2, RgbFrame
<1>4. RgbDrawn'
  BY <1>1, <1>3 DEF RgbDrawn
<1>5. RgbEnds'
  <2>1. RgbAt(Len(screen))' = RgbAt(Len(screen))
    BY <1>3
  <2> QED
    BY <1>1, <1>2, <2>1 DEF RgbEnds
<1>6. RgbReading' /\ RgbPhase'
  BY <1>1, <1>3 DEF RgbReading, RgbPhase
<1> QED
  BY <1>3, <1>4, <1>5, <1>6 DEF RgbKept

\* The line at the end of the screen goes on it.
LEMMA RgbDrawsOne ==
  ASSUME RgbKept, NEW n, n = Len(screen), NEW new, RgbLineShown(n, new),
         screen' = Append(screen, new), UNCHANGED <<in, prog>>, rd'.len = rd.len,
         RgbAt(n) + RgbSize - rd.len < BuffSize, pc' # "keys"
  PROVE  /\ RgbDrawn' /\ RgbEnds' /\ IsRgbFile(in)' /\ rd'.len = Len(in'.data)
         /\ RgbSize' = RgbSize /\ RgbWide' = RgbWide
         /\ Len(screen)' = n + 1 /\ RgbAt(Len(screen))' = RgbAt(n) + RgbSize
<1>1. IsRgbFile(in) /\ RgbDrawn /\ RgbPhase
  BY DEF RgbKept
<1>2. /\ IsRgbFile(in)' /\ RgbSize' = RgbSize /\ RgbWide' = RgbWide
      /\ rd'.len = Len(in'.data)
      /\ \A k : RgbAt(k)' = RgbAt(k)
      /\ \A k, l : RgbLineShown(k, l)' <=> RgbLineShown(k, l)
  BY <1>1, RgbFrame
<1>3. /\ IsSequence(screen') /\ Len(screen') = n + 1 /\ n \in Nat
      /\ \A k \in 1 .. n : screen'[k] = screen[k]
      /\ screen'[n + 1] = new
  BY <1>1, Appended DEF RgbDrawn
<1>4. ASSUME NEW k \in 0 .. n PROVE RgbLineShown(k, screen'[k + 1])
  <2>1. CASE k = n
    BY <1>3, <2>1
  <2>2. CASE k # n
    <3>1. k \in 0 .. n - 1 /\ k + 1 \in 1 .. n
      BY <1>3, <2>2
    <3>2. RgbLineShown(k, screen[k + 1])
      BY <1>1, <3>1 DEF RgbDrawn
    <3> QED
      BY <1>3, <3>1, <3>2
  <2> QED
    BY <2>1, <2>2
<1>5. RgbDrawn'
  <2>1. Len(screen') - 1 = n
    BY <1>3
  <2> QED
    BY <1>2, <1>3, <1>4, <2>1 DEF RgbDrawn
<1>6. RgbAt(Len(screen))' = RgbAt(n) + RgbSize
  BY <1>1, <1>2, <1>3, RgbSizes
<1>7. RgbEnds'
  <2>1. RgbAt(Len(screen))' - rd'.len < BuffSize
    <3>1. RgbAt(n) \in Nat /\ RgbSize \in Nat
      BY <1>1, <1>3, RgbSizes
    <3> DEFINE q == RgbAt(n) + RgbSize
    <3>9. rd.len \in Nat /\ BuffSize \in Nat /\ q \in Nat
      BY <1>1, <3>1, RgbSizes DEF RgbPhase
    <3>2. q - rd'.len < BuffSize
      BY <3>9, <3>1
    <3>3. RgbAt(Len(screen))' = q
      BY <1>6
    <3> HIDE DEF q
    <3> QED
      BY <3>2, <3>3
  <2> QED
    BY <2>1 DEF RgbEnds
<1> QED
  BY <1>2, <1>3, <1>5, <1>6, <1>7

\* The next dots of a line come from the bytes after those of the last.
LEMMA RgbDotKeeps ==
  ASSUME RgbKept, RgbDot, prog' = prog
  PROVE  RgbKept'
<1>1. /\ pc = "dot" /\ Len(line) < in.w
      /\ UNCHANGED <<pc, in, gmode, pal, rd, row, screen, av3>>
  BY DEF RgbDot, Diffuse
<1>2. IsRgbFile(in) /\ RgbDrawn /\ RgbEnds /\ RgbPhase /\ RgbReading /\ RgbLineBegun
  BY <1>1 DEF RgbKept, RgbReading
<1>3. /\ IsRgbFile(in)' /\ RgbSize' = RgbSize /\ RgbWide' = RgbWide
      /\ rd'.len = Len(in'.data)
      /\ \A k : RgbAt(k)' = RgbAt(k)
      /\ \A k, l : RgbLineShown(k, l)' <=> RgbLineShown(k, l)
  BY <1>1, <1>2, RgbFrame
<1>4. RgbDrawn'
  BY <1>1, <1>2, <1>3 DEF RgbDrawn
<1>5. RgbAt(Len(screen))' = RgbAt(Len(screen))
  BY <1>1, <1>3
<1>6. RgbEnds'
  BY <1>1, <1>2, <1>3, <1>5 DEF RgbEnds
<1>7. RgbPhase'
  BY <1>1, <1>2, <1>3 DEF RgbPhase
<1>8. RgbLineBegun'
  <2> DEFINE x == Len(line) + 1
             place == [c \in Colour |-> [z \in 1 .. in.w |-> RgbPlace(c, z)]]
  <2>1. Len(line) \in Nat /\ IsSequence(line) /\ in.w \in Nat
    BY <1>2, Appended, RgbSizes DEF RgbLineBegun
  <2> DEFINE new == [c \in Colour |-> <<rd.buff[place[c][x]], Level(av1[c][x])>>]
  <2>2. line' = Append(line, new)
    BY DEF RgbDot, Diffuse
  <2>3. \A c \in Colour : new[c][1] = rd.buff[RgbPlace(c, x)]
    <3>1. x \in 1 .. in.w
      BY <1>1, <2>1
    <3> QED
      BY <3>1
  <2> HIDE DEF new
  <2>4. line' = Append(line, new)
    BY <2>2
  <2>5. /\ IsSequence(line') /\ Len(line') = x
        /\ \A k \in 1 .. Len(line) : line'[k] = line[k]
        /\ line'[x] = new
    BY <2>1, <2>4, Appended
  <2>6. \A c, k : RgbPlace(c, k)' = RgbPlace(c, k)
    BY <1>1 DEF RgbPlace
  <2>7. ASSUME NEW k \in 1 .. Len(line'), NEW c \in Colour
        PROVE  line'[k][c][1] = rd.buff[RgbPlace(c, k)]
    <3>1. CASE k = x
      BY <2>3, <2>5, <3>1
    <3>2. CASE k # x
      <4>1. k \in 1 .. Len(line)
        BY <2>1, <2>5, <3>2
      <4> QED
        BY <1>2, <2>5, <4>1 DEF RgbLineBegun
    <3> QED
      BY <3>1, <3>2
  <2>8. Len(line') <= in.w
    BY <1>1, <2>1, <2>5
  <2> QED
    BY <1>1, <2>5, <2>6, <2>7, <2>8 DEF RgbLineBegun
<1>9. RgbReading'
  BY <1>1, <1>2, <1>3, <1>5, <1>8 DEF RgbReading
<1> QED
  BY <1>3, <1>4, <1>6, <1>7, <1>9 DEF RgbKept

\* A line that is done has each dot's bytes in their places.
LEMMA RgbShowKeeps ==
  ASSUME RgbKept, prog = "rgbload", RgbShow, prog' = prog
  PROVE  RgbKept'
<1> DEFINE n == Len(screen)
           p == RgbAt(n)
           new == [x |-> 0, y |-> row, px |-> line]
<1>1. /\ pc = "dot" /\ pc' = "row" /\ Len(line) = in.w /\ row' = row + 1
      /\ screen' = Append(screen, new) /\ UNCHANGED <<in, rd>>
  BY DEF RgbShow, Draw
<1>2. /\ IsRgbFile(in) /\ RgbDrawn /\ RgbPhase /\ RgbWide
      /\ Reader(rd, RgbSize, p + RgbSize) /\ Within(rd, p + RgbSize, BuffSize)
      /\ LineRead(rd, RgbSize, p) /\ RgbLineBegun /\ row = n
  BY <1>1 DEF RgbKept, RgbReading
<1>3. n \in Nat /\ p \in Nat /\ RgbSize \in Nat /\ in.w \in Nat /\ RgbSize = 3 * in.w
      /\ rd.idx \in Nat /\ rd.remain \in Nat /\ rd.len \in Nat /\ BuffSize \in Nat
  BY <1>2, RgbSizes, Appended DEF RgbDrawn, RgbSize, Reader, RdType
<1> HIDE DEF p
<1>4. RgbLineShown(n, new)
  <2> SUFFICES ASSUME p + RgbSize <= rd.len, NEW x \in 1 .. in.w
               PROVE  RgbDotAt(line[x], p + 3 * (x - 1))
    BY <1>2 DEF RgbLineShown, p
  <2>1. \A c \in Colour : line[x][c][1] = rd.buff[RgbPlace(c, x)]
    BY <1>1, <1>2 DEF RgbLineBegun
  <2> DEFINE j == 3 * (x - 1)
  <2>2. j \in Nat /\ j \in 0 .. RgbSize - 1 /\ j + 1 \in 0 .. RgbSize - 1
        /\ j + 2 \in 0 .. RgbSize - 1
    BY <1>3, SMTT(40)
  <2>3. RgbPlace("red", x) = rd.idx + j /\ RgbPlace("green", x) = rd.idx + (j + 1)
        /\ RgbPlace("blue", x) = rd.idx + (j + 2)
    <3>1. RgbPlace("red", x) = rd.idx + j + 0 /\ RgbPlace("green", x) = rd.idx + j + 1
          /\ RgbPlace("blue", x) = rd.idx + j + 2
      BY DEF RgbPlace
    <3>2. j \in Nat /\ rd.idx \in Nat
      BY <1>3, <2>2
    <3> HIDE DEF j
    <3> QED
      BY <3>1, <3>2
  <2> HIDE DEF j
  <2>4. \A k \in 0 .. RgbSize - 1 : rd.buff[rd.idx + k] = p + k
    BY <1>2, <1>3, SMTT(40) DEF LineRead, HasBytes
  <2>5. rd.buff[rd.idx + j] = p + j /\ rd.buff[rd.idx + (j + 1)] = p + (j + 1)
        /\ rd.buff[rd.idx + (j + 2)] = p + (j + 2)
    BY <2>2, <2>4
  <2>6. line[x]["red"][1] = p + j /\ line[x]["green"][1] = p + (j + 1)
        /\ line[x]["blue"][1] = p + (j + 2)
    BY <2>1, <2>3, <2>5 DEF Colour
  <2>7. p + (j + 1) = (p + j) + 1 /\ p + (j + 2) = (p + j) + 2
    BY <1>3, <2>2
  <2> QED
    BY <2>6, <2>7 DEF RgbDotAt, RgbChannel, j
<1> HIDE DEF new
<1>5. p + RgbSize - rd.len < BuffSize
  <2>1. Within(rd, p + RgbSize, BuffSize)
    BY <1>2
  <2> DEFINE q == p + RgbSize
  <2>2. q \in Nat /\ q + rd.remain - rd.len < BuffSize
    BY <1>3, <2>1, SMTT(40) DEF Within
  <2> HIDE DEF q
  <2>3. q - rd.len < BuffSize
    BY <1>3, <2>2
  <2> QED
    BY <1>3, <2>3 DEF q
<1>6. /\ RgbDrawn' /\ RgbEnds' /\ IsRgbFile(in)' /\ rd'.len = Len(in'.data)
      /\ RgbSize' = RgbSize /\ RgbWide' = RgbWide
      /\ Len(screen)' = n + 1 /\ RgbAt(Len(screen))' = p + RgbSize
  <2>1. RgbAt(n) + RgbSize - rd.len < BuffSize
    BY <1>5 DEF p
  <2> QED
    BY <1>1, <1>4, <2>1, RgbDrawsOne DEF p
<1>7. RgbReading'
  <2>1. Reader(rd', RgbSize', RgbAt(Len(screen))') /\ Within(rd', RgbAt(Len(screen))', BuffSize)
    BY <1>1, <1>2, <1>6
  <2>2. row' = Len(screen)'
    BY <1>1, <1>2, <1>6
  <2> QED
    BY <1>1, <2>1, <2>2 DEF RgbReading
<1>8. RgbPhase'
  BY <1>1, <1>2, <1>6 DEF RgbPhase
<1> QED
  BY <1>6, <1>7, <1>8 DEF RgbKept

\* A line is read to be worked on.
LEMMA RgbLineKeeps ==
  ASSUME RgbKept, prog = "rgbload", RgbLine, prog' = prog
  PROVE  RgbKept'
<1> DEFINE t == FreadLine(rd, RgbSize)
<1>1. pc = "row" /\ UNCHANGED <<in, row, screen>>
  BY DEF RgbLine
<1>2. \/ row >= in.h /\ pc' = "keys" /\ rd' = rd
      \/ ~RgbWide /\ pc' = "fault" /\ rd' = rd
      \/ RgbWide /\ rd' = t /\ t.ret = 0 /\ pc' = "keys"
      \/ RgbWide /\ rd' = t /\ t.ret # 0 /\ pc' = "dot" /\ line' = <<>>
  <2>1. in.w \in Nat /\ LineBytes \in Nat
    BY RgbSizes DEF RgbKept
  <2> QED
    BY <2>1 DEF RgbLine, RgbFreadline, RgbWide, RgbSize
<1>3. IsRgbFile(in) /\ RgbDrawn /\ RgbPhase /\ RgbReading /\ row = Len(screen)
  BY <1>1 DEF RgbKept, RgbReading
<1> HIDE DEF t
<1>4. CASE \/ row >= in.h /\ pc' = "keys" /\ rd' = rd
           \/ ~RgbWide /\ pc' = "fault" /\ rd' = rd
  <2>1. /\ pc' \in {"keys", "fault"} /\ (pc' = "keys" => Len(screen) >= in.h)
        /\ (~RgbWide => screen = <<>>)
    BY <1>3, <1>4 DEF RgbPhase
  <2> QED
    BY <1>1, <1>4, <2>1, RgbQuiet
<1>5. CASE RgbWide /\ rd' = t /\ t.ret = 0 /\ pc' = "keys"
  BY <1>1, <1>5, RgbStops DEF t
<1>6. CASE RgbWide /\ rd' = t /\ t.ret # 0 /\ pc' = "dot" /\ line' = <<>>
  <2> DEFINE n == Len(screen)
             p == RgbAt(n)
  <2>1. /\ n \in Nat /\ row = n /\ p \in Nat
        /\ t.len = rd.len /\ Reader(t, RgbSize, p + RgbSize)
        /\ LineRead(t, RgbSize, p) /\ Within(t, p + RgbSize, BuffSize)
    BY <1>1, <1>6, RgbReads DEF t
  <2>2. rd'.len = rd.len
    BY <1>6, <2>1
  <2>3. /\ IsRgbFile(in)' /\ RgbSize' = RgbSize /\ RgbWide' = RgbWide
        /\ rd'.len = Len(in'.data)
        /\ \A k : RgbAt(k)' = RgbAt(k)
        /\ \A k, l : RgbLineShown(k, l)' <=> RgbLineShown(k, l)
    BY <1>1, <1>3, <2>2, RgbFrame
  <2>4. RgbDrawn'
    BY <1>1, <1>3, <2>3 DEF RgbDrawn
  <2>5. RgbAt(Len(screen))' = p /\ Len(screen)' = n
    BY <1>1, <2>3
  <2>6. RgbEnds'
    <3>1. RgbAt(Len(screen)) - rd.len < BuffSize
      BY DEF RgbKept, RgbEnds
    <3> QED
      BY <1>6, <2>2, <2>5, <3>1 DEF RgbEnds
  <2>7. RgbLineBegun'
    <3>1. IsSequence(line') /\ Len(line') = 0 /\ in'.w \in Nat
      BY <1>1, <1>3, <1>6, EmptyIsSequence, RgbSizes
    <3> QED
      BY <3>1 DEF RgbLineBegun
  <2>8. RgbReading'
    BY <1>1, <1>6, <2>1, <2>3, <2>5, <2>7 DEF RgbReading
  <2>9. RgbPhase'
    BY <1>1, <1>3, <1>6, <2>3 DEF RgbPhase
  <2> QED
    BY <2>3, <2>4, <2>6, <2>8, <2>9 DEF RgbKept
<1> QED
  BY <1>2, <1>4, <1>5, <1>6, Zenon

\* rgbld16 reads a line and draws it at once.
LEMMA Rgb16LineKeeps ==
  ASSUME RgbKept, prog = "rgbld16", Rgb16Line, prog' = prog
  PROVE  RgbKept'
<1> DEFINE t == FreadLine(rd, RgbSize)
           dot(x) == [red |-> t.buff[t.idx + 3 * (x - 1)],
                      green |-> t.buff[t.idx + 3 * (x - 1) + 1],
                      blue |-> t.buff[t.idx + 3 * (x - 1) + 2]]
           new == [x |-> 0, y |-> row, px |-> [x \in 1 .. in.w |-> dot(x)]]
<1>1. pc = "row" /\ in' = in
  BY DEF Rgb16Line
<1>2. \/ row >= in.h /\ pc' = "keys" /\ UNCHANGED <<rd, row, screen>>
      \/ ~RgbWide /\ pc' = "fault" /\ UNCHANGED <<rd, row, screen>>
      \/ RgbWide /\ rd' = t /\ t.ret = 0 /\ pc' = "keys" /\ UNCHANGED <<row, screen>>
      \/ /\ RgbWide /\ rd' = t /\ t.ret # 0 /\ pc' = pc /\ row' = row + 1
         /\ screen' = Append(screen, new)
  <2>1. in.w \in Nat /\ LineBytes \in Nat
    BY RgbSizes DEF RgbKept
  <2>2. RgbWide <=> in.w \in 1 .. 2 * LineBytes
    BY DEF RgbWide
  <2>3. t = Rgb16Freadline(3 * in.w)
    BY DEF Rgb16Freadline, RgbSize
  <2>4. in.w = 0 \/ in.w > 2 * LineBytes => ~RgbWide
    BY <2>1, <2>2
  <2> QED
    BY <2>2, <2>3, <2>4 DEF Rgb16Line, Draw
<1>3. IsRgbFile(in) /\ RgbDrawn /\ RgbPhase /\ RgbReading /\ row = Len(screen)
  BY <1>1 DEF RgbKept, RgbReading
<1> HIDE DEF t, new
<1>4. CASE row >= in.h /\ pc' = "keys" /\ UNCHANGED <<rd, row, screen>>
  BY <1>1, <1>3, <1>4, RgbQuiet DEF RgbPhase
<1>5. CASE ~RgbWide /\ pc' = "fault" /\ UNCHANGED <<rd, row, screen>>
  BY <1>1, <1>3, <1>5, RgbQuiet DEF RgbPhase
<1>6. CASE RgbWide /\ rd' = t /\ t.ret = 0 /\ pc' = "keys" /\ UNCHANGED <<row, screen>>
  BY <1>1, <1>6, RgbStops DEF t
<1>7. CASE /\ RgbWide /\ rd' = t /\ t.ret # 0 /\ pc' = pc /\ row' = row + 1
           /\ screen' = Append(screen, new)
  <2> DEFINE n == Len(screen)
             p == RgbAt(n)
  <2>1. /\ n \in Nat /\ row = n /\ p \in Nat
        /\ t.len = rd.len /\ Reader(t, RgbSize, p + RgbSize)
        /\ LineRead(t, RgbSize, p) /\ Within(t, p + RgbSize, BuffSize)
        /\ p + RgbSize - rd.len < BuffSize
    BY <1>1, <1>7, RgbReads DEF t
  <2>2. RgbSize = 3 * in.w /\ RgbSize \in Nat /\ in.w \in Nat /\ t.idx \in Nat
    BY <1>3, <2>1, RgbSizes DEF RgbSize, Reader, RdType
  <2>3. RgbLineShown(n, new)
    <3> HIDE DEF p
    <3> SUFFICES ASSUME p + RgbSize <= rd.len, NEW x \in 1 .. in.w
                 PROVE  RgbDotAt(dot(x), p + 3 * (x - 1))
      BY <2>1 DEF RgbLineShown, p, new
    <3> DEFINE j == 3 * (x - 1)
    <3>1. j \in Nat /\ j \in 0 .. RgbSize - 1 /\ j + 1 \in 0 .. RgbSize - 1
          /\ j + 2 \in 0 .. RgbSize - 1
      BY <2>2
    <3> HIDE DEF j
    <3>8. /\ p \in Nat /\ t.len = rd.len /\ rd.len \in Nat
          /\ HasBytes(t.buff, t.idx, p, RgbSize, t.len)
      BY <1>3, <2>1, RgbSizes DEF LineRead, RgbPhase
    <3>2. \A k \in 0 .. RgbSize - 1 : t.buff[t.idx + k] = p + k
      BY <2>2, <3>8 DEF HasBytes
    <3>3. t.buff[t.idx + j] = p + j /\ t.buff[t.idx + (j + 1)] = p + (j + 1)
          /\ t.buff[t.idx + (j + 2)] = p + (j + 2)
      BY <3>1, <3>2
    <3>4. p + (j + 1) = (p + j) + 1 /\ p + (j + 2) = (p + j) + 2
          /\ t.idx + (j + 1) = t.idx + j + 1 /\ t.idx + (j + 2) = t.idx + j + 2
      BY <2>2, <3>1, <3>8
    <3>5. t.buff[t.idx + j] = p + j /\ t.buff[t.idx + j + 1] = (p + j) + 1
          /\ t.buff[t.idx + j + 2] = (p + j) + 2
      BY <3>3, <3>4
    <3>6. dot(x).red = t.buff[t.idx + j] /\ dot(x).green = t.buff[t.idx + j + 1]
          /\ dot(x).blue = t.buff[t.idx + j + 2]
      BY DEF j
    <3> HIDE DEF dot
    <3>7. RgbDotAt(dot(x), p + j)
      BY <3>5, <3>6 DEF RgbDotAt, RgbChannel
    <3> QED
      BY <3>7 DEF j
  <2>4. /\ RgbDrawn' /\ RgbEnds' /\ IsRgbFile(in)' /\ rd'.len = Len(in'.data)
        /\ RgbSize' = RgbSize /\ RgbWide' = RgbWide
        /\ Len(screen)' = n + 1 /\ RgbAt(Len(screen))' = p + RgbSize
    <3>1. RgbAt(n) + RgbSize - rd.len < BuffSize
      BY <2>1
    <3> QED
      BY <1>1, <1>7, <2>1, <2>3, <3>1, RgbDrawsOne
  <2>5. RgbReading'
    <3>1. Reader(rd', RgbSize', RgbAt(Len(screen))') /\ Within(rd', RgbAt(Len(screen))', BuffSize)
      BY <1>7, <2>1, <2>4
    <3>2. row' = Len(screen)'
      BY <1>7, <2>1, <2>4
    <3> QED
      BY <1>1, <1>7, <3>1, <3>2 DEF RgbReading
  <2>6. RgbPhase'
    BY <1>1, <1>3, <1>7, <2>4 DEF RgbPhase
  <2> QED
    BY <2>4, <2>5, <2>6 DEF RgbKept
<1> QED
  BY <1>2, <1>4, <1>5, <1>6, <1>7

\* Every step of the RGB loaders keeps the lines where they belong.
LEMMA RgbNextKeeps ==
  ASSUME RgbInv, prog' = prog,
         \/ prog = "rgbload" /\ RgbNext
         \/ prog = "rgbld16" /\ Rgb16Next
  PROVE  RgbInv'
<1>1. RgbKept
  BY DEF RgbInv
<1> SUFFICES RgbKept'
  BY DEF RgbInv
<1>2. IsRgbFile(in) /\ RgbPhase
  BY <1>1 DEF RgbKept
<1>3. CASE prog = "rgbload" /\ RgbNext
  <2>1. CASE RgbMain
    BY <1>1, <1>2, <2>1, RgbQuiet DEF RgbMain, RgbPhase
  <2>2. CASE RgbGinit
    <3>1. CASE pc' = "row"
      BY <1>1, <2>2, <3>1, RgbGinitKeeps DEF RgbGinit
    <3>2. CASE pc' = "error" /\ screen' = screen
      BY <1>1, <1>2, <2>2, <3>2, RgbQuiet DEF RgbGinit, RgbPhase
    <3> QED
      BY <2>2, <3>1, <3>2 DEF RgbGinit
  <2>3. CASE RgbLine
    BY <1>1, <1>3, <2>3, RgbLineKeeps
  <2>4. CASE RgbDot
    BY <1>1, <2>4, RgbDotKeeps
  <2>5. CASE RgbShow
    BY <1>1, <1>3, <2>5, RgbShowKeeps
  <2>6. CASE RgbKeyC
    BY <1>1, <1>2, <2>6, RgbQuiet DEF RgbKeyC, RgbPhase
  <2>7. CASE KeyEnd
    BY <1>1, <1>2, <2>7, RgbQuiet DEF KeyEnd, RgbPhase
  <2> QED
    BY <1>3, <2>1, <2>2, <2>3, <2>4, <2>5, <2>6, <2>7 DEF RgbNext
<1>4. CASE prog = "rgbld16" /\ Rgb16Next
  <2>1. CASE Rgb16Main
    BY <1>1, <1>2, <2>1, RgbQuiet DEF Rgb16Main, RgbPhase
  <2>2. CASE Rgb16Ginit
    <3>1. CASE pc' = "row"
      BY <1>1, <2>2, <3>1, RgbGinitKeeps DEF Rgb16Ginit
    <3>2. CASE pc' = "error" /\ screen' = screen
      BY <1>1, <1>2, <2>2, <3>2, RgbQuiet DEF Rgb16Ginit, RgbPhase
    <3> QED
      BY <2>2, <3>1, <3>2 DEF Rgb16Ginit
  <2>3. CASE Rgb16Line
    BY <1>1, <1>4, <2>3, Rgb16LineKeeps
  <2>4. CASE Rgb16KeyC
    BY <1>1, <1>2, <2>4, RgbQuiet DEF Rgb16KeyC, RgbPhase
  <2>5. CASE KeyEnd
    BY <1>1, <1>2, <2>5, RgbQuiet DEF KeyEnd, RgbPhase
  <2> QED
    BY <1>4, <2>1, <2>2, <2>3, <2>4, <2>5 DEF Rgb16Next
<1> QED
  BY <1>3, <1>4

----------------------------------------------------------------------------
(* x68load: every fifth line of the file is passed by.                     *)

\* Lines of a full buffer.
BufferLines(s) == BuffSize \div s

\* m lines of s bytes are read.  The end of the file goes unseen only when the buffer
\* is filled for a line passed by, which no two fillings in succession are.
FilledFor(r, s, m) ==
  \E g \in Nat, j \in Nat :
    /\ r.remain = j * s /\ m + j = g * BufferLines(s)
    /\ Within(r, m * s, Room(s)) \/ (g % 5 = 1 /\ Within(r, m * s, 2 * Room(s)))

\* A product is not a multiple of five unless one of its factors is.
LEMMA FifthOfProduct ==
  ASSUME NEW g \in Nat, NEW q \in Nat, q % 5 # 0, (g * q) % 5 = 0
  PROVE  g % 5 = 0
<1> DEFINE a == g \div 5  x == g % 5
           b == q \div 5  y == q % 5
<1>1. a \in Nat /\ x \in 0 .. 4 /\ g = 5 * a + x
  OBVIOUS
<1>2. b \in Nat /\ y \in 1 .. 4 /\ q = 5 * b + y
  OBVIOUS
<1> HIDE DEF a, b, x, y
<1> DEFINE c == 5 * (a * b) + a * y + b * x
<1>3. g * q = 5 * c + x * y /\ c \in Nat /\ x * y \in Nat
  <2>1. a * b \in Nat /\ a * y \in Nat /\ b * x \in Nat /\ x * y \in Nat
    BY <1>1, <1>2
  <2>2. (5 * a + x) * (5 * b + y) = 25 * (a * b) + 5 * (a * y) + 5 * (b * x) + x * y
    BY <1>1, <1>2
  <2> QED
    BY <1>1, <1>2, <2>1, <2>2
<1> HIDE DEF c
<1>4. (x * y) % 5 = 0
  <2> DEFINE z == x * y
             w == g * q
  <2>1. z \in Nat /\ w \in Nat /\ w = 5 * c + z /\ w % 5 = 0
    BY <1>3
  <2> HIDE DEF z, w
  <2>2. z % 5 = 0
    BY <1>3, <2>1
  <2> QED
    BY <2>2 DEF z
<1>5. ASSUME x # 0 PROVE FALSE
  <2>1. x = 1 \/ x = 2 \/ x = 3 \/ x = 4
    BY <1>1, <1>5
  <2>2. y = 1 \/ y = 2 \/ y = 3 \/ y = 4
    BY <1>2
  <2> QED
    BY <1>4, <2>1, <2>2
<1> QED
  BY <1>5 DEF x

\* One line more is read, which is passed by or of which it is seen that there is one.
LEMMA FilledForNext ==
  ASSUME NEW r, NEW s \in 1 .. BuffSize, NEW m \in Nat, Reader(r, s, m * s),
         FilledFor(r, s, m), BufferLines(s) % 5 # 0,
         m % 5 = 0 \/ FreadLine(r, s).ret # 0
  PROVE  FilledFor(FreadLine(r, s), s, m + 1)
<1> DEFINE t == FreadLine(r, s)
           p == m * s
           q == BufferLines(s)
           room == Room(s)
<1>1. s \in Nat /\ s >= 1 /\ BuffSize \in Nat /\ room \in s .. BuffSize
  BY GaAssumption, RoomFits
<1>2. q \in Nat /\ q >= 1 /\ room = q * s /\ p \in Nat /\ (m + 1) * s = p + s
  <2>1. room = q * s
    BY DEF Room, BufferLines
  <2>2. q \in Nat /\ q >= 1
    BY <1>1 DEF BufferLines
  <2> QED
    BY <1>1, <2>1, <2>2
<1>3. /\ t.len = r.len /\ (t.ret = 0 => p >= r.len) /\ (r.remain = 0 /\ p >= r.len => t.ret = 0)
      /\ t.remain = (IF r.remain = 0 THEN room ELSE r.remain) - s
  BY <1>1, <1>2, FreadLineGives
<1>4. r.len \in Nat /\ r.remain \in Nat
  BY DEF Reader, RdType
<1>5. PICK g \in Nat, j \in Nat :
        /\ r.remain = j * s /\ m + j = g * q
        /\ Within(r, p, room) \/ (g % 5 = 1 /\ Within(r, p, 2 * room))
  BY DEF FilledFor
<1> HIDE DEF t, q, room
<1>6. CASE r.remain = 0
  <2>1. j = 0
    BY <1>1, <1>5, <1>6
  <2>2. m = g * q
    BY <1>5, <2>1
  <2>3. /\ t.remain = (q - 1) * s /\ (m + 1) + (q - 1) = (g + 1) * q
        /\ q - 1 \in Nat /\ g + 1 \in Nat
    <3>1. (q - 1) * s = q * s - s
      BY <1>1, <1>2
    <3>2. (g + 1) * q = g * q + q
      BY <1>2
    <3> QED
      BY <1>1, <1>2, <1>3, <1>6, <2>2, <3>1, <3>2
  <2>4. Within(t, p + s, room) \/ ((g + 1) % 5 = 1 /\ Within(t, p + s, 2 * room))
    <3>1. (p + s) + t.remain = p + room
      BY <1>1, <1>2, <1>3, <1>6
    <3> HIDE DEF p
    <3>2. CASE t.ret # 0
      <4>1. p < r.len
        BY <1>2, <1>3, <1>4, <1>6, <3>2
      <4> QED
        BY <1>1, <1>2, <1>3, <1>4, <3>1, <4>1 DEF Within
    <3>3. CASE m % 5 = 0
      <4>1. g % 5 = 0
        BY <1>2, <2>2, <3>3, FifthOfProduct DEF q
      <4>2. Within(r, p, room) /\ (g + 1) % 5 = 1
        BY <1>5, <4>1
      <4>3. p + 0 - r.len < room
        BY <1>6, <4>2 DEF Within
      <4>4. Within(t, p + s, 2 * room)
        BY <1>1, <1>2, <1>3, <1>4, <3>1, <4>3 DEF Within
      <4> QED
        BY <4>2, <4>4
    <3> QED
      BY <3>2, <3>3 DEF t
  <2> QED
    BY <1>2, <2>3, <2>4 DEF FilledFor, q, room, t
<1>7. CASE r.remain # 0
  <2>1. j # 0
    BY <1>1, <1>5, <1>7
  <2>2. j - 1 \in Nat /\ (j - 1) * s = j * s - s /\ (m + 1) + (j - 1) = m + j
    BY <1>1, <2>1
  <2>3. t.remain = (j - 1) * s
    BY <1>3, <1>5, <1>7, <2>2
  <2>4. (p + s) + t.remain = p + r.remain
    BY <1>1, <1>2, <1>3, <1>4, <1>7
  <2>5. \A lim : Within(r, p, lim) => Within(t, p + s, lim)
    BY <1>1, <1>2, <1>3, <1>4, <1>7, <2>4 DEF Within
  <2> HIDE DEF p
  <2>6. Within(t, p + s, room) \/ (g % 5 = 1 /\ Within(t, p + s, 2 * room))
    BY <1>5, <2>5
  <2> QED
    BY <1>2, <1>5, <2>2, <2>3, <2>6 DEF FilledFor, q, room, t
<1> QED
  BY <1>6, <1>7

\* The bytes of a line, the file's line for a row of the picture, the lines read
\* before the row, and where a line is.
X68Size == 2 * in.w
X68LineOf(r) == r + r \div 4 + 1
X68LinesTo(r) == r + (r + 3) \div 4
X68At(m) == m * X68Size

\* The lines of the screen for a row.
X68Per == IF in.dither THEN 2 ELSE 1

X68File == IsRgbFile(in) /\ in.w = X68Width /\ in.h = X68Height

\* Line k of the screen shows what is at p.
X68LineShown(k, p, shown) ==
  /\ shown.x = 0 /\ shown.y = k
  /\ p + X68Size <= rd.len =>
       \A x \in 1 .. in.w * X68Per : \A c \in Colour :
         shown.px[x][c][1] = p + 2 * ((x - 1) \div X68Per)

X68Drawn ==
  /\ IsSequence(screen) /\ Len(screen) = row * X68Per
  /\ row \in Nat /\ row <= in.h
  /\ \A k \in 0 .. Len(screen) - 1 :
       X68LineShown(k, X68At(X68LineOf(k \div X68Per)), screen[k + 1])

\* Of a line under way the dots to the left are done.
X68LineBegun ==
  /\ IsSequence(line) /\ Len(line) <= in.w
  /\ \A x \in 1 .. Len(line) : \A c \in Colour : line[x][c][1] = rd.buff[X68Place(c, x)]

X68Ends ==
  /\ row > 0 => X68At(X68LinesTo(row)) - rd.len < 2 * BuffSize
  /\ pc = "keys" => row = in.h \/ X68At(X68LineOf(row)) >= rd.len

X68Reading ==
  /\ pc = "row" =>
       /\ Reader(rd, X68Size, X68At(X68LinesTo(row)))
       /\ FilledFor(rd, X68Size, X68LinesTo(row))
  /\ pc = "dot" =>
       /\ ~in.dither /\ row < in.h
       /\ Reader(rd, X68Size, X68At(X68LinesTo(row + 1)))
       /\ FilledFor(rd, X68Size, X68LinesTo(row + 1))
       /\ LineRead(rd, X68Size, X68At(X68LineOf(row)))
       /\ X68LineBegun

X68Phase ==
  /\ pc \in {"main", "ginit", "row", "dot", "keys", "end", "error"}
  /\ pc \in {"main", "ginit"} => rd = Opened(Len(in.data))
  /\ pc \in {"main", "ginit", "error"} => row = 0 /\ screen = <<>>
  /\ rd.len = Len(in.data)

X68Kept == X68File /\ X68Drawn /\ X68Ends /\ X68Reading /\ X68Phase
X68Inv == prog = "x68load" => X68Kept

\* Of five lines the first is passed by.
LEMMA FifthPassed ==
  ASSUME NEW r \in Nat
  PROVE  /\ X68LinesTo(r) \in Nat /\ X68LineOf(r) \in Nat
         /\ X68LinesTo(r + 1) = X68LineOf(r) + 1
         /\ r % 4 = 0 => X68LinesTo(r) % 5 = 0 /\ X68LineOf(r) = X68LinesTo(r) + 1
         /\ r % 4 # 0 => X68LineOf(r) = X68LinesTo(r)
<1> DEFINE a == r \div 4
           b == r % 4
<1>1. a \in Nat /\ b \in 0 .. 3 /\ r = 4 * a + b
  OBVIOUS
<1> HIDE DEF a
<1>2. X68LinesTo(r) \in Nat /\ X68LineOf(r) \in Nat
  BY DEF X68LinesTo, X68LineOf
<1>3. X68LineOf(r) = r + a + 1
  BY DEF X68LineOf, a
<1>4. CASE b = 0
  <2>1. (r + 3) \div 4 = a /\ (r + 1 + 3) \div 4 = a + 1
    BY <1>1, <1>4
  <2>2. X68LinesTo(r) = 5 * a /\ X68LinesTo(r + 1) = r + 1 + (a + 1)
    BY <1>1, <1>4, <2>1 DEF X68LinesTo
  <2>3. (5 * a) % 5 = 0
    BY <1>1
  <2> QED
    BY <1>1, <1>2, <1>3, <1>4, <2>2, <2>3
<1>5. CASE b # 0
  <2>1. (r + 3) \div 4 = a + 1 /\ (r + 1 + 3) \div 4 = a + 1
    BY <1>1, <1>5
  <2>2. X68LinesTo(r) = r + (a + 1) /\ X68LinesTo(r + 1) = r + 1 + (a + 1)
    BY <1>1, <2>1 DEF X68LinesTo
  <2> QED
    BY <1>1, <1>2, <1>3, <1>5, <2>2
<1> QED
  BY <1>4, <1>5

\* The numbers x68load computes with.
LEMMA X68Sizes ==
  ASSUME X68File
  PROVE  /\ in.w \in Nat /\ in.h \in Nat /\ X68Size \in Nat /\ Len(in.data) \in Nat
         /\ BuffSize \in Nat /\ X68Size \in 1 .. BuffSize /\ BufferLines(X68Size) % 5 # 0
         /\ \A n \in Nat : X68At(n) \in Nat /\ X68At(n + 1) = X68At(n) + X68Size
         /\ X68At(0) = 0 /\ X68Per \in {1, 2}
<1>1. in.w \in Nat /\ in.h \in Nat /\ X68Size \in Nat /\ Len(in.data) \in Nat
  BY DEF X68File, IsRgbFile, X68Size
<1>2. BuffSize \in Nat /\ X68Size \in 1 .. BuffSize /\ BufferLines(X68Size) % 5 # 0
  BY GaAssumption, X68Assumption DEF X68File, X68Size, BufferLines
<1> DEFINE s == X68Size
<1>4. s \in Nat
  BY <1>1
<1> HIDE DEF s
<1>5. \A n \in Nat : n * s \in Nat /\ (n + 1) * s = n * s + s
  BY <1>4
<1>6. 0 * s = 0
  BY <1>4
<1> QED
  BY <1>1, <1>2, <1>5, <1>6 DEF X68At, X68Per, s

\* What is kept says that the lines of an X68000 file are in their places.
LEMMA X68InvTells ==
  ASSUME X68Inv, prog = "x68load"
  PROVE  X68RowsInPlace
<1>1. X68File /\ X68Drawn /\ X68Ends /\ X68Phase
  BY DEF X68Inv, X68Kept
<1> DEFINE per == IF in.dither THEN 2 ELSE 1
           from(k) == (k \div per + (k \div per) \div 4 + 1) * 2 * in.w
<1>2. /\ per \in {1, 2} /\ per = X68Per /\ in.w \in Nat /\ row \in Nat /\ rd.len \in Nat
      /\ BuffSize \in Nat /\ in.h \in Nat /\ X68Size = 2 * in.w
  BY <1>1, X68Sizes DEF X68Per, X68Drawn, X68Phase, X68Size
<1> DEFINE n == Len(screen)
<1>3. n \in Nat /\ n = row * per
  BY <1>1, <1>2 DEF X68Drawn
<1>4. ASSUME NEW k \in Nat
      PROVE  k \div per \in Nat /\ from(k) = X68At(X68LineOf(k \div per)) /\ from(k) \in Nat
  <2> DEFINE r == k \div per
  <2>1. r \in Nat
    BY <1>2
  <2> HIDE DEF r
  <2>2. X68LineOf(r) \in Nat
    BY <2>1, FifthPassed
  <2> DEFINE m == X68LineOf(r)
  <2>3. m \in Nat /\ m * 2 * in.w = m * (2 * in.w) /\ m * (2 * in.w) \in Nat
    BY <1>2, <2>2
  <2>4. from(k) = m * 2 * in.w
    BY DEF X68LineOf, r
  <2> HIDE DEF m
  <2>5. X68At(m) = m * (2 * in.w)
    BY DEF X68At, X68Size
  <2> HIDE DEF from
  <2>6. from(k) = X68At(m) /\ from(k) \in Nat
    BY <2>3, <2>4, <2>5
  <2> QED
    BY <2>1, <2>6 DEF m, r
<1>5. ASSUME NEW k \in 0 .. n - 1
      PROVE  /\ screen[k + 1].x = 0 /\ screen[k + 1].y = k
             /\ from(k) + 2 * in.w <= rd.len =>
                  \A x \in 1 .. in.w * per : \A c \in Colour :
                    screen[k + 1].px[x][c][1] = from(k) + 2 * ((x - 1) \div per)
  <2>1. k \in Nat /\ X68LineShown(k, X68At(X68LineOf(k \div X68Per)), screen[k + 1])
    BY <1>1 DEF X68Drawn
  <2>2. X68At(X68LineOf(k \div X68Per)) = from(k)
    BY <1>2, <1>4, <2>1
  <2> HIDE DEF from, per
  <2>3. X68LineShown(k, from(k), screen[k + 1])
    BY <2>1, <2>2
  <2> QED
    BY <1>2, <2>3 DEF X68LineShown
<1>6. n > 0 => from(n - 1) + 2 * in.w - rd.len < 2 * BuffSize
  <2> SUFFICES ASSUME n > 0 PROVE from(n - 1) + 2 * in.w - rd.len < 2 * BuffSize
    OBVIOUS
  <2>1. row > 0 /\ (n - 1) \div per = row - 1 /\ n - 1 \in Nat /\ row - 1 \in Nat
    <3>1. CASE per = 1
      BY <1>2, <1>3, <3>1
    <3>2. CASE per = 2
      BY <1>2, <1>3, <3>2
    <3> QED
      BY <1>2, <3>1, <3>2
  <2>2. from(n - 1) = X68At(X68LineOf(row - 1)) /\ from(n - 1) \in Nat
    BY <1>4, <2>1
  <2>3. X68LinesTo(row) = X68LineOf(row - 1) + 1 /\ X68LineOf(row - 1) \in Nat
    <3>1. (row - 1) + 1 = row
      BY <1>2
    <3> QED
      BY <2>1, <3>1, FifthPassed
  <2>4. X68At(X68LinesTo(row)) = from(n - 1) + 2 * in.w
    BY <1>1, <1>2, <2>2, <2>3, X68Sizes
  <2> HIDE DEF from, n
  <2>5. X68At(X68LinesTo(row)) - rd.len < 2 * BuffSize
    BY <1>1, <2>1 DEF X68Ends
  <2> DEFINE q == from(n - 1) + 2 * in.w
  <2>6. q = X68At(X68LinesTo(row)) /\ q \in Int
    BY <1>2, <2>2, <2>4
  <2> HIDE DEF q
  <2>7. q - rd.len < 2 * BuffSize
    BY <2>5, <2>6
  <2>8. from(n - 1) + 2 * in.w - rd.len = q - rd.len
    BY <1>2, <2>2 DEF q
  <2> QED
    BY <2>7, <2>8
<1>7. ASSUME pc = "keys" PROVE n \div per = in.h \/ from(n) + 2 * in.w > rd.len
  <2>1. n \div per = row
    <3>1. CASE per = 1
      BY <1>2, <1>3, <3>1
    <3>2. CASE per = 2
      BY <1>2, <1>3, <3>2
    <3> QED
      BY <1>2, <3>1, <3>2
  <2>2. from(n) = X68At(X68LineOf(row)) /\ from(n) \in Nat
    BY <1>3, <1>4, <2>1
  <2>3. X68Size \in 1 .. BuffSize /\ X68Size = 2 * in.w
    BY <1>1, <1>2, X68Sizes
  <2>4. row = in.h \/ X68At(X68LineOf(row)) >= rd.len
    BY <1>1, <1>7 DEF X68Ends
  <2> HIDE DEF from, n, per
  <2> QED
    BY <1>2, <2>1, <2>2, <2>3, <2>4
<1> QED
  BY <1>5, <1>6, <1>7 DEF X68RowsInPlace

\* What a step that leaves the file as it is leaves true.
LEMMA X68Frame ==
  ASSUME X68File, X68Phase, in' = in, rd'.len = rd.len
  PROVE  /\ X68File' /\ X68Size' = X68Size /\ X68Per' = X68Per
         /\ rd'.len = Len(in'.data)
         /\ \A m : X68At(m)' = X68At(m)
         /\ \A k, p, l : X68LineShown(k, p, l)' <=> X68LineShown(k, p, l)
<1>1. X68File' /\ X68Size' = X68Size /\ X68Per' = X68Per /\ rd'.len = Len(in'.data)
  BY DEF X68File, IsRgbFile, X68Size, X68Per, X68Phase
<1>2. \A m : X68At(m)' = X68At(m)
  BY <1>1 DEF X68At
<1>3. \A k, p, l : X68LineShown(k, p, l)' <=> X68LineShown(k, p, l)
  BY <1>1 DEF X68LineShown
<1> QED
  BY <1>1, <1>2, <1>3

\* What is shown so far is kept.
LEMMA X68SameDrawn ==
  ASSUME X68File, X68Phase, X68Drawn, UNCHANGED <<in, row, screen>>, rd'.len = rd.len
  PROVE  /\ X68Drawn'
         /\ X68At(X68LinesTo(row))' = X68At(X68LinesTo(row))
         /\ X68At(X68LineOf(row))' = X68At(X68LineOf(row))
<1>1. /\ X68Per' = X68Per /\ (\A m : X68At(m)' = X68At(m))
      /\ \A k, p, l : X68LineShown(k, p, l)' <=> X68LineShown(k, p, l)
  BY X68Frame
<1>2. X68LinesTo(row)' = X68LinesTo(row) /\ X68LineOf(row)' = X68LineOf(row)
  BY DEF X68LinesTo, X68LineOf
<1>3. /\ X68At(X68LinesTo(row))' = X68At(X68LinesTo(row))
      /\ X68At(X68LineOf(row))' = X68At(X68LineOf(row))
  BY <1>1, <1>2 DEF X68At
<1>4. X68Drawn'
  <2>1. \A k \in 0 .. Len(screen) - 1 :
          X68At(X68LineOf(k \div X68Per))' = X68At(X68LineOf(k \div X68Per))
    BY <1>1 DEF X68At, X68LineOf
  <2> QED
    BY <1>1, <2>1 DEF X68Drawn
<1> QED
  BY <1>3, <1>4

\* Steps that draw nothing and read nothing.
LEMMA X68Quiet ==
  ASSUME X68Kept, UNCHANGED <<in, rd, row, screen>>,
         pc' \in {"main", "ginit", "keys", "end", "error"},
         pc' = "keys" => pc = "keys" \/ row >= in.h,
         pc' \in {"main", "ginit"} => pc \in {"main", "ginit"},
         pc' = "error" => pc \in {"main", "ginit"}
  PROVE  X68Kept'
<1>1. X68File /\ X68Drawn /\ X68Ends /\ X68Phase
  BY DEF X68Kept
<1>2. X68File' /\ rd'.len = Len(in'.data)
  BY <1>1, X68Frame
<1>3. /\ X68Drawn'
      /\ X68At(X68LinesTo(row))' = X68At(X68LinesTo(row))
      /\ X68At(X68LineOf(row))' = X68At(X68LineOf(row))
  BY <1>1, X68SameDrawn
<1>4. X68Ends'
  <2>1. row \in Nat /\ row <= in.h /\ in.h \in Nat
    BY <1>1, X68Sizes DEF X68Drawn
  <2> QED
    BY <1>1, <1>3, <2>1 DEF X68Ends
<1>5. X68Reading'
  BY DEF X68Reading
<1>6. X68Phase'
  BY <1>1, <1>2 DEF X68Phase
<1> QED
  BY <1>2, <1>3, <1>4, <1>5, <1>6 DEF X68Kept

\* The reader is started.
LEMMA X68GinitKeeps ==
  ASSUME X68Kept, pc = "ginit", pc' = "row", screen' = <<>>, UNCHANGED <<in, rd, row>>
  PROVE  X68Kept'
<1>1. /\ X68File /\ X68Drawn /\ X68Ends /\ X68Phase
      /\ screen = <<>> /\ rd = Opened(Len(in.data)) /\ row = 0
  BY DEF X68Kept, X68Phase
<1>2. X68File' /\ rd'.len = Len(in'.data) /\ X68Size' = X68Size /\ X68At(0)' = X68At(0)
  BY <1>1, X68Frame
<1>3. X68Drawn'
  BY <1>1, X68SameDrawn
<1>4. X68LinesTo(0) = 0
  BY DEF X68LinesTo
<1>5. Len(in.data) \in Nat /\ X68Size \in 1 .. BuffSize /\ X68At(0) = 0
  BY <1>1, X68Sizes
<1>6. Reader(rd, X68Size, 0) /\ rd.remain = 0 /\ rd.len = Len(in.data)
  BY <1>1, <1>5, OpenedIs
<1>7. FilledFor(rd, X68Size, 0)
  <2> DEFINE s == X68Size
             q == BufferLines(s)
             room == Room(s)
  <2>1. s \in Nat /\ q \in Nat /\ room \in Nat /\ room >= 1
    BY <1>5, RoomFits, GaAssumption DEF BufferLines
  <2>2. 0 * s = 0 /\ 0 * q = 0
    BY <2>1
  <2> HIDE DEF room
  <2>3. Within(rd, 0 * s, room)
    <3>1. 0 + 0 - rd.len < room
      BY <1>5, <1>6, <2>1
    <3> HIDE DEF s
    <3> QED
      BY <1>6, <2>2, <3>1 DEF Within
  <2>4. rd.remain = 0 * s /\ 0 + 0 = 0 * q
    BY <1>6, <2>2
  <2> QED
    BY <2>3, <2>4 DEF FilledFor, room
<1>8. X68Reading'
  BY <1>1, <1>2, <1>4, <1>5, <1>6, <1>7 DEF X68Reading
<1>9. X68Ends' /\ X68Phase'
  BY <1>1, <1>2 DEF X68Ends, X68Phase
<1> QED
  BY <1>2, <1>3, <1>8, <1>9 DEF X68Kept

\* The next line of the file, which is shown or passed by.
LEMMA X68One ==
  ASSUME X68File, NEW r, NEW m \in Nat, Reader(r, X68Size, X68At(m)), FilledFor(r, X68Size, m)
  PROVE  LET t == FreadLine(r, X68Size)
         IN  /\ Reader(t, X68Size, X68At(m + 1)) /\ LineRead(t, X68Size, X68At(m))
             /\ t.len = r.len /\ (t.ret = 0 => X68At(m) >= r.len)
             /\ m % 5 = 0 \/ t.ret # 0 => FilledFor(t, X68Size, m + 1)
<1> DEFINE s == X68Size
           t == FreadLine(r, s)
<1>1. /\ s \in 1 .. BuffSize /\ BufferLines(s) % 5 # 0
      /\ X68At(m) \in Nat /\ X68At(m + 1) = X68At(m) + s /\ X68At(m) = m * s
  BY X68Sizes DEF X68At
<1>2. /\ Reader(t, s, X68At(m) + s) /\ LineRead(t, s, X68At(m)) /\ t.len = r.len
      /\ (t.ret = 0 => X68At(m) >= r.len)
  BY <1>1, FreadLineGives
<1>3. ASSUME m % 5 = 0 \/ t.ret # 0 PROVE FilledFor(t, s, m + 1)
  <2> HIDE DEF s
  <2>1. Reader(r, s, m * s) /\ FilledFor(r, s, m)
    BY <1>1 DEF s
  <2> QED
    BY <1>1, <1>3, <2>1, FilledForNext
<1> QED
  BY <1>1, <1>2, <1>3

\* What is filled for m lines is less than two buffers beyond the file.
LEMMA FilledWithin ==
  ASSUME X68File, NEW r, NEW m \in Nat, Reader(r, X68Size, X68At(m)), FilledFor(r, X68Size, m)
  PROVE  X68At(m) - r.len < 2 * BuffSize
<1> DEFINE p == X68At(m)
           room == Room(X68Size)
<1>1. X68Size \in 1 .. BuffSize /\ BuffSize \in Nat /\ p \in Nat /\ p = m * X68Size
  BY X68Sizes DEF X68At
<1>2. room \in Nat /\ room <= BuffSize
  BY <1>1, RoomFits
<1>3. r.len \in Nat /\ r.remain \in Nat
  BY DEF Reader, RdType
<1>4. Within(r, p, room) \/ Within(r, p, 2 * room)
  BY <1>1 DEF FilledFor
<1> HIDE DEF p, room
<1>5. p + r.remain - r.len < 2 * BuffSize
  BY <1>1, <1>2, <1>3, <1>4 DEF Within
<1>6. p - r.len < 2 * BuffSize
  BY <1>1, <1>3, <1>5
<1> QED
  BY <1>6 DEF p

\* What is read for a row of the picture.
LEMMA X68Reads ==
  ASSUME X68Kept, pc = "row"
  PROVE  LET t == X68Read
         IN  /\ t.len = rd.len /\ Reader(t, X68Size, X68At(X68LinesTo(row + 1)))
             /\ LineRead(t, X68Size, X68At(X68LineOf(row)))
             /\ t.ret = 0 => X68At(X68LineOf(row)) >= rd.len
             /\ t.ret # 0 => /\ FilledFor(t, X68Size, X68LinesTo(row + 1))
                             /\ X68At(X68LinesTo(row + 1)) - rd.len < 2 * BuffSize
<1> DEFINE m == X68LinesTo(row)
           l == X68LineOf(row)
           passed == IF row % 4 = 0 THEN FreadLine(rd, X68Size) ELSE rd
           t == FreadLine(passed, X68Size)
<1>1. X68File /\ row \in Nat /\ Reader(rd, X68Size, X68At(m)) /\ FilledFor(rd, X68Size, m)
  BY DEF X68Kept, X68Reading, X68Drawn
<1>2. /\ m \in Nat /\ l \in Nat /\ X68LinesTo(row + 1) = l + 1
      /\ row % 4 = 0 => m % 5 = 0 /\ l = m + 1
      /\ row % 4 # 0 => l = m
  BY <1>1, FifthPassed
<1>3. t = X68Read
  BY DEF X68Read, X68Freadline, X68Size
<1>4. passed.len = rd.len /\ Reader(passed, X68Size, X68At(l)) /\ FilledFor(passed, X68Size, l)
  <2> HIDE DEF m, l
  <2>1. CASE row % 4 = 0
    BY <1>1, <1>2, <2>1, X68One
  <2>2. CASE row % 4 # 0
    BY <1>1, <1>2, <2>2
  <2> QED
    BY <2>1, <2>2
<1> HIDE DEF m, l, passed
<1>5. /\ Reader(t, X68Size, X68At(l + 1)) /\ LineRead(t, X68Size, X68At(l))
      /\ t.len = rd.len /\ (t.ret = 0 => X68At(l) >= rd.len)
      /\ t.ret # 0 => FilledFor(t, X68Size, l + 1)
  BY <1>1, <1>2, <1>4, X68One
<1> HIDE DEF t
<1>6. ASSUME t.ret # 0 PROVE X68At(l + 1) - rd.len < 2 * BuffSize
  <2>1. l + 1 \in Nat
    BY <1>2
  <2> QED
    BY <1>1, <1>5, <1>6, <2>1, FilledWithin
<1> QED
  BY <1>2, <1>3, <1>5, <1>6 DEF l

\* What appending two elements does to a sequence, whatever its elements are.
LEMMA AppendedTwo ==
  ASSUME NEW s, IsSequence(s), NEW d, NEW e
  PROVE  /\ IsSequence(s \o <<d, e>>) /\ Len(s \o <<d, e>>) = Len(s) + 2
         /\ \A k \in 1 .. Len(s) : (s \o <<d, e>>)[k] = s[k]
         /\ (s \o <<d, e>>)[Len(s) + 1] = d
         /\ (s \o <<d, e>>)[Len(s) + 2] = e
<1>1. PICK S : s \in Seq(S)
  BY DEF IsSequence
<1> DEFINE T == S \cup {d, e}
           two == <<d, e>>
<1>2. s \in Seq(T) /\ two \in Seq(T) /\ Len(two) = 2 /\ two[1] = d /\ two[2] = e
  BY <1>1
<1> HIDE DEF T, two
<1>3. Len(s) \in Nat
  BY <1>2, LenProperties
<1>4. /\ s \o two \in Seq(T) /\ Len(s \o two) = Len(s) + 2
      /\ \A i \in 1 .. Len(s) + 2 :
           (s \o two)[i] = IF i <= Len(s) THEN s[i] ELSE two[i - Len(s)]
  <2>1. /\ s \o two \in Seq(T) /\ Len(s \o two) = Len(s) + Len(two)
        /\ \A i \in 1 .. Len(s) + Len(two) :
             (s \o two)[i] = IF i <= Len(s) THEN s[i] ELSE two[i - Len(s)]
    BY <1>2, ConcatProperties, Zenon
  <2> QED
    BY <1>2, <2>1, Zenon
<1>5. \A k \in 1 .. Len(s) : (s \o two)[k] = s[k]
  BY <1>3, <1>4
<1>6. (s \o two)[Len(s) + 1] = two[1] /\ (s \o two)[Len(s) + 2] = two[2]
  BY <1>3, <1>4
<1> QED
  BY <1>2, <1>4, <1>5, <1>6 DEF IsSequence, two

\* The lines of a row of the picture go on the screen.
LEMMA X68DrawsRow ==
  ASSUME X68Kept, in' = in, rd'.len = rd.len, row' = row + 1, row < in.h,
         IsSequence(screen'), Len(screen') = Len(screen) + X68Per,
         \A k \in 1 .. Len(screen) : screen'[k] = screen[k],
         \A j \in 0 .. X68Per - 1 :
           X68LineShown(Len(screen) + j, X68At(X68LineOf(row)), screen'[Len(screen) + j + 1])
  PROVE  X68Drawn'
<1>1. X68File /\ X68Drawn /\ X68Phase
  BY DEF X68Kept
<1> DEFINE n == Len(screen)
           per == X68Per
<1>2. n \in Nat /\ row \in Nat /\ in.h \in Nat /\ per \in {1, 2} /\ n = row * per
  BY <1>1, X68Sizes DEF X68Drawn
<1>3. X68Per' = X68Per /\ (\A m : X68At(m)' = X68At(m))
      /\ \A k, p, l : X68LineShown(k, p, l)' <=> X68LineShown(k, p, l)
  BY <1>1, X68Frame
<1>4. Len(screen') = row' * per /\ row' \in Nat /\ row' <= in.h
  <2>1. (row + 1) * per = row * per + per
    BY <1>2
  <2> QED
    BY <1>2, <2>1
<1>5. ASSUME NEW k \in 0 .. Len(screen') - 1
      PROVE  X68LineShown(k, X68At(X68LineOf(k \div per)), screen'[k + 1])
  <2>1. CASE k < n
    <3>1. k \in 0 .. n - 1 /\ k + 1 \in 1 .. n
      BY <1>2, <2>1
    <3>2. X68LineShown(k, X68At(X68LineOf(k \div per)), screen[k + 1])
      BY <1>1, <3>1 DEF X68Drawn
    <3> QED
      BY <3>1, <3>2
  <2>2. CASE k >= n
    <3> DEFINE j == k - n
    <3>1. j \in 0 .. per - 1 /\ k = n + j
      BY <1>2, <2>2
    <3>2. k \div per = row
      <4>1. CASE per = 1
        BY <1>2, <3>1, <4>1
      <4>2. CASE per = 2
        BY <1>2, <3>1, <4>2
      <4> QED
        BY <1>2, <4>1, <4>2
    <3> HIDE DEF j
    <3> QED
      BY <3>1, <3>2
  <2> QED
    BY <1>2, <2>1, <2>2
<1>6. X68Size' = X68Size
  BY <1>1, X68Frame
<1>7. ASSUME NEW k \in 0 .. Len(screen') - 1
      PROVE  X68LineShown(k, X68At(X68LineOf(k \div X68Per)), screen[k + 1])'
  <2>1. X68LineShown(k, X68At(X68LineOf(k \div X68Per)), screen'[k + 1])
    BY <1>5
  <2> QED
    BY <1>3, <1>6, <2>1 DEF X68LineShown, X68At, X68LineOf
<1> QED
  BY <1>3, <1>4, <1>7 DEF X68Drawn

\* The reader at the end of the lines.
LEMMA X68Stops ==
  ASSUME X68Kept, pc = "row", pc' = "keys", UNCHANGED <<in, row, screen>>,
         rd' = X68Read, rd'.ret = 0
  PROVE  X68Kept'
<1>1. X68File /\ X68Drawn /\ X68Ends /\ X68Phase
  BY DEF X68Kept
<1>2. rd'.len = rd.len /\ X68At(X68LineOf(row)) >= rd.len
  BY X68Reads
<1>3. X68File' /\ rd'.len = Len(in'.data)
  BY <1>1, <1>2, X68Frame
<1>4. /\ X68Drawn'
      /\ X68At(X68LinesTo(row))' = X68At(X68LinesTo(row))
      /\ X68At(X68LineOf(row))' = X68At(X68LineOf(row))
  BY <1>1, <1>2, X68SameDrawn
<1>5. X68Ends'
  BY <1>1, <1>2, <1>4 DEF X68Ends
<1>6. X68Reading' /\ X68Phase'
  BY <1>1, <1>3 DEF X68Reading, X68Phase
<1> QED
  BY <1>3, <1>4, <1>5, <1>6 DEF X68Kept

\* A line is read to be worked on.
LEMMA X68LineKeeps ==
  ASSUME X68Kept, X68Line
  PROVE  X68Kept'
<1>1. pc = "row" /\ ~in.dither /\ UNCHANGED <<in, row, screen>>
  BY DEF X68Line
<1>2. \/ row >= in.h /\ pc' = "keys" /\ rd' = rd
      \/ row < in.h /\ rd' = X68Read /\ rd'.ret = 0 /\ pc' = "keys"
      \/ row < in.h /\ rd' = X68Read /\ rd'.ret # 0 /\ pc' = "dot" /\ line' = <<>>
  <2>1. row \in Nat /\ in.h \in Nat
    BY X68Sizes DEF X68Kept, X68Drawn
  <2> QED
    BY <2>1 DEF X68Line
<1>3. X68File /\ X68Drawn /\ X68Ends /\ X68Phase
  BY DEF X68Kept
<1>4. CASE row >= in.h /\ pc' = "keys" /\ rd' = rd
  BY <1>1, <1>4, X68Quiet
<1>5. CASE row < in.h /\ rd' = X68Read /\ rd'.ret = 0 /\ pc' = "keys"
  BY <1>1, <1>5, X68Stops
<1>6. CASE row < in.h /\ rd' = X68Read /\ rd'.ret # 0 /\ pc' = "dot" /\ line' = <<>>
  <2>1. /\ rd'.len = rd.len /\ Reader(rd', X68Size, X68At(X68LinesTo(row + 1)))
        /\ LineRead(rd', X68Size, X68At(X68LineOf(row)))
        /\ FilledFor(rd', X68Size, X68LinesTo(row + 1))
    BY <1>1, <1>6, X68Reads
  <2>2. X68File' /\ X68Size' = X68Size /\ rd'.len = Len(in'.data)
        /\ \A m : X68At(m)' = X68At(m)
    BY <1>1, <1>3, <2>1, X68Frame
  <2>3. /\ X68Drawn'
        /\ X68At(X68LinesTo(row))' = X68At(X68LinesTo(row))
        /\ X68At(X68LineOf(row))' = X68At(X68LineOf(row))
    BY <1>1, <1>3, <2>1, X68SameDrawn
  <2>4. X68Ends'
    BY <1>1, <1>3, <1>6, <2>1, <2>3 DEF X68Ends
  <2>5. X68LineBegun'
    <3>1. IsSequence(line') /\ Len(line') = 0 /\ in'.w \in Nat
      BY <1>1, <1>3, <1>6, EmptyIsSequence, X68Sizes
    <3> QED
      BY <3>1 DEF X68LineBegun
  <2>6. X68At(X68LinesTo(row + 1))' = X68At(X68LinesTo(row + 1))
        /\ X68LinesTo(row + 1)' = X68LinesTo(row + 1)
    BY <1>1, <2>2 DEF X68At, X68LinesTo
  <2>7. X68Reading'
    BY <1>1, <1>6, <2>1, <2>2, <2>3, <2>5, <2>6 DEF X68Reading
  <2>8. X68Phase'
    BY <1>1, <1>3, <1>6, <2>2 DEF X68Phase
  <2> QED
    BY <2>2, <2>3, <2>4, <2>7, <2>8 DEF X68Kept
<1> QED
  BY <1>2, <1>4, <1>5, <1>6

\* The next dots of a line come from the bytes after those of the last.
LEMMA X68DotKeeps ==
  ASSUME X68Kept, X68Dot
  PROVE  X68Kept'
<1>1. /\ pc = "dot" /\ Len(line) < in.w
      /\ UNCHANGED <<pc, in, gmode, pal, rd, row, screen, av3>>
  BY DEF X68Dot, Diffuse
<1>2. X68File /\ X68Drawn /\ X68Ends /\ X68Phase /\ X68Reading /\ X68LineBegun
  BY <1>1 DEF X68Kept, X68Reading
<1>3. X68File' /\ X68Size' = X68Size /\ rd'.len = Len(in'.data)
      /\ \A m : X68At(m)' = X68At(m)
  BY <1>1, <1>2, X68Frame
<1>4. /\ X68Drawn'
      /\ X68At(X68LinesTo(row))' = X68At(X68LinesTo(row))
      /\ X68At(X68LineOf(row))' = X68At(X68LineOf(row))
  BY <1>1, <1>2, X68SameDrawn
<1>5. X68Ends'
  BY <1>1, <1>2, <1>4 DEF X68Ends
<1>6. X68Phase'
  BY <1>1, <1>2, <1>3 DEF X68Phase
<1>7. X68LineBegun'
  <2> DEFINE x == Len(line) + 1
             place == [c \in Colour |-> [z \in 1 .. in.w |-> X68Place(c, z)]]
  <2>1. Len(line) \in Nat /\ IsSequence(line) /\ in.w \in Nat
    BY <1>2, Appended, X68Sizes DEF X68LineBegun
  <2> DEFINE new == [c \in Colour |-> <<rd.buff[place[c][x]], Level(av1[c][x])>>]
  <2>2. line' = Append(line, new)
    BY DEF X68Dot, Diffuse
  <2>3. \A c \in Colour : new[c][1] = rd.buff[X68Place(c, x)]
    <3>1. x \in 1 .. in.w
      BY <1>1, <2>1
    <3> QED
      BY <3>1
  <2> HIDE DEF new
  <2>4. line' = Append(line, new)
    BY <2>2
  <2>5. /\ IsSequence(line') /\ Len(line') = x
        /\ \A k \in 1 .. Len(line) : line'[k] = line[k]
        /\ line'[x] = new
    BY <2>1, <2>4, Appended
  <2>6. \A c, k : X68Place(c, k)' = X68Place(c, k)
    BY <1>1 DEF X68Place
  <2>7. ASSUME NEW k \in 1 .. Len(line'), NEW c \in Colour
        PROVE  line'[k][c][1] = rd.buff[X68Place(c, k)]
    <3>1. CASE k = x
      BY <2>3, <2>5, <3>1
    <3>2. CASE k # x
      <4>1. k \in 1 .. Len(line)
        BY <2>1, <2>5, <3>2
      <4> QED
        BY <1>2, <2>5, <4>1 DEF X68LineBegun
    <3> QED
      BY <3>1, <3>2
  <2>8. Len(line') <= in.w
    BY <1>1, <2>1, <2>5
  <2> QED
    BY <1>1, <2>5, <2>6, <2>7, <2>8 DEF X68LineBegun
<1>8. X68Reading'
  <2>1. X68At(X68LinesTo(row + 1))' = X68At(X68LinesTo(row + 1))
        /\ X68LinesTo(row + 1)' = X68LinesTo(row + 1)
    BY <1>1, <1>3 DEF X68At, X68LinesTo
  <2> QED
    BY <1>1, <1>2, <1>3, <1>4, <1>7, <2>1 DEF X68Reading
<1> QED
  BY <1>3, <1>4, <1>5, <1>6, <1>8 DEF X68Kept

\* Where the next row begins.
LEMMA X68RowDone ==
  ASSUME X68Kept, X68Drawn', in' = in, row' = row + 1, pc' = "row", rd'.len = rd.len,
         Reader(rd', X68Size, X68At(X68LinesTo(row + 1))),
         FilledFor(rd', X68Size, X68LinesTo(row + 1))
  PROVE  X68Kept'
<1>1. X68File /\ X68Phase /\ row \in Nat
  BY DEF X68Kept, X68Drawn
<1>2. X68File' /\ X68Size' = X68Size /\ rd'.len = Len(in'.data)
      /\ \A m : X68At(m)' = X68At(m)
  BY <1>1, X68Frame
<1>3. /\ X68LinesTo(row)' = X68LinesTo(row + 1)
      /\ X68At(X68LinesTo(row))' = X68At(X68LinesTo(row + 1))
  BY <1>2 DEF X68LinesTo, X68At
<1>4. X68At(X68LinesTo(row + 1)) - rd.len < 2 * BuffSize
  <2>1. X68LinesTo(row + 1) \in Nat
    BY <1>1, FifthPassed
  <2> QED
    BY <1>1, <2>1, FilledWithin
<1>5. X68Ends'
  BY <1>3, <1>4 DEF X68Ends
<1>6. X68Reading'
  BY <1>2, <1>3 DEF X68Reading
<1>7. X68Phase'
  BY <1>1, <1>2 DEF X68Phase
<1> QED
  BY <1>2, <1>5, <1>6, <1>7 DEF X68Kept

\* The first byte of a dot of a line that the file has.
LEMMA X68ByteAt ==
  ASSUME X68File, NEW r, NEW p \in Nat, r.idx \in Nat, r.len = rd.len, rd.len \in Nat,
         LineRead(r, X68Size, p), p + X68Size <= rd.len, NEW d \in 1 .. in.w
  PROVE  r.buff[r.idx + 2 * (d - 1)] = p + 2 * (d - 1)
<1>1. in.w \in Nat /\ X68Size = 2 * in.w
  BY X68Sizes DEF X68Size
<1> DEFINE j == 2 * (d - 1)
<1>2. j \in 0 .. X68Size - 1 /\ p + j < rd.len
  BY <1>1
<1> HIDE DEF j
<1>3. r.buff[r.idx + j] = p + j
  BY <1>2 DEF LineRead, HasBytes
<1> QED
  BY <1>3 DEF j

\* A line that is done has each dot's bytes in their places.
LEMMA X68ShowKeeps ==
  ASSUME X68Kept, X68Show
  PROVE  X68Kept'
<1> DEFINE n == Len(screen)
           p == X68At(X68LineOf(row))
           new == [x |-> 0, y |-> row, px |-> line]
<1>1. /\ pc = "dot" /\ pc' = "row" /\ Len(line) = in.w /\ row' = row + 1
      /\ screen' = Append(screen, new) /\ UNCHANGED <<in, rd>>
  BY DEF X68Show, Draw
<1>2. /\ X68File /\ X68Drawn /\ X68Phase /\ ~in.dither /\ row < in.h
      /\ Reader(rd, X68Size, X68At(X68LinesTo(row + 1)))
      /\ FilledFor(rd, X68Size, X68LinesTo(row + 1))
      /\ LineRead(rd, X68Size, p) /\ X68LineBegun
  BY <1>1 DEF X68Kept, X68Reading
<1>3. /\ row \in Nat /\ in.w \in Nat /\ n = row * X68Per /\ X68Per = 1 /\ IsSequence(screen)
      /\ rd.idx \in Nat /\ rd.len \in Nat /\ X68LineOf(row) \in Nat
  BY <1>2, X68Sizes, FifthPassed DEF X68Drawn, X68Per, Reader, RdType
<1>4. p \in Nat /\ n = row
  BY <1>2, <1>3, X68Sizes
<1> HIDE DEF p
<1>5. X68LineShown(n, p, new)
  <2> SUFFICES ASSUME p + X68Size <= rd.len, NEW x \in 1 .. in.w, NEW c \in Colour
               PROVE  line[x][c][1] = p + 2 * (x - 1)
    BY <1>3, <1>4 DEF X68LineShown
  <2>1. line[x][c][1] = rd.buff[rd.idx + 2 * (x - 1)]
    BY <1>1, <1>2 DEF X68LineBegun, X68Place
  <2>2. rd.buff[rd.idx + 2 * (x - 1)] = p + 2 * (x - 1)
    BY <1>2, <1>3, <1>4, X68ByteAt
  <2> QED
    BY <2>1, <2>2
<1> HIDE DEF new
<1>6. /\ IsSequence(screen') /\ Len(screen') = n + X68Per
      /\ \A k \in 1 .. n : screen'[k] = screen[k]
      /\ screen'[n + 1] = new
  BY <1>1, <1>3, Appended
<1>7. \A j \in 0 .. X68Per - 1 :
        X68LineShown(n + j, X68At(X68LineOf(row)), screen'[n + j + 1])
  <2> TAKE j \in 0 .. X68Per - 1
  <2>1. j = 0 /\ n + 0 = n /\ n + 0 + 1 = n + 1
    BY <1>3, <1>4
  <2> HIDE DEF n
  <2> QED
    BY <1>5, <1>6, <2>1 DEF p
<1>8. X68Drawn'
  BY <1>1, <1>2, <1>6, <1>7, X68DrawsRow
<1> QED
  BY <1>1, <1>2, <1>8, X68RowDone

\* The two lines of the dither have each of the file's dots twice.
LEMMA DitherPlaces ==
  ASSUME NEW w \in Nat, NEW upper, NEW place, NEW value,
         NEW x \in 1 .. 2 * w, NEW c \in Colour
  PROVE  /\ DitherLine(w, upper, place, value)[x][c][1] = place[(x + 1) \div 2]
         /\ (x + 1) \div 2 \in 1 .. w
         /\ (x + 1) \div 2 - 1 = (x - 1) \div 2
<1>1. (x + 1) \div 2 \in 1 .. w /\ (x + 1) \div 2 - 1 = (x - 1) \div 2
  OBVIOUS
<1>2. DitherLine(w, upper, place, value)[x][c][1] = place[(x + 1) \div 2]
  BY DEF DitherLine
<1> QED
  BY <1>1, <1>2

\* Two lines of the screen for one of the file.
LEMMA X68DitherKeeps ==
  ASSUME X68Kept, X68Dither4
  PROVE  X68Kept'
<1> DEFINE t == X68Read
           place == [d \in 1 .. in.w |-> t.buff[t.idx + 2 * (d - 1)]]
           value == [c \in Colour |-> [d \in 1 .. in.w |-> Field(c, X68Word(d))]]
           two == <<[x |-> 0, y |-> 2 * row, px |-> DitherLine(in.w, TRUE, place, value)],
                    [x |-> 0, y |-> 2 * row + 1, px |-> DitherLine(in.w, FALSE, place, value)]>>
<1>1. pc = "row" /\ in.dither /\ in' = in
  BY DEF X68Dither4
<1>2. \/ row >= in.h /\ pc' = "keys" /\ UNCHANGED <<rd, row, screen>>
      \/ row < in.h /\ rd' = t /\ t.ret = 0 /\ pc' = "keys" /\ UNCHANGED <<row, screen>>
      \/ /\ row < in.h /\ rd' = t /\ t.ret # 0 /\ pc' = pc /\ row' = row + 1
         /\ screen' = screen \o two
  <2>1. row \in Nat /\ in.h \in Nat
    BY X68Sizes DEF X68Kept, X68Drawn
  <2>2. row >= in.h \/ row < in.h
    BY <2>1
  <2>3. row < in.h => ~(row >= in.h)
    BY <2>1
  <2> QED
    BY <2>2, <2>3, Zenon DEF X68Dither4
<1> HIDE DEF t, two
<1>3. CASE row >= in.h /\ pc' = "keys" /\ UNCHANGED <<rd, row, screen>>
  BY <1>1, <1>3, X68Quiet
<1>4. CASE row < in.h /\ rd' = t /\ t.ret = 0 /\ pc' = "keys" /\ UNCHANGED <<row, screen>>
  BY <1>1, <1>4, X68Stops DEF t
<1>5. CASE /\ row < in.h /\ rd' = t /\ t.ret # 0 /\ pc' = pc /\ row' = row + 1
           /\ screen' = screen \o two
  <2> DEFINE n == Len(screen)
             p == X68At(X68LineOf(row))
  <2>1. /\ t.len = rd.len /\ Reader(t, X68Size, X68At(X68LinesTo(row + 1)))
        /\ LineRead(t, X68Size, p) /\ FilledFor(t, X68Size, X68LinesTo(row + 1))
    BY <1>1, <1>5, X68Reads DEF t
  <2>2. /\ X68File /\ row \in Nat /\ in.w \in Nat /\ n = row * X68Per /\ X68Per = 2
        /\ IsSequence(screen) /\ t.idx \in Nat /\ rd.len \in Nat /\ X68LineOf(row) \in Nat
    BY <1>1, <2>1, X68Sizes, FifthPassed
    DEF X68Kept, X68Drawn, X68Phase, X68Per, Reader, RdType
  <2>3. p \in Nat /\ n = 2 * row /\ n \in Nat
    BY <2>2, X68Sizes, SMTT(40)
  <2> HIDE DEF p
  <2>4. ASSUME NEW upper \in BOOLEAN, NEW k,
               NEW l, l = [x |-> 0, y |-> k, px |-> DitherLine(in.w, upper, place, value)]
        PROVE  X68LineShown(k, p, l)
    <3> HIDE DEF place, value
    <3>1. l.x = 0 /\ l.y = k /\ l.px = DitherLine(in.w, upper, place, value)
      BY <2>4
    <3>2. ASSUME p + X68Size <= rd.len, NEW x \in 1 .. in.w * X68Per, NEW c \in Colour
          PROVE  l.px[x][c][1] = p + 2 * ((x - 1) \div X68Per)
      <4> DEFINE d == (x + 1) \div 2
      <4>1. x \in 1 .. 2 * in.w
        BY <2>2, <3>2
      <4>2. l.px[x][c][1] = place[d] /\ d \in 1 .. in.w /\ d - 1 = (x - 1) \div 2
        BY <2>2, <3>1, <4>1, DitherPlaces
      <4> HIDE DEF d
      <4>3. place[d] = t.buff[t.idx + 2 * (d - 1)]
        BY <4>2 DEF place
      <4>4. t.buff[t.idx + 2 * (d - 1)] = p + 2 * (d - 1)
        BY <2>1, <2>2, <2>3, <3>2, <4>2, X68ByteAt
      <4> QED
        BY <2>2, <4>2, <4>3, <4>4
    <3> QED
      BY <3>1, <3>2 DEF X68LineShown
  <2> DEFINE d == [x |-> 0, y |-> n, px |-> DitherLine(in.w, TRUE, place, value)]
             e == [x |-> 0, y |-> n + 1, px |-> DitherLine(in.w, FALSE, place, value)]
  <2>5. X68LineShown(n, p, d) /\ X68LineShown(n + 1, p, e)
    <3> HIDE DEF place, value, n
    <3> QED
      BY <2>4
  <2>6. two = <<d, e>>
    BY <2>3 DEF two
  <2> HIDE DEF d, e, n
  <2>7. /\ IsSequence(screen') /\ Len(screen') = n + X68Per
        /\ \A k \in 1 .. n : screen'[k] = screen[k]
        /\ screen'[n + 1] = d /\ screen'[n + 2] = e
    <3>1. screen' = screen \o <<d, e>>
      BY <1>5, <2>6
    <3>2. /\ IsSequence(screen \o <<d, e>>) /\ Len(screen \o <<d, e>>) = Len(screen) + 2
          /\ \A k \in 1 .. Len(screen) : (screen \o <<d, e>>)[k] = screen[k]
          /\ (screen \o <<d, e>>)[Len(screen) + 1] = d
          /\ (screen \o <<d, e>>)[Len(screen) + 2] = e
      BY <2>2, AppendedTwo
    <3> QED
      BY <2>2, <3>1, <3>2 DEF n
  <2>8. \A j \in 0 .. X68Per - 1 :
          X68LineShown(n + j, X68At(X68LineOf(row)), screen'[n + j + 1])
    <3> TAKE j \in 0 .. X68Per - 1
    <3>1. /\ j = 0 \/ j = 1
          /\ n + 0 = n /\ n + 0 + 1 = n + 1 /\ n + 1 + 1 = n + 2
      BY <2>2, <2>3
    <3> QED
      BY <2>5, <2>7, <3>1 DEF p
  <2>9. X68Drawn'
    BY <1>1, <1>5, <2>1, <2>7, <2>8, X68DrawsRow DEF n
  <2> QED
    BY <1>1, <1>5, <2>1, <2>9, X68RowDone
<1> QED
  BY <1>2, <1>3, <1>4, <1>5

\* Every step of x68load.
LEMMA X68NextKeeps ==
  ASSUME X68Kept, X68Next
  PROVE  X68Kept'
<1>1. CASE X68Main
  <2>1. pc = "main" /\ pc' \in {"ginit", "error"} /\ UNCHANGED <<in, rd, row, screen>>
    BY <1>1 DEF X68Main
  <2> QED
    BY <2>1, X68Quiet
<1>2. CASE X68Ginit
  <2>1. CASE pc' = "error"
    <3>1. pc = "ginit" /\ UNCHANGED <<in, rd, row, screen>>
      BY <1>2, <2>1 DEF X68Ginit
    <3> QED
      BY <2>1, <3>1, X68Quiet
  <2>2. CASE pc' # "error"
    <3>1. pc = "ginit" /\ pc' = "row" /\ screen' = <<>> /\ UNCHANGED <<in, rd, row>>
      BY <1>2, <2>2 DEF X68Ginit
    <3> QED
      BY <3>1, X68GinitKeeps
  <2> QED
    BY <2>1, <2>2
<1>3. CASE X68KeyC
  <2>1. pc = "keys" /\ pc' = "keys" /\ UNCHANGED <<in, rd, row, screen>>
    BY <1>3 DEF X68KeyC
  <2> QED
    BY <2>1, X68Quiet
<1>4. CASE KeyEnd
  <2>1. pc = "keys" /\ pc' = "end" /\ UNCHANGED <<in, rd, row, screen>>
    BY <1>4 DEF KeyEnd
  <2> QED
    BY <2>1, X68Quiet
<1> QED
  BY <1>1, <1>2, <1>3, <1>4, X68LineKeeps, X68DotKeeps, X68ShowKeeps, X68DitherKeeps
  DEF X68Next

----------------------------------------------------------------------------
(* tiffload.                                                               *)

\* The bytes of a line, and where the line for a row is: it may begin behind the end.
TiffAt(r) == TiffTag("offset", 0) + r * TiffScan

\* The lines of the screen for a row.
TiffTwice == TiffBit = 16 /\ in.dither
TiffPer == IF TiffTwice THEN 2 ELSE 1

TiffBits == {1, 4, 8, 16, 24}

\* Dot x of a line, whose bytes are from p on.
TiffDotAt(dot, p, x) ==
  CASE TiffBit < 16 ->
         LET each == 8 \div TiffBit
             part == (x - 1) % each
         IN  dot = <<p + (x - 1) \div each,
                     IF TiffBit = 4 /\ TiffFill = 2 THEN 1 - part ELSE part>>
    [] TiffBit = 16 -> \A c \in Colour : dot[c][1] = p + 2 * ((x - 1) \div TiffPer)
    [] OTHER -> /\ dot.red[1] = p + 3 * x - 3 /\ dot.green[1] = p + 3 * x - 2
                /\ dot.blue[1] = p + 3 * x - 1

TiffLineShown(k, p, shown) ==
  /\ shown.x = 0 /\ shown.y = k /\ Len(shown.px) = TiffPer * TiffWidth
  /\ p + TiffScan <= rd.len =>
       \A x \in 1 .. TiffPer * TiffWidth : TiffDotAt(shown.px[x], p, x)

TiffDrawn ==
  /\ IsSequence(screen) /\ Len(screen) = row * TiffPer
  /\ row \in Nat /\ row <= TiffYsize
  /\ \A k \in 0 .. Len(screen) - 1 : TiffLineShown(k, TiffAt(k \div TiffPer), screen[k + 1])

TiffEnds ==
  /\ row > 0 => TiffAt(row) - rd.len < BuffSize
  /\ pc = "keys" => row = TiffYsize \/ TiffAt(row) + TiffScan > rd.len

TiffReading ==
  pc = "row" /\ TiffScan > 0 =>
    /\ Reader(rd, TiffScan, TiffAt(row))
    /\ Within(rd, TiffAt(row), BuffSize) \/ rd.remain = 0

TiffPhase ==
  /\ pc \in {"main", "ginit", "gaload", "row", "keys", "end", "error", "fault"}
  /\ pc \in {"main", "ginit", "gaload"} =>
       rd = Opened(Len(in.data)) /\ row = 0 /\ screen = <<>>
  /\ pc \in {"row", "keys", "end"} =>
       TiffBit \in TiffBits /\ rd.len = Len(in.data) /\ TiffDrawn /\ TiffEnds

TiffKept == IsTiffFile(in) /\ TiffReading /\ TiffPhase
TiffInv == prog = "tiffload" => TiffKept

\* Some number of a set is the largest when there is a bound.
LEMMA Largest ==
  ASSUME NEW n \in Nat, NEW S \in SUBSET (1 .. n), S # {}
  PROVE  Max(S) \in S
<1> DEFINE W == {n - y : y \in S}
<1>1. W \in SUBSET Nat /\ W # {}
  <2>1. \A y \in S : n - y \in Nat
    OBVIOUS
  <2>2. W \in SUBSET Nat
    BY <2>1
  <2>3. W # {}
    OBVIOUS
  <2> QED
    BY <2>2, <2>3
<1> HIDE DEF W
<1>2. PICK w \in W : \A v \in W : w <= v
  BY <1>1, Smallest
<1>3. PICK x \in S : w = n - x
  BY DEF W
<1>4. \A y \in S : x >= y
  <2> TAKE y \in S
  <2>1. n - x <= n - y
    BY <1>2, <1>3 DEF W
  <2>2. x \in Nat /\ y \in Nat
    OBVIOUS
  <2> QED
    BY <2>1, <2>2
<1>5. \E z \in S : \A y \in S : z >= y
  BY <1>4
<1> QED
  BY <1>5 DEF Max

\* What a tag says is a number, and one of those the file has for it.
LEMMA TagGiven ==
  ASSUME IsTiffFile(in), NEW tag, NEW default \in Nat
  PROVE  TiffTag(tag, default) \in Nat
         /\ TiffTag(tag, default) \in TagValues(in, tag, default)
<1> DEFINE found == {k \in 1 .. Len(in.tags) :
                       in.tags[k].tag = tag /\ in.dir + 2 + EntryBytes * k <= HeadBytes}
<1>1. in.tags \in Seq([tag : STRING, val : Nat])
  BY DEF IsTiffFile
<1>2. Len(in.tags) \in Nat
        /\ \A k \in 1 .. Len(in.tags) : in.tags[k] \in [tag : STRING, val : Nat]
  BY <1>1, LenProperties, ElementOfSeq
<1>3. found \in SUBSET (1 .. Len(in.tags)) /\ \A k \in found : in.tags[k].tag = tag
  OBVIOUS
<1>4. TiffTag(tag, default) = IF found = {} THEN default ELSE in.tags[Max(found)].val
  BY DEF TiffTag
<1> HIDE DEF found
<1>5. CASE found = {}
  BY <1>4, <1>5 DEF TagValues
<1>6. CASE found # {}
  <2>1. Max(found) \in found
    BY <1>2, <1>3, <1>6, Largest
  <2> QED
    BY <1>2, <1>3, <1>4, <1>6, <2>1 DEF TagValues
<1> QED
  BY <1>5, <1>6

\* The numbers tiffload computes with.
LEMMA TiffSizes ==
  ASSUME IsTiffFile(in)
  PROVE  /\ TiffTag("offset", 0) \in Nat /\ TiffTag("colormap", 0) \in Nat
         /\ TiffXsize \in Nat /\ TiffYsize \in Nat /\ TiffBit \in Nat /\ Len(in.data) \in Nat
         /\ BuffSize \in Nat /\ TiffWidth \in 0 .. TiffXsize /\ TiffPer \in {1, 2}
         /\ TiffBit \in TiffBits => /\ TiffScan = (TiffBit * TiffXsize + 7) \div 8
                                    /\ TiffScan \in 0 .. BuffSize
<1>1. /\ TiffTag("offset", 0) \in Nat /\ TiffTag("colormap", 0) \in Nat
      /\ TiffXsize \in Nat /\ TiffYsize \in Nat /\ TiffBit \in Nat
  <2>1. 0 \in Nat /\ 1 \in Nat
    OBVIOUS
  <2> QED
    BY <2>1, TagGiven DEF TiffXsize, TiffYsize, TiffBit
<1>2. Len(in.data) \in Nat /\ BuffSize \in Nat /\ TiffPer \in {1, 2}
  <2>1. in.data \in Seq(0 .. 255)
    BY DEF IsTiffFile
  <2> QED
    BY <2>1, GaAssumption, LenProperties DEF TiffPer
<1>3. TiffWidth \in 0 .. TiffXsize
  BY <1>1, TiffAssumption DEF TiffWidth, Least
<1>4. ASSUME TiffBit \in TiffBits
      PROVE  TiffScan = (TiffBit * TiffXsize + 7) \div 8 /\ TiffScan \in 0 .. BuffSize
  <2> DEFINE x == TiffXsize
             b == TiffBit
  <2>1. x \in Nat
    BY <1>1
  <2>2. (b * x + 7) \div 8 <= BuffSize
    <3> DEFINE bits == TiffTag("bits", 1)
               samples == TiffTag("samples", 1)
    <3>1. x \in TagValues(in, "xsize", 0) /\ bits \in TagValues(in, "bits", 1)
          /\ samples \in TagValues(in, "samples", 1)
      BY TagGiven DEF TiffXsize
    <3>2. b = bits * samples
      BY DEF TiffBit
    <3> HIDE DEF x, b, bits, samples
    <3>3. (bits * samples * x + 7) \div 8 <= BuffSize
      BY <3>1 DEF IsTiffFile
    <3> QED
      BY <3>2, <3>3
  <2> HIDE DEF x
  <2>3. TiffScan = (b * x + 7) \div 8
    <3>1. /\ (1 * x + 7) \div 8 = (x + 7) \div 8 /\ (4 * x + 7) \div 8 = (x + 1) \div 2
          /\ (8 * x + 7) \div 8 = x /\ (16 * x + 7) \div 8 = 2 * x /\ (24 * x + 7) \div 8 = 3 * x
      BY <2>1
    <3>2. /\ b = 1 => TiffScan = (x + 7) \div 8
          /\ b = 4 => TiffScan = (x + 1) \div 2
          /\ b = 8 => TiffScan = x
          /\ b = 16 => TiffScan = 2 * x
          /\ b = 24 => TiffScan = 3 * x
      BY DEF TiffScan, x
    <3> QED
      BY <1>4, <3>1, <3>2 DEF TiffBits
  <2>4. (b * x + 7) \div 8 \in Nat
    <3>1. b * x \in Nat
      BY <1>1, <2>1
    <3> QED
      BY <3>1
  <2> QED
    BY <1>2, <2>2, <2>3, <2>4 DEF x
<1> QED
  BY <1>1, <1>2, <1>3, <1>4

\* The lines of a TIFF file follow each other without a gap.
LEMMA TiffAtNext ==
  ASSUME IsTiffFile(in), TiffBit \in TiffBits
  PROVE  /\ \A r \in Nat : TiffAt(r) \in Nat /\ TiffAt(r + 1) = TiffAt(r) + TiffScan
         /\ TiffAt(0) = TiffTag("offset", 0)
<1> DEFINE s == TiffScan
           o == TiffTag("offset", 0)
<1>1. s \in Nat /\ o \in Nat
  BY TiffSizes
<1> HIDE DEF s, o
<1>2. \A r \in Nat : r * s \in Nat /\ (r + 1) * s = r * s + s
  BY <1>1
<1>3. 0 * s = 0
  BY <1>1
<1> QED
  BY <1>1, <1>2, <1>3 DEF TiffAt, s, o

\* What is kept says that the lines of a TIFF file are in their places.
LEMMA TiffInvTells ==
  ASSUME TiffInv, prog = "tiffload"
  PROVE  TiffRowsInPlace
<1> SUFFICES ASSUME pc \in {"row", "keys", "end"} PROVE TiffRowsInPlace
  BY DEF TiffRowsInPlace
<1>1. IsTiffFile(in) /\ TiffBit \in TiffBits /\ rd.len = Len(in.data) /\ TiffDrawn /\ TiffEnds
  BY DEF TiffInv, TiffKept, TiffPhase
<1> DEFINE twice == TiffBit = 16 /\ in.dither
           per == IF twice THEN 2 ELSE 1
           stride == (TiffBit * TiffXsize + 7) \div 8
           from(k) == TiffTag("offset", 0) + (k \div per) * stride
<1>2. /\ per \in {1, 2} /\ per = TiffPer /\ row \in Nat /\ rd.len \in Nat /\ stride = TiffScan
      /\ BuffSize \in Nat /\ TiffYsize \in Nat /\ TiffScan \in Nat
  BY <1>1, TiffSizes DEF TiffPer, TiffTwice, TiffDrawn
<1> DEFINE n == Len(screen)
<1>3. n \in Nat /\ n = row * per /\ row <= TiffYsize
  BY <1>1, <1>2 DEF TiffDrawn
<1>4. ASSUME NEW k \in Nat
      PROVE  k \div per \in Nat /\ from(k) = TiffAt(k \div per) /\ from(k) \in Nat
  <2>1. k \div per \in Nat
    BY <1>2
  <2>2. from(k) = TiffAt(k \div per)
    BY <1>2 DEF TiffAt
  <2> HIDE DEF from
  <2>3. TiffAt(k \div per) \in Nat
    BY <1>1, <2>1, TiffAtNext
  <2> QED
    BY <2>1, <2>2, <2>3
<1> DEFINE dot(k, x) ==
        CASE TiffBit < 16 ->
               LET each == 8 \div TiffBit
                   part == (x - 1) % each
               IN  screen[k + 1].px[x] =
                     <<from(k) + (x - 1) \div each,
                       IF TiffBit = 4 /\ TiffFill = 2 THEN 1 - part ELSE part>>
          [] TiffBit = 16 ->
               \A c \in Colour :
                 screen[k + 1].px[x][c][1] = from(k) + 2 * ((x - 1) \div per)
          [] OTHER ->
               /\ screen[k + 1].px[x].red[1] = from(k) + 3 * x - 3
               /\ screen[k + 1].px[x].green[1] = from(k) + 3 * x - 2
               /\ screen[k + 1].px[x].blue[1] = from(k) + 3 * x - 1
<1>5. ASSUME NEW k \in 0 .. n - 1
      PROVE  /\ screen[k + 1].x = 0 /\ screen[k + 1].y = k
             /\ Len(screen[k + 1].px) = per * TiffWidth
             /\ from(k) + stride <= rd.len => \A x \in 1 .. per * TiffWidth : dot(k, x)
  <2>1. k \in Nat /\ TiffLineShown(k, TiffAt(k \div TiffPer), screen[k + 1])
    BY <1>1 DEF TiffDrawn
  <2>2. TiffAt(k \div TiffPer) = from(k)
    BY <1>2, <1>4, <2>1
  <2>3. \A x : TiffDotAt(screen[k + 1].px[x], from(k), x) => dot(k, x)
    <3> HIDE DEF from
    <3> QED
      BY <1>2 DEF TiffDotAt
  <2> HIDE DEF from, per, stride, dot
  <2>4. TiffLineShown(k, from(k), screen[k + 1])
    BY <2>1, <2>2
  <2> QED
    BY <1>2, <2>3, <2>4 DEF TiffLineShown
<1>6. n > 0 => from(n - 1) + stride - rd.len < BuffSize
  <2> SUFFICES ASSUME n > 0 PROVE from(n - 1) + stride - rd.len < BuffSize
    OBVIOUS
  <2>1. row > 0 /\ (n - 1) \div per = row - 1 /\ n - 1 \in Nat /\ row - 1 \in Nat
    <3>1. CASE per = 1
      BY <1>2, <1>3, <3>1
    <3>2. CASE per = 2
      BY <1>2, <1>3, <3>2
    <3> QED
      BY <1>2, <3>1, <3>2
  <2>2. from(n - 1) = TiffAt(row - 1) /\ from(n - 1) \in Nat
    BY <1>4, <2>1
  <2>3. TiffAt(row) = TiffAt(row - 1) + TiffScan
    <3>1. (row - 1) + 1 = row
      BY <1>2
    <3> QED
      BY <1>1, <2>1, <3>1, TiffAtNext
  <2> DEFINE q == from(n - 1) + stride
  <2>4. q = TiffAt(row) /\ q \in Int
    BY <1>2, <2>2, <2>3
  <2>5. TiffAt(row) - rd.len < BuffSize
    BY <1>1, <2>1 DEF TiffEnds
  <2> HIDE DEF q
  <2>6. q - rd.len < BuffSize
    BY <2>4, <2>5
  <2>7. from(n - 1) + stride - rd.len = q - rd.len
    BY <1>2, <2>2 DEF q
  <2> QED
    BY <2>6, <2>7
<1>7. ASSUME pc = "keys" PROVE n = per * TiffYsize \/ from(n) + stride > rd.len
  <2>1. n \div per = row /\ row * per = per * row
    <3>1. CASE per = 1
      BY <1>2, <1>3, <3>1
    <3>2. CASE per = 2
      BY <1>2, <1>3, <3>2
    <3> QED
      BY <1>2, <3>1, <3>2
  <2>2. from(n) = TiffAt(row)
    BY <1>3, <1>4, <2>1
  <2>3. row = TiffYsize \/ TiffAt(row) + TiffScan > rd.len
    BY <1>1, <1>7 DEF TiffEnds
  <2> HIDE DEF from, per, n, stride
  <2> QED
    BY <1>2, <1>3, <2>1, <2>2, <2>3
<1> HIDE DEF dot
<1>8. \A k \in 0 .. n - 1 :
             /\ screen[k + 1].x = 0 /\ screen[k + 1].y = k
             /\ Len(screen[k + 1].px) = per * TiffWidth
             /\ from(k) + stride <= rd.len => \A x \in 1 .. per * TiffWidth : dot(k, x)
  BY <1>5
<1> USE DEF dot
<1> QED
  BY <1>6, <1>7, <1>8, Zenon DEF TiffRowsInPlace

\* read() of any number of bytes: what follows from it for a buffer given anew.
LEMMA ReadToType ==
  ASSUME NEW r \in RdType, NEW n \in Nat
  PROVE  ReadTo(r, n) \in RdType /\ ReadTo(r, n).len = r.len /\ ReadTo(r, n).remain = r.remain
<1> DEFINE got == IF r.at > r.len THEN 0 ELSE Least(n, r.len - r.at)
           b == [k \in DOMAIN r.buff |-> IF k < got THEN r.at + k ELSE r.buff[k]]
           t == [r EXCEPT !.at = @ + got, !.ret = got, !.buff = b]
<1>1. t = ReadTo(r, n)
  BY DEF ReadTo
<1>2. /\ r.len \in Nat /\ r.at \in Nat /\ DOMAIN r.buff = 0 .. BuffSize - 1
      /\ \A k \in 0 .. BuffSize - 1 : r.buff[k] \in Int
  BY DEF RdType
<1>3. got \in Nat /\ r.at + got \in Nat
  BY <1>2 DEF Least
<1>4. b \in [0 .. BuffSize - 1 -> Int]
  <2>1. BuffSize \in Nat
    BY GaAssumption
  <2> QED
    BY <1>2, <1>3, <2>1
<1> HIDE DEF got, b
<1>5. t \in RdType /\ t.len = r.len /\ t.remain = r.remain
  BY <1>3, <1>4 DEF RdType
<1> QED
  BY <1>1, <1>5

\* What the file says of the picture.
LEMMA TiffFrame ==
  ASSUME IsTiffFile(in), in' = in
  PROVE  /\ IsTiffFile(in)' /\ TiffScan' = TiffScan /\ TiffPer' = TiffPer
         /\ TiffYsize' = TiffYsize /\ TiffBit' = TiffBit /\ TiffWidth' = TiffWidth
         /\ TiffFill' = TiffFill /\ TiffTag("offset", 0)' = TiffTag("offset", 0)
<1>1. IsTiffFile(in)'
  BY DEF IsTiffFile, TagValues
<1>2. \A tag, default : TiffTag(tag, default)' = TiffTag(tag, default)
  BY DEF TiffTag
<1>3. TiffXsize' = TiffXsize /\ TiffYsize' = TiffYsize /\ TiffBit' = TiffBit
      /\ TiffFill' = TiffFill
  BY <1>2 DEF TiffXsize, TiffYsize, TiffBit, TiffFill
<1>4. TiffScan' = TiffScan /\ TiffPer' = TiffPer /\ TiffWidth' = TiffWidth
  BY <1>3 DEF TiffScan, TiffPer, TiffTwice, TiffWidth
<1> QED
  BY <1>1, <1>2, <1>3, <1>4

\* A line stays drawn as it is while the file and its tags do not change.
LEMMA TiffShownFrame ==
  ASSUME IsTiffFile(in), in' = in, rd'.len = rd.len
  PROVE  /\ \A r : TiffAt(r)' = TiffAt(r)
         /\ \A k, p, l : TiffLineShown(k, p, l)' <=> TiffLineShown(k, p, l)
<1>1. /\ TiffScan' = TiffScan /\ TiffPer' = TiffPer /\ TiffBit' = TiffBit
      /\ TiffWidth' = TiffWidth /\ TiffFill' = TiffFill
      /\ TiffTag("offset", 0)' = TiffTag("offset", 0)
  BY TiffFrame
<1>2. \A r : TiffAt(r)' = TiffAt(r)
  BY <1>1 DEF TiffAt
<1>3. \A d, p, x : TiffDotAt(d, p, x)' <=> TiffDotAt(d, p, x)
  BY <1>1 DEF TiffDotAt
<1>4. \A k, p, l : TiffLineShown(k, p, l)' <=> TiffLineShown(k, p, l)
  BY <1>1, <1>3 DEF TiffLineShown
<1> QED
  BY <1>2, <1>4

\* What is shown so far is kept.
LEMMA TiffSameDrawn ==
  ASSUME IsTiffFile(in), TiffDrawn, UNCHANGED <<in, row, screen>>, rd'.len = rd.len
  PROVE  TiffDrawn' /\ TiffAt(row)' = TiffAt(row)
<1>1. /\ TiffPer' = TiffPer /\ TiffYsize' = TiffYsize
      /\ TiffScan' = TiffScan /\ TiffTag("offset", 0)' = TiffTag("offset", 0)
      /\ \A k, p, l : TiffLineShown(k, p, l)' <=> TiffLineShown(k, p, l)
  BY TiffFrame, TiffShownFrame
<1>2. TiffAt(row)' = TiffAt(row)
  BY <1>1 DEF TiffAt
<1>3. \A k \in 0 .. Len(screen) - 1 : TiffAt(k \div TiffPer)' = TiffAt(k \div TiffPer)
  BY <1>1 DEF TiffAt
<1> QED
  BY <1>1, <1>2, <1>3 DEF TiffDrawn

\* An end without a picture.
LEMMA TiffLeaves ==
  ASSUME TiffKept, in' = in, pc' \in {"error", "fault"}
  PROVE  TiffKept'
<1>1. IsTiffFile(in)'
  BY TiffFrame DEF TiffKept
<1> QED
  BY <1>1 DEF TiffKept, TiffReading, TiffPhase

\* Before the file is looked into.
LEMMA TiffBegins ==
  ASSUME TiffKept, pc \in {"main", "ginit", "gaload"}, UNCHANGED <<in, rd, row>>,
         screen' = <<>>, pc' \in {"main", "ginit", "gaload"}
  PROVE  TiffKept'
<1>1. IsTiffFile(in)'
  BY TiffFrame DEF TiffKept
<1> QED
  BY <1>1 DEF TiffKept, TiffReading, TiffPhase

\* After the last line.
LEMMA TiffRests ==
  ASSUME TiffKept, pc \in {"row", "keys", "end"}, UNCHANGED <<in, row, screen>>,
         rd'.len = rd.len, pc' \in {"keys", "end"},
         pc' = "keys" => pc = "keys" \/ row >= TiffYsize \/ TiffAt(row) + TiffScan > rd.len
  PROVE  TiffKept'
<1>1. IsTiffFile(in) /\ TiffBit \in TiffBits /\ rd.len = Len(in.data) /\ TiffDrawn /\ TiffEnds
  BY DEF TiffKept, TiffPhase
<1>2. /\ IsTiffFile(in)' /\ TiffScan' = TiffScan /\ TiffYsize' = TiffYsize
      /\ TiffBit' = TiffBit /\ TiffDrawn' /\ TiffAt(row)' = TiffAt(row)
  BY <1>1, TiffFrame, TiffSameDrawn
<1>3. TiffEnds'
  <2>1. row \in Nat /\ TiffYsize \in Nat /\ row <= TiffYsize
    BY <1>1, TiffSizes DEF TiffDrawn
  <2> QED
    BY <1>1, <1>2, <2>1 DEF TiffEnds
<1> QED
  BY <1>1, <1>2, <1>3 DEF TiffKept, TiffReading, TiffPhase

\* The header, the palette, and to where the lines are.
LEMMA TiffGaloadKeeps ==
  ASSUME TiffKept, TiffGaload
  PROVE  TiffKept'
<1>1. pc = "gaload" /\ UNCHANGED <<in, row, screen>>
  BY DEF TiffGaload
<1>2. CASE pc' \in {"error", "fault"}
  BY <1>1, <1>2, TiffLeaves
<1>3. CASE pc' \notin {"error", "fault"}
  <2>1. IsTiffFile(in) /\ rd = Opened(Len(in.data)) /\ row = 0 /\ screen = <<>>
    BY <1>1 DEF TiffKept, TiffPhase
  <2> DEFINE head == ReadTo(rd, HeadBytes)
             moved == [head EXCEPT !.at = TiffTag("colormap", 0)]
             lut == IF TiffTag("photometric", 0) = 3 THEN ReadTo(moved, 6 * ColorMax) ELSE head
             o == TiffTag("offset", 0)
             new == [lut EXCEPT !.at = o]
  <2>2. pc' = "row" /\ TiffBit \in TiffBits /\ rd' = new
    BY <1>3 DEF TiffGaload, TiffBits
  <2>3. /\ Len(in.data) \in Nat /\ o \in Nat /\ TiffTag("colormap", 0) \in Nat
        /\ TiffYsize \in Nat /\ TiffScan \in 0 .. BuffSize /\ BuffSize \in Nat
        /\ HeadBytes \in Nat /\ 6 * ColorMax \in Nat
    BY <2>1, <2>2, TiffSizes, TiffAssumption DEF ColorMax
  <2>4. rd \in RdType /\ rd.len = Len(in.data) /\ rd.remain = 0
    BY <2>1, <2>3, OpenedIs
  <2>5. head \in RdType /\ head.len = Len(in.data) /\ head.remain = 0
    BY <2>3, <2>4, ReadToType
  <2>6. lut \in RdType /\ lut.len = Len(in.data) /\ lut.remain = 0
    <3>1. moved \in RdType /\ moved.len = Len(in.data) /\ moved.remain = 0
      <4> HIDE DEF head
      <4> QED
        BY <2>3, <2>5 DEF RdType
    <3>2. /\ ReadTo(moved, 6 * ColorMax) \in RdType
          /\ ReadTo(moved, 6 * ColorMax).len = Len(in.data)
          /\ ReadTo(moved, 6 * ColorMax).remain = 0
      <4> HIDE DEF moved
      <4> QED
        BY <2>3, <3>1, ReadToType
    <3> HIDE DEF moved, head
    <3> QED
      BY <2>5, <3>2
  <2> HIDE DEF lut
  <2>7. /\ new \in RdType /\ new.len = Len(in.data) /\ new.remain = 0 /\ new.at = o
    <3> HIDE DEF o
    <3> QED
      BY <2>3, <2>6 DEF RdType
  <2> HIDE DEF new
  <2>8. ASSUME TiffScan > 0 PROVE Reader(new, TiffScan, o)
    <3>1. Multiple(0, TiffScan)
      <4> DEFINE s == TiffScan
      <4>1. s \in Nat
        BY <2>3
      <4> HIDE DEF s
      <4>2. 0 = 0 * s
        BY <4>1
      <4> QED
        BY <4>2 DEF Multiple, s
    <3>2. ReadSoFar(new, o)
      <4> HIDE DEF o
      <4> QED
        BY <2>3, <2>7 DEF ReadSoFar
    <3> QED
      BY <2>7, <3>1, <3>2 DEF Reader
  <2>9. TiffAt(0) = o
    BY <2>1, <2>2, TiffAtNext
  <2>10. /\ IsTiffFile(in)' /\ TiffScan' = TiffScan /\ TiffPer' = TiffPer
         /\ TiffYsize' = TiffYsize /\ TiffBit' = TiffBit /\ o' = o
    BY <1>1, <2>1, TiffFrame
  <2>11. TiffAt(row)' = o
    BY <1>1, <2>1, <2>9, <2>10 DEF TiffAt
  <2> HIDE DEF o
  <2>12. TiffReading'
    BY <2>2, <2>7, <2>8, <2>10, <2>11 DEF TiffReading
  <2>13. TiffDrawn'
    <3>1. IsSequence(screen') /\ Len(screen') = 0 /\ row' = 0
      BY <1>1, <2>1, EmptyIsSequence
    <3>2. TiffPer \in {1, 2}
      BY <2>1, TiffSizes
    <3>3. 0 * TiffPer = 0
      BY <3>2
    <3> QED
      BY <2>3, <2>10, <3>1, <3>3 DEF TiffDrawn
  <2>14. TiffEnds'
    BY <1>1, <2>1, <2>2 DEF TiffEnds
  <2> QED
    BY <1>1, <2>2, <2>7, <2>10, <2>12, <2>13, <2>14 DEF TiffKept, TiffPhase
<1> QED
  BY <1>2, <1>3

\* What is read for a row of the picture.
LEMMA TiffReads ==
  ASSUME TiffKept, pc = "row", TiffScan > 0
  PROVE  LET t == FreadLine(rd, TiffScan)
         IN  /\ t.len = rd.len /\ t.idx \in Nat /\ Reader(t, TiffScan, TiffAt(row + 1))
             /\ LineRead(t, TiffScan, TiffAt(row))
             /\ t.ret = 0 => TiffAt(row) >= rd.len
             /\ t.ret # 0 => Within(t, TiffAt(row + 1), BuffSize)
                             /\ TiffAt(row + 1) - rd.len < BuffSize
<1> DEFINE p == TiffAt(row)
           t == FreadLine(rd, TiffScan)
<1>1. /\ IsTiffFile(in) /\ TiffBit \in TiffBits /\ row \in Nat
      /\ Reader(rd, TiffScan, p) /\ (Within(rd, p, BuffSize) \/ rd.remain = 0)
  BY DEF TiffKept, TiffReading, TiffPhase, TiffDrawn
<1>2. TiffScan \in 1 .. BuffSize /\ p \in Nat /\ BuffSize \in Nat
      /\ TiffAt(row + 1) = p + TiffScan
  BY <1>1, TiffSizes, TiffAtNext, SMTT(40)
<1> HIDE DEF p
<1>3. /\ Reader(t, TiffScan, p + TiffScan) /\ LineRead(t, TiffScan, p) /\ t.len = rd.len
      /\ t.ret = 0 => p >= rd.len
  BY <1>1, <1>2, FreadLineGives
<1>4. Room(TiffScan) <= BuffSize
  BY <1>2, RoomFits
<1>5. t.idx \in Nat /\ t.remain \in Nat /\ rd.len \in Nat
  BY <1>1, <1>3 DEF Reader, RdType
<1>6. ASSUME t.ret # 0 PROVE Within(t, p + TiffScan, BuffSize) /\ p + TiffScan - rd.len < BuffSize
  <2>1. Within(t, p + TiffScan, BuffSize)
    BY <1>1, <1>2, <1>4, <1>6, StaysWithin
  <2> HIDE DEF t
  <2> QED
    BY <1>2, <1>3, <1>5, <2>1 DEF Within
<1> QED
  BY <1>2, <1>3, <1>5, <1>6 DEF p

\* The lines of a row of the picture go on the screen.
LEMMA TiffDrawsRow ==
  ASSUME TiffKept, pc = "row", in' = in, rd'.len = rd.len, row' = row + 1, row < TiffYsize,
         IsSequence(screen'), Len(screen') = Len(screen) + TiffPer,
         \A k \in 1 .. Len(screen) : screen'[k] = screen[k],
         \A j \in 0 .. TiffPer - 1 :
           TiffLineShown(Len(screen) + j, TiffAt(row), screen'[Len(screen) + j + 1])
  PROVE  TiffDrawn'
<1>1. IsTiffFile(in) /\ TiffDrawn
  BY DEF TiffKept, TiffPhase
<1> DEFINE n == Len(screen)
           per == TiffPer
<1>2. n \in Nat /\ row \in Nat /\ TiffYsize \in Nat /\ per \in {1, 2} /\ n = row * per
  BY <1>1, TiffSizes DEF TiffDrawn
<1>3. /\ TiffPer' = TiffPer /\ TiffYsize' = TiffYsize
      /\ (\A r : TiffAt(r)' = TiffAt(r))
      /\ \A k, p, l : TiffLineShown(k, p, l)' <=> TiffLineShown(k, p, l)
  BY <1>1, TiffFrame, TiffShownFrame
<1>4. Len(screen') = row' * per /\ row' \in Nat /\ row' <= TiffYsize
  <2>1. (row + 1) * per = row * per + per
    BY <1>2
  <2> QED
    BY <1>2, <2>1
<1>5. ASSUME NEW k \in 0 .. Len(screen') - 1
      PROVE  TiffLineShown(k, TiffAt(k \div per), screen'[k + 1])
  <2>1. CASE k < n
    <3>1. k \in 0 .. n - 1 /\ k + 1 \in 1 .. n
      BY <1>2, <2>1
    <3>2. TiffLineShown(k, TiffAt(k \div per), screen[k + 1])
      BY <1>1, <3>1 DEF TiffDrawn
    <3> QED
      BY <3>1, <3>2
  <2>2. CASE k >= n
    <3> DEFINE j == k - n
    <3>1. j \in 0 .. per - 1 /\ k = n + j
      BY <1>2, <2>2
    <3>2. k \div per = row
      <4>1. CASE per = 1
        BY <1>2, <3>1, <4>1
      <4>2. CASE per = 2
        BY <1>2, <3>1, <4>2
      <4> QED
        BY <1>2, <4>1, <4>2
    <3> HIDE DEF j
    <3> QED
      BY <3>1, <3>2
  <2> QED
    BY <1>2, <2>1, <2>2
<1>6. /\ TiffScan' = TiffScan /\ TiffBit' = TiffBit /\ TiffWidth' = TiffWidth
      /\ TiffFill' = TiffFill /\ TiffTag("offset", 0)' = TiffTag("offset", 0)
  BY <1>1, TiffFrame
<1>7. ASSUME NEW k \in 0 .. Len(screen') - 1
      PROVE  TiffLineShown(k, TiffAt(k \div TiffPer), screen[k + 1])'
  <2>1. TiffLineShown(k, TiffAt(k \div TiffPer), screen'[k + 1])
    BY <1>5
  <2> QED
    BY <1>3, <1>6, <2>1 DEF TiffLineShown, TiffAt, TiffDotAt
<1> QED
  BY <1>3, <1>4, <1>7 DEF TiffDrawn

\* Where the next row begins.
LEMMA TiffRowDone ==
  ASSUME TiffKept, TiffDrawn', in' = in, pc = "row", row' = row + 1, pc' = "row",
         rd'.len = rd.len, Reader(rd', TiffScan, TiffAt(row + 1)),
         Within(rd', TiffAt(row + 1), BuffSize), TiffAt(row + 1) - rd.len < BuffSize
  PROVE  TiffKept'
<1>1. IsTiffFile(in) /\ TiffBit \in TiffBits /\ rd.len = Len(in.data)
  BY DEF TiffKept, TiffPhase
<1>2. /\ IsTiffFile(in)' /\ TiffScan' = TiffScan /\ TiffBit' = TiffBit
      /\ TiffTag("offset", 0)' = TiffTag("offset", 0)
  BY <1>1, TiffFrame
<1>3. TiffAt(row)' = TiffAt(row + 1)
  BY <1>2 DEF TiffAt
<1>4. TiffReading'
  BY <1>2, <1>3 DEF TiffReading
<1>5. TiffEnds'
  BY <1>3 DEF TiffEnds
<1> QED
  BY <1>1, <1>2, <1>4, <1>5 DEF TiffKept, TiffPhase

\* A function on 1 .. n is a sequence of n.
LEMMA LengthOf ==
  ASSUME NEW n \in Nat, NEW s, s = [x \in 1 .. n |-> s[x]]
  PROVE  Len(s) = n
<1> DEFINE S == {s[x] : x \in 1 .. n}
<1>1. s \in [1 .. n -> S]
  OBVIOUS
<1> HIDE DEF S
<1>2. s \in Seq(S) /\ DOMAIN s = 1 .. n
  BY <1>1
<1>3. Len(s) \in Nat /\ DOMAIN s = 1 .. Len(s)
  BY <1>2, LenProperties
<1> QED
  BY <1>2, <1>3

\* A byte of a line that the file has.
LEMMA TiffByteAt ==
  ASSUME NEW r, NEW s \in Nat, NEW p \in Nat, r.idx \in Nat, r.len = rd.len, rd.len \in Nat,
         LineRead(r, s, p), p + s <= rd.len, NEW j \in 0 .. s - 1
  PROVE  r.buff[r.idx + j] = p + j
<1>1. p + j < rd.len
  OBVIOUS
<1> QED
  BY <1>1 DEF LineRead, HasBytes

\* A line drawn as it is shows the dots of its bytes.
LEMMA TiffPixelsAre ==
  ASSUME IsTiffFile(in), TiffBit \in TiffBits, ~TiffTwice,
         NEW r, NEW p \in Nat, r.idx \in Nat, r.len = rd.len, rd.len \in Nat,
         LineRead(r, TiffScan, p), p + TiffScan <= rd.len, NEW x \in 1 .. TiffWidth
  PROVE  TiffDotAt(TiffPixels(r)[x], p, x)
<1> DEFINE dot == TiffPixels(r)[x]
           w == TiffXsize
           i == r.idx
<1>1. TiffPer = 1 /\ w \in Nat /\ x \in 1 .. w /\ TiffScan \in Nat /\ i \in Nat
  BY TiffSizes DEF TiffPer
<1>2. \A j \in 0 .. TiffScan - 1 : r.buff[i + j] = p + j
  BY <1>1, TiffByteAt
<1>3. dot = IF TiffBit = 16 THEN TiffDot16(r, x)
            ELSE IF TiffBit = 24 THEN TiffDot24(r, x)
            ELSE TiffPart(r, x)
  BY DEF TiffPixels
<1> HIDE DEF dot, w, i
<1>4. CASE TiffBit = 1
  <2>1. (x - 1) \div 8 \in 0 .. TiffScan - 1
    <3>1. TiffScan = (w + 7) \div 8
      BY <1>4 DEF TiffScan, w
    <3> QED
      BY <1>1, <3>1
  <2>2. r.buff[i + (x - 1) \div 8] = p + (x - 1) \div 8
    BY <1>2, <2>1
  <2>3. dot = <<p + (x - 1) \div 8, (x - 1) % 8>>
    BY <1>3, <1>4, <2>2 DEF TiffPart, i
  <2> QED
    BY <1>4, <2>3 DEF TiffDotAt, dot
<1>5. CASE TiffBit = 4
  <2>1. (x - 1) \div 2 \in 0 .. TiffScan - 1
    <3>1. TiffScan = (w + 1) \div 2
      BY <1>5 DEF TiffScan, w
    <3> QED
      BY <1>1, <3>1
  <2>2. r.buff[i + (x - 1) \div 2] = p + (x - 1) \div 2
    BY <1>2, <2>1
  <2>3. dot = <<p + (x - 1) \div 2, IF TiffFill = 2 THEN x % 2 ELSE 1 - (x % 2)>>
    BY <1>3, <1>5, <2>2 DEF TiffPart, i
  <2>4. x % 2 = 1 - ((x - 1) % 2) /\ 1 - (x % 2) = (x - 1) % 2
    BY <1>1
  <2>5. 8 \div TiffBit = 2
    BY <1>5
  <2>6. dot = <<p + (x - 1) \div 2,
                IF TiffBit = 4 /\ TiffFill = 2 THEN 1 - ((x - 1) % 2) ELSE (x - 1) % 2>>
    BY <1>5, <2>3, <2>4
  <2> QED
    BY <1>5, <2>5, <2>6 DEF TiffDotAt, dot
<1>6. CASE TiffBit = 8
  <2>1. x - 1 \in 0 .. TiffScan - 1
    <3>1. TiffScan = w
      BY <1>6 DEF TiffScan, w
    <3> QED
      BY <1>1, <3>1
  <2>2. r.buff[i + x - 1] = p + (x - 1)
    <3>1. i + x - 1 = i + (x - 1)
      BY <1>1
    <3> QED
      BY <1>2, <2>1, <3>1
  <2>3. dot = <<p + (x - 1), 0>>
    BY <1>3, <1>6, <2>2 DEF TiffPart, i
  <2>4. 8 \div TiffBit = 1 /\ (x - 1) \div 1 = x - 1 /\ (x - 1) % 1 = 0
    BY <1>1, <1>6
  <2>5. dot = <<p + (x - 1) \div 1,
                IF TiffBit = 4 /\ TiffFill = 2 THEN 1 - ((x - 1) % 1) ELSE (x - 1) % 1>>
    BY <1>6, <2>3, <2>4
  <2> QED
    BY <1>6, <2>4, <2>5 DEF TiffDotAt, dot
<1>7. CASE TiffBit = 16
  <2>1. 2 * (x - 1) \in 0 .. TiffScan - 1
    <3>1. TiffScan = 2 * w
      BY <1>7 DEF TiffScan, w
    <3> QED
      BY <1>1, <3>1
  <2> DEFINE j == 2 * (x - 1)
  <2>2. r.buff[i + j] = p + j
    BY <1>2, <2>1
  <2>3. \A c \in Colour : dot[c][1] = r.buff[i + j]
    BY <1>3, <1>7 DEF TiffDot16, i
  <2>4. j = 2 * ((x - 1) \div TiffPer)
    BY <1>1
  <2> HIDE DEF j
  <2>5. \A c \in Colour : dot[c][1] = p + 2 * ((x - 1) \div TiffPer)
    BY <2>2, <2>3, <2>4
  <2> QED
    BY <1>7, <2>5 DEF TiffDotAt, dot
<1>8. CASE TiffBit = 24
  <2> DEFINE j == 3 * (x - 1)
  <2>1. j \in 0 .. TiffScan - 1 /\ j + 1 \in 0 .. TiffScan - 1 /\ j + 2 \in 0 .. TiffScan - 1
    <3>1. TiffScan = 3 * w
      BY <1>8 DEF TiffScan, w
    <3> QED
      BY <1>1, <3>1
  <2> DEFINE which(c) == CHOOSE n \in 1 .. 3 : TiffByteWeight[n] = TiffLutWeight[c]
  <2>2. which("red") = 1 /\ which("green") = 2 /\ which("blue") = 3
    <3>1. TiffByteWeight[1] = 1 /\ TiffByteWeight[2] = 6 /\ TiffByteWeight[3] = 36
      BY DEF TiffByteWeight
    <3>2. TiffLutWeight["red"] = 1 /\ TiffLutWeight["green"] = 6 /\ TiffLutWeight["blue"] = 36
      BY DEF TiffLutWeight
    <3>3. \A n \in 1 .. 3 : n = 1 \/ n = 2 \/ n = 3
      OBVIOUS
    <3>4. 1 \in 1 .. 3 /\ 2 \in 1 .. 3 /\ 3 \in 1 .. 3
      OBVIOUS
    <3>5. \A n \in 1 .. 3 : TiffByteWeight[n] = 1 <=> n = 1
      BY <3>1, <3>3
    <3>6. \A n \in 1 .. 3 : TiffByteWeight[n] = 6 <=> n = 2
      BY <3>1, <3>3
    <3>7. \A n \in 1 .. 3 : TiffByteWeight[n] = 36 <=> n = 3
      BY <3>1, <3>3
    <3> QED
      BY <3>2, <3>4, <3>5, <3>6, <3>7
  <2>3. \A c \in Colour : dot[c][1] = r.buff[i + j + which(c) - 1]
    BY <1>3, <1>8 DEF TiffDot24, i
  <2>4. j \in Nat /\ p + j = p + 3 * x - 3 /\ p + (j + 1) = p + 3 * x - 2
        /\ p + (j + 2) = p + 3 * x - 1
    BY <1>1
  <2> HIDE DEF j, which
  <2>5. i + j + 1 - 1 = i + j /\ i + j + 2 - 1 = i + (j + 1) /\ i + j + 3 - 1 = i + (j + 2)
    BY <1>1, <2>4
  <2>6. /\ dot["red"][1] = r.buff[i + j]
        /\ dot["green"][1] = r.buff[i + (j + 1)]
        /\ dot["blue"][1] = r.buff[i + (j + 2)]
    BY <2>2, <2>3, <2>5 DEF Colour
  <2>7. r.buff[i + j] = p + j /\ r.buff[i + (j + 1)] = p + (j + 1)
        /\ r.buff[i + (j + 2)] = p + (j + 2)
    BY <1>2, <2>1
  <2>8. dot.red[1] = p + 3 * x - 3 /\ dot.green[1] = p + 3 * x - 2
        /\ dot.blue[1] = p + 3 * x - 1
    BY <2>4, <2>6, <2>7
  <2> QED
    BY <1>8, <2>8 DEF TiffDotAt, dot
<1> QED
  BY <1>4, <1>5, <1>6, <1>7, <1>8 DEF TiffBits

\* A line without the dither.
LEMMA TiffPixelsShown ==
  ASSUME IsTiffFile(in), TiffBit \in TiffBits, ~TiffTwice,
         NEW r, NEW p \in Nat, r.idx \in Nat, r.len = rd.len, rd.len \in Nat,
         LineRead(r, TiffScan, p), NEW k
  PROVE  TiffLineShown(k, p, [x |-> 0, y |-> k, px |-> TiffPixels(r)])
<1> DEFINE px == TiffPixels(r)
<1>1. TiffPer = 1 /\ TiffWidth \in Nat /\ 1 * TiffWidth = TiffWidth
  BY TiffSizes DEF TiffPer
<1>2. Len(px) = TiffWidth
  <2>1. px = [x \in 1 .. TiffWidth |-> px[x]]
    BY DEF TiffPixels
  <2> HIDE DEF px
  <2> QED
    BY <1>1, <2>1, LengthOf
<1>3. ASSUME p + TiffScan <= rd.len, NEW x \in 1 .. TiffWidth
      PROVE  TiffDotAt(px[x], p, x)
  BY <1>3, TiffPixelsAre
<1> HIDE DEF px
<1>4. [x |-> 0, y |-> k, px |-> px].px = px
  OBVIOUS
<1> QED
  BY <1>1, <1>2, <1>3 DEF TiffLineShown, px

\* One of the two lines of the dither for the line r has read.
TiffDithered(l, k, r) ==
  /\ l.x = 0 /\ l.y = k
  /\ \E place, value, upper :
       /\ \A d \in 1 .. TiffWidth : place[d] = r.buff[r.idx + 2 * (d - 1)]
       /\ l.px = DitherLine(TiffWidth, upper, place, value)

\* A line drawn with dither shows the dots of its bytes.
LEMMA TiffDitherShown ==
  ASSUME IsTiffFile(in), TiffTwice,
         NEW r, NEW p \in Nat, r.idx \in Nat, r.len = rd.len, rd.len \in Nat,
         LineRead(r, TiffScan, p), NEW k, NEW l, TiffDithered(l, k, r)
  PROVE  TiffLineShown(k, p, l)
<1>0. PICK place, value, upper :
        /\ \A d \in 1 .. TiffWidth : place[d] = r.buff[r.idx + 2 * (d - 1)]
        /\ l.px = DitherLine(TiffWidth, upper, place, value)
  BY DEF TiffDithered
<1> DEFINE px == DitherLine(TiffWidth, upper, place, value)
           w == TiffWidth
<1>1. /\ TiffPer = 2 /\ TiffBit = 16 /\ w \in Nat /\ w <= TiffXsize /\ TiffXsize \in Nat
      /\ TiffScan = 2 * TiffXsize
  BY TiffSizes DEF TiffPer, TiffTwice, TiffScan
<1>2. Len(px) = 2 * w
  <2>1. px = [x \in 1 .. 2 * w |-> px[x]]
    BY DEF DitherLine
  <2>2. 2 * w \in Nat
    BY <1>1
  <2> HIDE DEF px
  <2> QED
    BY <2>1, <2>2, LengthOf
<1> HIDE DEF w, px
<1>3. ASSUME p + TiffScan <= rd.len, NEW x \in 1 .. 2 * w
      PROVE  TiffDotAt(px[x], p, x)
  <2> DEFINE d == (x + 1) \div 2
  <2>1. ASSUME NEW c \in Colour PROVE px[x][c][1] = p + 2 * ((x - 1) \div TiffPer)
    <3>1. px[x][c][1] = place[d] /\ d \in 1 .. w /\ d - 1 = (x - 1) \div 2
      <4>1. /\ DitherLine(w, upper, place, value)[x][c][1] = place[d]
            /\ d \in 1 .. w /\ d - 1 = (x - 1) \div 2
        BY <1>1, <1>3, <2>1, DitherPlaces
      <4>2. px = DitherLine(w, upper, place, value)
        BY DEF px, w
      <4> QED
        BY <4>1, <4>2
    <3> HIDE DEF d
    <3>2. place[d] = r.buff[r.idx + 2 * (d - 1)]
      BY <1>0, <3>1 DEF w
    <3> DEFINE j == 2 * (d - 1)
    <3>3. j \in 0 .. TiffScan - 1 /\ TiffScan \in Nat
      BY <1>1, <3>1
    <3> HIDE DEF j
    <3>4. r.buff[r.idx + j] = p + j
      BY <1>3, <3>3, TiffByteAt
    <3> QED
      BY <1>1, <3>1, <3>2, <3>4 DEF j
  <2> QED
    BY <1>1, <2>1 DEF TiffDotAt
<1>4. l.x = 0 /\ l.y = k /\ l.px = px
  BY <1>0 DEF px, TiffDithered
<1> QED
  BY <1>1, <1>2, <1>3, <1>4 DEF TiffLineShown, w

\* A line, from the top down.
LEMMA TiffRowKeeps ==
  ASSUME TiffKept, TiffRow
  PROVE  TiffKept'
<1> DEFINE t == FreadLine(rd, TiffScan)
           new == [x |-> 0, y |-> row, px |-> TiffPixels(t)]
           place == [d \in 1 .. TiffWidth |-> t.buff[t.idx + 2 * (d - 1)]]
           value == [c \in Colour |-> [d \in 1 .. TiffWidth |-> TiffField(c, TiffWord(t, d))]]
           upper == [x |-> 0, y |-> 2 * row, px |-> DitherLine(TiffWidth, TRUE, place, value)]
           lower == [x |-> 0, y |-> 2 * row + 1,
                     px |-> DitherLine(TiffWidth, FALSE, place, value)]
<1>1. pc = "row" /\ in' = in
  BY DEF TiffRow
<1>2. /\ IsTiffFile(in) /\ TiffBit \in TiffBits /\ rd.len = Len(in.data)
      /\ TiffDrawn /\ row \in Nat /\ TiffYsize \in Nat /\ TiffScan \in Nat
  BY <1>1, TiffSizes DEF TiffKept, TiffPhase, TiffDrawn
<1>3. \/ row >= TiffYsize /\ pc' = "keys" /\ UNCHANGED <<rd, row, screen>>
      \/ pc' = "fault"
      \/ TiffScan > 0 /\ rd' = t /\ t.ret = 0 /\ pc' = "keys" /\ UNCHANGED <<row, screen>>
      \/ /\ TiffScan > 0 /\ row < TiffYsize /\ rd' = t /\ t.ret # 0 /\ pc' = pc /\ row' = row + 1
         /\ IF TiffTwice THEN screen' = screen \o <<upper, lower>>
            ELSE screen' = Append(screen, new)
  BY Zenon DEF TiffRow, TiffFreadline, Dither16, Draw, TiffTwice
<1> HIDE DEF t, new, upper, lower
<1>4. CASE row >= TiffYsize /\ pc' = "keys" /\ UNCHANGED <<rd, row, screen>>
  BY <1>1, <1>4, TiffRests
<1>5. CASE pc' = "fault"
  BY <1>1, <1>5, TiffLeaves
<1>6. CASE TiffScan > 0 /\ rd' = t /\ t.ret = 0 /\ pc' = "keys" /\ UNCHANGED <<row, screen>>
  <2>1. t.len = rd.len /\ TiffAt(row) >= rd.len
    BY <1>1, <1>6, TiffReads DEF t
  <2>2. TiffAt(row) + TiffScan > rd.len
    <3>1. TiffAt(row) \in Nat /\ rd.len \in Nat
      BY <1>2, TiffAtNext, TiffSizes
    <3> QED
      BY <1>2, <1>6, <2>1, <3>1
  <2> QED
    BY <1>1, <1>6, <2>1, <2>2, TiffRests
<1>7. CASE /\ TiffScan > 0 /\ row < TiffYsize /\ rd' = t /\ t.ret # 0 /\ pc' = pc
           /\ row' = row + 1
           /\ IF TiffTwice THEN screen' = screen \o <<upper, lower>>
              ELSE screen' = Append(screen, new)
  <2> DEFINE n == Len(screen)
             p == TiffAt(row)
  <2>1. /\ t.len = rd.len /\ t.idx \in Nat /\ Reader(t, TiffScan, TiffAt(row + 1))
        /\ LineRead(t, TiffScan, p) /\ Within(t, TiffAt(row + 1), BuffSize)
        /\ TiffAt(row + 1) - rd.len < BuffSize
    BY <1>1, <1>7, TiffReads DEF t
  <2>2. /\ IsSequence(screen) /\ n = row * TiffPer /\ p \in Nat /\ rd.len \in Nat
    BY <1>2, TiffAtNext, TiffSizes DEF TiffDrawn
  <2> HIDE DEF p
  <2>3. /\ IsSequence(screen') /\ Len(screen') = Len(screen) + TiffPer
        /\ \A k \in 1 .. Len(screen) : screen'[k] = screen[k]
        /\ \A j \in 0 .. TiffPer - 1 :
             TiffLineShown(Len(screen) + j, TiffAt(row), screen'[Len(screen) + j + 1])
    <3>1. CASE ~TiffTwice
      <4>1. TiffPer = 1 /\ n = row
        BY <1>2, <2>2, <3>1 DEF TiffPer
      <4>2. TiffLineShown(n, p, new)
        <5>1. TiffLineShown(row, p, new)
          BY <1>2, <2>1, <2>2, <3>1, TiffPixelsShown DEF new
        <5> QED
          BY <4>1, <5>1
      <4>3. /\ IsSequence(screen') /\ Len(screen') = n + 1 /\ screen'[n + 1] = new
            /\ \A k \in 1 .. n : screen'[k] = screen[k]
        <5>1. screen' = Append(screen, new)
          BY <1>7, <3>1
        <5>2. /\ IsSequence(Append(screen, new)) /\ Len(Append(screen, new)) = n + 1
              /\ Append(screen, new)[n + 1] = new
              /\ \A k \in 1 .. n : Append(screen, new)[k] = screen[k]
          BY <2>2, Appended
        <5> QED
          BY <5>1, <5>2
      <4> HIDE DEF n
      <4>4. \A j \in 0 .. TiffPer - 1 : j = 0 /\ n + j = n /\ n + j + 1 = n + 1
        BY <1>2, <4>1
      <4>5. \A j \in 0 .. TiffPer - 1 : TiffLineShown(n + j, p, screen'[n + j + 1])
        BY <4>2, <4>3, <4>4
      <4> QED
        BY <4>1, <4>3, <4>5 DEF n, p
    <3>2. CASE TiffTwice
      <4>1. TiffPer = 2 /\ n = 2 * row
        BY <1>2, <2>2, <3>2 DEF TiffPer
      <4>2. TiffLineShown(2 * row, p, upper) /\ TiffLineShown(2 * row + 1, p, lower)
        <5> HIDE DEF value
        <5>1. \A d \in 1 .. TiffWidth : place[d] = t.buff[t.idx + 2 * (d - 1)]
          OBVIOUS
        <5>2. /\ upper.x = 0 /\ upper.y = 2 * row
              /\ upper.px = DitherLine(TiffWidth, TRUE, place, value)
              /\ lower.x = 0 /\ lower.y = 2 * row + 1
              /\ lower.px = DitherLine(TiffWidth, FALSE, place, value)
          BY DEF upper, lower
        <5> HIDE DEF place
        <5>3. TiffDithered(upper, 2 * row, t) /\ TiffDithered(lower, 2 * row + 1, t)
          BY <5>1, <5>2, Zenon DEF TiffDithered
        <5> QED
          BY <1>2, <2>1, <2>2, <3>2, <5>3, TiffDitherShown
      <4>3. /\ IsSequence(screen \o <<upper, lower>>)
            /\ Len(screen \o <<upper, lower>>) = Len(screen) + 2
            /\ \A k \in 1 .. Len(screen) : (screen \o <<upper, lower>>)[k] = screen[k]
            /\ (screen \o <<upper, lower>>)[Len(screen) + 1] = upper
            /\ (screen \o <<upper, lower>>)[Len(screen) + 2] = lower
        BY <2>2, AppendedTwo
      <4>4. screen' = screen \o <<upper, lower>>
        BY <1>7, <3>2
      <4>5. /\ IsSequence(screen') /\ Len(screen') = n + 2
            /\ \A k \in 1 .. n : screen'[k] = screen[k]
            /\ screen'[n + 1] = upper /\ screen'[n + 2] = lower
        BY <4>3, <4>4
      <4> HIDE DEF n
      <4>6. \A j \in 0 .. TiffPer - 1 :
              \/ n + j = 2 * row /\ n + j + 1 = n + 1
              \/ n + j = 2 * row + 1 /\ n + j + 1 = n + 2
        BY <1>2, <4>1
      <4>7. \A j \in 0 .. TiffPer - 1 : TiffLineShown(n + j, p, screen'[n + j + 1])
        BY <4>2, <4>5, <4>6
      <4> QED
        BY <4>1, <4>5, <4>7 DEF n, p
    <3> QED
      BY <3>1, <3>2
  <2>4. TiffDrawn'
    BY <1>1, <1>7, <2>1, <2>3, TiffDrawsRow
  <2> QED
    BY <1>1, <1>7, <2>1, <2>4, TiffRowDone
<1> QED
  BY <1>3, <1>4, <1>5, <1>6, <1>7, Zenon

\* Every step of tiffload.
LEMMA TiffNextKeeps ==
  ASSUME TiffKept, TiffNext
  PROVE  TiffKept'
<1>1. CASE TiffMain
  <2>1. pc = "main" /\ pc' \in {"ginit", "error"} /\ UNCHANGED <<in, rd, row, screen>>
    BY <1>1 DEF TiffMain
  <2>2. screen = <<>>
    BY <2>1 DEF TiffKept, TiffPhase
  <2> QED
    BY <2>1, <2>2, TiffBegins, TiffLeaves
<1>2. CASE TiffGinit
  <2>1. pc = "ginit" /\ pc' \in {"gaload", "error"} /\ screen' = <<>> /\ UNCHANGED <<in, rd, row>>
    BY <1>2 DEF TiffGinit
  <2> QED
    BY <2>1, TiffBegins, TiffLeaves
<1>3. CASE TiffKeyC
  <2>1. pc = "keys" /\ pc' = "keys" /\ UNCHANGED <<in, rd, row, screen>>
    BY <1>3 DEF TiffKeyC
  <2> QED
    BY <2>1, TiffRests
<1>4. CASE KeyEnd
  <2>1. pc = "keys" /\ pc' = "end" /\ UNCHANGED <<in, rd, row, screen>>
    BY <1>4 DEF KeyEnd
  <2> QED
    BY <2>1, TiffRests
<1> QED
  BY <1>1, <1>2, <1>3, <1>4, TiffGaloadKeeps, TiffRowKeeps DEF TiffNext

----------------------------------------------------------------------------
(* All of the programs.                                                    *)

\* Each program keeps its own part; bmpload may begin where bmpsave ended.
PictureInv == BoxInv /\ BmpInv /\ SavedInv /\ RgbInv /\ X68Inv /\ TiffInv

\* Each picture program starts in what is kept of it.
LEMMA PictureInit == ASSUME Init PROVE PictureInv
<1>1. BoxInv /\ SavedInv
  BY SaveInitInv, SavedInit
<1>2. BmpInv
  <2>1. ASSUME prog = "bmpload"
        PROVE  IsBmpFile(in) /\ pc = "main" /\ screen = <<>> /\ rd = Opened(in.len)
    <3>1. PICK f \in BmpFiles : BmpStart(f)
      BY <2>1 DEF Init, SaveStart, RgbStart, X68Start, TiffStart
    <3>2. IsBmpFile(f)
      BY GaFilesAssumption
    <3> QED
      BY <3>1, <3>2 DEF BmpStart
  <2> QED
    BY <2>1, BmpStartKeeps
<1>3. RgbInv
  <2>1. ASSUME prog \in {"rgbload", "rgbld16"} PROVE RgbKept
    <3>1. PICK f \in RgbFiles : RgbStart("rgbload", f) \/ RgbStart("rgbld16", f)
      BY <2>1 DEF Init, BmpStart, SaveStart, X68Start, RgbStart, TiffStart
    <3>2. IsRgbFile(f)
      BY GaFilesAssumption
    <3>3. IsRgbFile(in) /\ pc = "main" /\ row = 0 /\ screen = <<>> /\ rd = Opened(Len(in.data))
      BY <3>1, <3>2 DEF RgbStart
    <3>4. RgbDrawn /\ RgbEnds /\ rd.len = Len(in.data)
      BY <3>3, RgbEmpty
    <3> QED
      BY <3>3, <3>4 DEF RgbKept, RgbReading, RgbPhase
  <2> QED
    BY <2>1 DEF RgbInv
<1>4. X68Inv
  <2>1. ASSUME prog = "x68load" PROVE X68Kept
    <3>1. PICK f \in X68Files : X68Start(f)
      BY <2>1 DEF Init, BmpStart, SaveStart, RgbStart, TiffStart
    <3>2. IsRgbFile(f)
      BY GaFilesAssumption
    <3>3. X68File /\ pc = "main" /\ row = 0 /\ screen = <<>> /\ rd = Opened(Len(in.data))
      BY <3>1, <3>2 DEF X68Start, RgbStart, X68File
    <3>4. /\ in.h \in Nat /\ X68Per \in {1, 2} /\ Len(in.data) \in Nat
      BY <3>3, X68Sizes
    <3>5. rd.len = Len(in.data)
      BY <3>3, <3>4, OpenedIs
    <3>6. IsSequence(screen) /\ Len(screen) = 0 /\ 0 * X68Per = 0
      BY <3>3, <3>4, EmptyIsSequence
    <3>7. X68Drawn
      BY <3>3, <3>4, <3>6 DEF X68Drawn
    <3> QED
      BY <3>3, <3>5, <3>7 DEF X68Kept, X68Ends, X68Reading, X68Phase
  <2> QED
    BY <2>1 DEF X68Inv
<1>5. TiffInv
  <2>1. ASSUME prog = "tiffload" PROVE TiffKept
    <3>1. PICK f \in TiffFiles : TiffStart(f)
      BY <2>1 DEF Init, BmpStart, SaveStart, RgbStart, X68Start
    <3>2. IsTiffFile(f)
      BY GaFilesAssumption
    <3>3. IsTiffFile(in) /\ pc = "main" /\ row = 0 /\ screen = <<>> /\ rd = Opened(Len(in.data))
      BY <3>1, <3>2 DEF TiffStart
    <3> QED
      BY <3>3 DEF TiffKept, TiffReading, TiffPhase
  <2> QED
    BY <2>1 DEF TiffInv
<1> QED
  BY <1>1, <1>2, <1>3, <1>4, <1>5 DEF PictureInv

\* What other programs leave as it is.
LEMMA SavedKept ==
  ASSUME SavedInv, prog # "bmpsave", prog' = prog, UNCHANGED saveVars,
         prog = "bmpload" => in' = in
  PROVE  SavedInv'
BY DEF SavedInv, SelFits, Saved, SavedHeader, SavedLines, saveVars

\* The saved file is loaded.
LEMMA LoadSavedKeeps == ASSUME SavedInv, LoadSaved PROVE BmpInv' /\ SavedInv'
<1>1. /\ prog = "bmpsave" /\ pc = "end" /\ prog' = "bmpload" /\ pc' = "main"
      /\ rd' = Opened(in.len) /\ UNCHANGED <<in, row, screen, mouse, cursor, boxes, sel, by, file>>
  BY DEF LoadSaved, saveVars
<1>2. SelFits /\ screen = <<>> /\ in = SavedHeader /\ file = SavedLines
  BY <1>1 DEF SavedInv, Saved
<1>3. IsBmpFile(in)
  BY <1>2, SavedIsBmp
<1>4. IsBmpFile(in)'
  BY <1>1, <1>3 DEF IsBmpFile
<1>5. BmpInv'
  BY <1>1, <1>2, <1>4, EmptyIsSequence DEF BmpInv, BmpKept, BmpDrawn, BmpReading, BmpPhase
<1>6. SavedInv'
  BY <1>1, <1>2 DEF SavedInv, SelFits, Saved, SavedHeader, SavedLines
<1> QED
  BY <1>5, <1>6

\* When nothing happens nothing changes.
LEMMA PictureRests ==
  ASSUME BmpInv, SavedInv, RgbInv, X68Inv, TiffInv, UNCHANGED vars
  PROVE  BmpInv' /\ SavedInv' /\ RgbInv' /\ X68Inv' /\ TiffInv'
<1>1. /\ UNCHANGED <<prog, pc, in, gmode, pal, rd, row, screen, flag, rle, line>>
      /\ UNCHANGED <<mouse, cursor, boxes, sel, by, file>>
  BY DEF vars, gaVars, bmpVars, saveVars, rgbVars
<1>2. BmpInv'
  BY <1>1 DEF BmpInv, BmpPlain, BmpKept, BmpDrawn, BmpLineShown, BmpReading, BmpPhase,
    BmpEnds, BmpHeight, BmpAt, BmpLine, BmpStride, BmpUsed
<1>3. SavedInv'
  BY <1>1 DEF SavedInv, SelFits, MouseSeen, Saved, SavedHeader, SavedLines
<1>4. RgbInv'
  BY <1>1 DEF RgbInv, RgbKept, RgbDrawn, RgbLineShown, RgbDotAt, RgbChannel, RgbEnds,
    RgbReading, RgbLineBegun, RgbPlace, RgbPhase, RgbWide, RgbAt, RgbSize
<1>5. X68Inv'
  BY <1>1 DEF X68Inv, X68Kept, X68File, X68Drawn, X68LineShown, X68LineBegun, X68Place,
    X68Ends, X68Reading, X68Phase, X68Per, X68At, X68Size
<1>6. TiffInv'
  BY <1>1, TiffFrame, TiffSameDrawn DEF TiffInv, TiffKept, TiffReading, TiffPhase, TiffEnds
<1> QED
  BY <1>2, <1>3, <1>4, <1>5, <1>6

\* Every step of every picture program keeps what is kept of each of them.
LEMMA PictureStep == ASSUME PictureInv, [Next]_vars PROVE PictureInv'
<1>1. BoxInv /\ BmpInv /\ SavedInv /\ RgbInv /\ X68Inv /\ TiffInv
  BY DEF PictureInv
<1>2. BoxInv'
  BY <1>1, SaveStepInv
<1>3. CASE RunBmpLoad
  <2>1. prog = "bmpload" /\ BmpNext /\ prog' = prog /\ UNCHANGED saveVars
    BY <1>3 DEF RunBmpLoad
  <2>2. in' = in
    BY <2>1 DEF BmpNext, BmpMain, BmpGinit, BmpGaload, BmpNomalRow, BmpRle8, BmpRle4, BmpKeyC,
       BmpKeyEnd
  <2>3. BmpInv' /\ SavedInv'
    BY <1>1, <2>1, <2>2, BmpNextKeeps, SavedKept
  <2> QED
    BY <1>2, <2>1, <2>3 DEF PictureInv, RgbInv, X68Inv, TiffInv
<1>4. CASE RunBmpSave
  <2>1. prog = "bmpsave" /\ SaveNext /\ prog' = prog
    BY <1>4 DEF RunBmpSave
  <2>2. SavedInv'
    BY <1>1, <2>1, SavedSaveNext DEF BoxInv
  <2> QED
    BY <1>2, <2>1, <2>2 DEF PictureInv, BmpInv, RgbInv, X68Inv, TiffInv
<1>5. CASE RunRgbLoad \/ RunRgbld16
  <2>1. /\ prog \in {"rgbload", "rgbld16"} /\ prog' = prog /\ UNCHANGED saveVars
        /\ (prog = "rgbload" /\ RgbNext) \/ (prog = "rgbld16" /\ Rgb16Next)
    BY <1>5 DEF RunRgbLoad, RunRgbld16
  <2>2. RgbInv'
    BY <1>1, <2>1, RgbNextKeeps
  <2>3. SavedInv'
    BY <1>1, <2>1, SavedKept
  <2> QED
    BY <1>2, <2>1, <2>2, <2>3 DEF PictureInv, BmpInv, X68Inv, TiffInv
<1>6. CASE RunX68Load
  <2>1. prog = "x68load" /\ X68Next /\ prog' = prog /\ UNCHANGED saveVars
    BY <1>6 DEF RunX68Load
  <2>2. X68Inv'
    BY <1>1, <2>1, X68NextKeeps DEF X68Inv
  <2>3. SavedInv'
    BY <1>1, <2>1, SavedKept
  <2> QED
    BY <1>2, <2>1, <2>2, <2>3 DEF PictureInv, BmpInv, RgbInv, TiffInv
<1>7. CASE RunTiffLoad
  <2>1. prog = "tiffload" /\ TiffNext /\ prog' = prog /\ UNCHANGED saveVars
    BY <1>7 DEF RunTiffLoad
  <2>2. TiffInv'
    BY <1>1, <2>1, TiffNextKeeps DEF TiffInv
  <2>3. SavedInv'
    BY <1>1, <2>1, SavedKept
  <2> QED
    BY <1>2, <2>1, <2>2, <2>3 DEF PictureInv, BmpInv, RgbInv, X68Inv
<1>8. CASE LoadSaved
  <2>1. prog' = "bmpload"
    BY <1>8 DEF LoadSaved
  <2> QED
    BY <1>1, <1>2, <1>8, <2>1, LoadSavedKeeps DEF PictureInv, RgbInv, X68Inv, TiffInv
<1>9. CASE UNCHANGED vars
  BY <1>1, <1>2, <1>9, PictureRests DEF PictureInv
<1> QED
  BY <1>3, <1>4, <1>5, <1>6, <1>7, <1>8, <1>9 DEF Next

\* For any files, screens and buffers the programs are made for, but for packed
\* BMP files, which are decoded otherwise: each line of the file that is whole is on
\* its line of the screen, dot by dot in its colours, what is shown past the end of
\* the file is less than a buffer of it (two in x68load, of which the lines passed by
\* are not looked at), and no program stops before the picture or the file ends.
THEOREM RowsInPlaceHolds == Spec => []RowsInPlace
<1>1. PictureInv => RowsInPlace
  <2> SUFFICES ASSUME PictureInv PROVE RowsInPlace
    OBVIOUS
  <2>1. BmpInv /\ RgbInv /\ X68Inv /\ TiffInv
    BY DEF PictureInv
  <2>2. BmpRowsInPlace
    BY <2>1, BmpInvTells
  <2>3. /\ prog = "rgbload" => RgbLoadRowsInPlace
        /\ prog = "rgbld16" => Rgb16RowsInPlace
    BY <2>1, RgbInvTells
  <2>4. prog = "x68load" => X68RowsInPlace
    BY <2>1, X68InvTells
  <2>5. prog = "tiffload" => TiffRowsInPlace
    BY <2>1, TiffInvTells
  <2> QED
    BY <2>2, <2>3, <2>4, <2>5 DEF RowsInPlace
<1> QED
  BY <1>1, PictureInit, PictureStep, PTL DEF Spec

\* Any part of any screen, saved by bmpsave and loaded by bmpload: the file is one
\* that bmpload takes, and every dot of it but the top line's is shown where it was.
THEOREM SavedReloadsHolds == Spec => []SavedReloads
<1>1. PictureInv => SavedReloads
  BY SavedTells DEF PictureInv
<1> QED
  BY <1>1, PictureInit, PictureStep, PTL DEF Spec

----------------------------------------------------------------------------
(* What freadline() has in its buffer.                                     *)

\* What is in the buffer is in the file, and what is left in it is within it.
BuffKept(r) ==
  /\ r \in RdType
  /\ r.fp + r.remain <= BuffSize
  /\ \A k \in 0 .. BuffSize - 1 : r.buff[k] = Never \/ r.buff[k] \in 0 .. r.len - 1

\* Two bytes of the buffer that make a dot are two of the file that follow each other,
\* unless the file ends between them.
IsPair(a, b, len) ==
  \/ a = Never /\ b = Never
  \/ a # Never /\ (b = a + 1 \/ a + 1 >= len)

\* All dots of two bytes that the buffer has.
Pairs(r) == \A j \in Nat : 2 * j + 1 < BuffSize => IsPair(r.buff[2 * j], r.buff[2 * j + 1], r.len)

\* No dot is cut: what is read begins and ends with whole ones.
Uncut(r) ==
  /\ Multiple(r.at, 2) /\ Multiple(r.len, 2)
  /\ \A j \in Nat : 2 * j + 1 < BuffSize =>
       \/ r.buff[2 * j] = Never /\ r.buff[2 * j + 1] = Never
       \/ r.buff[2 * j] # Never /\ r.buff[2 * j + 1] = r.buff[2 * j] + 1

\* read() brings what there is, to the beginning of the buffer.
LEMMA ReadToGot ==
  ASSUME NEW r \in RdType, NEW n \in Nat
  PROVE  LET t == ReadTo(r, n)
         IN  /\ t \in RdType
             /\ t.len = r.len /\ t.fp = r.fp /\ t.remain = r.remain /\ t.idx = r.idx
             /\ t.ret \in 0 .. n /\ t.at = r.at + t.ret
             /\ t.ret = 0 \/ r.at + t.ret <= r.len
             /\ t.ret = n \/ r.at + t.ret >= r.len
             /\ \A k \in 0 .. BuffSize - 1 :
                  t.buff[k] = IF k < t.ret THEN r.at + k ELSE r.buff[k]
<1> DEFINE got == IF r.at > r.len THEN 0 ELSE Least(n, r.len - r.at)
           b == [k \in DOMAIN r.buff |-> IF k < got THEN r.at + k ELSE r.buff[k]]
           t == [r EXCEPT !.at = @ + got, !.ret = got, !.buff = b]
<1>1. t = ReadTo(r, n)
  BY DEF ReadTo
<1>2. /\ r.len \in Nat /\ r.at \in Nat /\ DOMAIN r.buff = 0 .. BuffSize - 1
      /\ \A k \in 0 .. BuffSize - 1 : r.buff[k] \in Int
  BY DEF RdType
<1>3. /\ got \in 0 .. n /\ r.at + got \in Nat
      /\ got = 0 \/ r.at + got <= r.len
      /\ got = n \/ r.at + got >= r.len
  BY <1>2 DEF Least
<1>4. b \in [0 .. BuffSize - 1 -> Int]
  <2>1. BuffSize \in Nat
    BY GaAssumption
  <2> QED
    BY <1>2, <1>3, <2>1
<1>6. \A k \in 0 .. BuffSize - 1 : b[k] = IF k < got THEN r.at + k ELSE r.buff[k]
  BY <1>2
<1> HIDE DEF got, b
<1>5. /\ t \in RdType /\ t.len = r.len /\ t.fp = r.fp /\ t.remain = r.remain /\ t.idx = r.idx
      /\ t.at = r.at + got /\ t.ret = got /\ t.buff = b
  <2>1. got \in Nat
    BY <1>3
  <2> QED
    BY <1>3, <1>4, <2>1 DEF RdType
<1> HIDE DEF t
<1> QED
  BY <1>1, <1>3, <1>5, <1>6

\* What read() leaves in the buffer.
LEMMA ReadToKeeps ==
  ASSUME NEW r, BuffKept(r), NEW n \in Nat
  PROVE  /\ BuffKept(ReadTo(r, n)) /\ ReadTo(r, n).len = r.len
         /\ ReadTo(r, n).fp = r.fp /\ ReadTo(r, n).idx = r.idx
         /\ Multiple(n, 2) /\ Pairs(r) => Pairs(ReadTo(r, n))
         /\ Multiple(n, 2) /\ Uncut(r) => Uncut(ReadTo(r, n))
<1> DEFINE t == ReadTo(r, n)
<1>0. r \in RdType /\ BuffSize \in Nat
  BY GaAssumption DEF BuffKept
<1>1. /\ t \in RdType
      /\ t.len = r.len /\ t.fp = r.fp /\ t.remain = r.remain /\ t.idx = r.idx
      /\ t.ret \in 0 .. n /\ t.at = r.at + t.ret
      /\ t.ret = 0 \/ r.at + t.ret <= r.len
      /\ t.ret = n \/ r.at + t.ret >= r.len
      /\ \A k \in 0 .. BuffSize - 1 :
           t.buff[k] = IF k < t.ret THEN r.at + k ELSE r.buff[k]
  BY <1>0, ReadToGot
<1> HIDE DEF t
<1>2. /\ r.len \in Nat /\ r.at \in Nat /\ r.fp \in Nat /\ r.remain \in Nat
      /\ \A k \in 0 .. BuffSize - 1 : r.buff[k] \in Int
  BY <1>0 DEF RdType
<1>3. BuffKept(t)
  <2> SUFFICES ASSUME NEW k \in 0 .. BuffSize - 1
               PROVE  t.buff[k] = Never \/ t.buff[k] \in 0 .. t.len - 1
    BY <1>1 DEF BuffKept
  <2>1. r.buff[k] = Never \/ r.buff[k] \in 0 .. r.len - 1
    BY DEF BuffKept
  <2>2. t.buff[k] = IF k < t.ret THEN r.at + k ELSE r.buff[k]
    BY <1>1
  <2>3. k \in Nat
    BY <1>0
  <2> QED
    BY <1>1, <1>2, <2>1, <2>2, <2>3
<1>4. ASSUME Multiple(n, 2), Pairs(r) PROVE Pairs(t)
  <2> SUFFICES ASSUME NEW j \in Nat, 2 * j + 1 < BuffSize
               PROVE  IsPair(t.buff[2 * j], t.buff[2 * j + 1], t.len)
    BY DEF Pairs
  <2>1. IsPair(r.buff[2 * j], r.buff[2 * j + 1], r.len)
    BY <1>4 DEF Pairs
  <2>2. 2 * j \in 0 .. BuffSize - 1 /\ 2 * j + 1 \in 0 .. BuffSize - 1
    BY <1>0
  <2>3. /\ t.buff[2 * j] = IF 2 * j < t.ret THEN r.at + 2 * j ELSE r.buff[2 * j]
        /\ t.buff[2 * j + 1] = IF 2 * j + 1 < t.ret THEN r.at + (2 * j + 1) ELSE r.buff[2 * j + 1]
    BY <1>1, <2>2
  <2>4. PICK m \in Nat : n = m * 2
    BY <1>4 DEF Multiple
  <2>5. CASE 2 * j + 1 < t.ret
    <3>1. t.buff[2 * j] = r.at + 2 * j /\ t.buff[2 * j + 1] = r.at + (2 * j + 1)
      BY <1>1, <2>3, <2>5
    <3> QED
      BY <1>2, <3>1 DEF IsPair, Never
  <2>6. CASE 2 * j + 1 = t.ret
    <3>1. t.buff[2 * j] = r.at + 2 * j /\ t.ret # n
      BY <1>1, <2>3, <2>4, <2>6
    <3>2. r.at + 2 * j + 1 >= t.len
      BY <1>1, <1>2, <2>6, <3>1
    <3> QED
      BY <1>2, <3>1, <3>2 DEF IsPair, Never
  <2>7. CASE 2 * j >= t.ret
    BY <1>1, <2>1, <2>3, <2>7
  <2> QED
    BY <1>1, <2>5, <2>6, <2>7
<1>5. ASSUME Multiple(n, 2), Uncut(r) PROVE Uncut(t)
  <2>1. PICK m \in Nat : n = m * 2
    BY <1>5 DEF Multiple
  <2>2. PICK a \in Nat : r.at = a * 2
    BY <1>5 DEF Uncut, Multiple
  <2>3. PICK l \in Nat : r.len = l * 2
    BY <1>5 DEF Uncut, Multiple
  <2>4. PICK g \in Nat : t.ret = g * 2
    <3>1. CASE t.ret = n
      BY <2>1, <3>1
    <3>2. CASE t.ret = 0
      <4>1. t.ret = 0 * 2
        BY <3>2
      <4> QED
        BY <4>1
    <3>3. CASE t.ret # 0 /\ r.at + t.ret = r.len
      <4>1. l - a \in Nat /\ t.ret = (l - a) * 2
        BY <1>1, <2>2, <2>3, <3>3
      <4> QED
        BY <4>1
    <3> QED
      BY <1>1, <1>2, <3>1, <3>2, <3>3
  <2>5. Multiple(t.at, 2)
    <3>1. a + g \in Nat /\ t.at = (a + g) * 2
      BY <1>1, <2>2, <2>4
    <3> QED
      BY <3>1 DEF Multiple
  <2>6. ASSUME NEW j \in Nat, 2 * j + 1 < BuffSize
        PROVE  \/ t.buff[2 * j] = Never /\ t.buff[2 * j + 1] = Never
               \/ t.buff[2 * j] # Never /\ t.buff[2 * j + 1] = t.buff[2 * j] + 1
    <3>1. \/ r.buff[2 * j] = Never /\ r.buff[2 * j + 1] = Never
          \/ r.buff[2 * j] # Never /\ r.buff[2 * j + 1] = r.buff[2 * j] + 1
      BY <1>5, <2>6 DEF Uncut
    <3>2. 2 * j \in 0 .. BuffSize - 1 /\ 2 * j + 1 \in 0 .. BuffSize - 1
      BY <1>0, <2>6
    <3>3. /\ t.buff[2 * j] = IF 2 * j < t.ret THEN r.at + 2 * j ELSE r.buff[2 * j]
          /\ t.buff[2 * j + 1] = IF 2 * j + 1 < t.ret THEN r.at + (2 * j + 1) ELSE r.buff[2 * j + 1]
      BY <1>1, <3>2
    <3>4. CASE 2 * j + 1 < t.ret
      <4>1. t.buff[2 * j] = r.at + 2 * j /\ t.buff[2 * j + 1] = r.at + (2 * j + 1)
        BY <1>1, <3>3, <3>4
      <4> QED
        BY <1>2, <4>1 DEF Never
    <3>5. CASE 2 * j >= t.ret
      BY <1>1, <3>1, <3>3, <3>5
    <3> QED
      BY <2>4, <3>4, <3>5
  <2> QED
    BY <1>1, <1>5, <2>5, <2>6 DEF Uncut
<1> QED
  BY <1>1, <1>3, <1>4, <1>5 DEF t

\* Whole lines of an even number of bytes end at even places.
LEMMA RoomEven ==
  ASSUME NEW s \in 1 .. BuffSize, Multiple(s, 2)
  PROVE  Multiple(Room(s), 2)
<1>1. PICK j \in Nat : s = j * 2
  BY DEF Multiple
<1> DEFINE q == BuffSize \div s
<1>2. BuffSize \in Nat /\ s \in Nat /\ s > 0
  BY GaAssumption
<1>3. q \in Nat
  BY <1>2
<1> HIDE DEF q
<1>4. q * j \in Nat /\ q * (j * 2) = (q * j) * 2
  BY <1>1, <1>3
<1> QED
  BY <1>1, <1>4 DEF Room, Multiple, q

\* Even numbers add up to one.
LEMMA EvenSum ==
  ASSUME NEW m, NEW n, Multiple(m, 2), Multiple(n, 2)
  PROVE  Multiple(m + n, 2)
<1>1. PICK j \in Nat : m = j * 2
  BY DEF Multiple
<1>2. PICK k \in Nat : n = k * 2
  BY DEF Multiple
<1>3. j + k \in Nat /\ m + n = (j + k) * 2
  BY <1>1, <1>2
<1> QED
  BY <1>3 DEF Multiple

\* What freadline() leaves in the buffer, wherever it is in the file.
LEMMA FreadLineKeeps ==
  ASSUME NEW r, BuffKept(r), NEW s \in 1 .. BuffSize
  PROVE  LET t == FreadLine(r, s)
         IN  /\ BuffKept(t) /\ t.len = r.len
             /\ Multiple(s, 2) /\ Multiple(r.fp, 2) => Multiple(t.fp, 2) /\ Multiple(t.idx, 2)
             /\ Multiple(s, 2) /\ Pairs(r) => Pairs(t)
             /\ Multiple(s, 2) /\ Uncut(r) => Uncut(t)
<1> DEFINE u == ReadTo(r, Room(s))
           full == IF r.remain < s THEN [u EXCEPT !.fp = 0, !.remain = Room(s)]
                   ELSE [r EXCEPT !.ret = s]
           t == [full EXCEPT !.idx = full.fp, !.fp = @ + s, !.remain = @ - s]
<1>1. FreadLine(r, s) = t
  BY DEF FreadLine, Room
<1>2. /\ r \in RdType /\ r.fp + r.remain <= BuffSize /\ r.remain \in Nat /\ r.fp \in Nat
      /\ s \in Nat /\ s > 0 /\ BuffSize \in Nat
  BY GaAssumption DEF BuffKept, RdType
<1>3. Room(s) \in Nat /\ Room(s) >= s /\ Room(s) <= BuffSize
  BY <1>2, RoomFits
<1>4. /\ BuffKept(u) /\ u.len = r.len
      /\ Multiple(Room(s), 2) /\ Pairs(r) => Pairs(u)
      /\ Multiple(Room(s), 2) /\ Uncut(r) => Uncut(u)
  BY <1>3, ReadToKeeps
<1> HIDE DEF u
<1>5. /\ full \in RdType /\ full.len = r.len /\ full.remain >= s /\ full.fp + full.remain <= BuffSize
      /\ r.remain < s => full.fp = 0 /\ full.buff = u.buff /\ full.at = u.at
      /\ r.remain >= s => full.fp = r.fp /\ full.buff = r.buff /\ full.at = r.at
  <2>1. CASE r.remain < s
    <3>1. u \in RdType /\ u.len = r.len /\ full = [u EXCEPT !.fp = 0, !.remain = Room(s)]
      BY <1>4, <2>1 DEF BuffKept
    <3> HIDE DEF full
    <3>2. /\ full \in RdType /\ full.len = u.len /\ full.remain = Room(s) /\ full.fp = 0
          /\ full.buff = u.buff /\ full.at = u.at
      BY <1>3, <3>1 DEF RdType
    <3> QED
      BY <1>2, <1>3, <2>1, <3>1, <3>2
  <2>2. CASE r.remain >= s
    <3>1. full = [r EXCEPT !.ret = s]
      BY <1>2, <2>2
    <3> HIDE DEF full
    <3> QED
      BY <1>2, <2>2, <3>1, SMTT(40) DEF RdType
  <2> QED
    BY <1>2, <2>1, <2>2
<1> HIDE DEF full
<1>6. full.remain \in Nat /\ full.fp \in Nat
  BY <1>5 DEF RdType
<1>7. full.remain - s \in Nat /\ full.fp + s \in Nat
  BY <1>2, <1>5, <1>6
<1>8. /\ t \in RdType /\ t.len = r.len /\ t.buff = full.buff /\ t.at = full.at
      /\ t.idx = full.fp /\ t.fp = full.fp + s /\ t.remain = full.remain - s
  BY <1>5, <1>6, <1>7 DEF RdType
<1> HIDE DEF t
<1>9. \/ t.buff = u.buff /\ t.at = u.at
      \/ t.buff = r.buff /\ t.at = r.at
  BY <1>2, <1>5, <1>8
<1>10. BuffKept(t)
  <2>1. t.fp + t.remain <= BuffSize
    BY <1>2, <1>5, <1>6, <1>8
  <2>2. \A k \in 0 .. BuffSize - 1 : t.buff[k] = Never \/ t.buff[k] \in 0 .. t.len - 1
    BY <1>4, <1>8, <1>9 DEF BuffKept
  <2> QED
    BY <1>8, <2>1, <2>2 DEF BuffKept
<1>11. ASSUME Multiple(s, 2), Multiple(r.fp, 2) PROVE Multiple(t.fp, 2) /\ Multiple(t.idx, 2)
  <2>1. Multiple(0, 2)
    <3>1. 0 = 0 * 2
      OBVIOUS
    <3> QED
      BY <3>1 DEF Multiple
  <2>2. Multiple(full.fp, 2)
    BY <1>2, <1>5, <1>11, <2>1
  <2> QED
    BY <1>8, <1>11, <2>2, EvenSum
<1>12. ASSUME Multiple(s, 2), Pairs(r) PROVE Pairs(t)
  <2>1. Pairs(u)
    BY <1>4, <1>12, RoomEven
  <2> QED
    BY <1>4, <1>8, <1>9, <1>12, <2>1 DEF Pairs
<1>13. ASSUME Multiple(s, 2), Uncut(r) PROVE Uncut(t)
  <2>1. Uncut(u)
    BY <1>4, <1>13, RoomEven
  <2> QED
    BY <1>4, <1>8, <1>9, <1>13, <2>1 DEF Uncut
<1> QED
  BY <1>1, <1>8, <1>10, <1>11, <1>12, <1>13

\* The buffer of a file just opened has nothing of it.
LEMMA OpenedKeeps ==
  ASSUME NEW len \in Nat
  PROVE  /\ BuffKept(Opened(len)) /\ Opened(len).len = len /\ Pairs(Opened(len))
         /\ Multiple(Opened(len).fp, 2) /\ Multiple(Opened(len).idx, 2)
         /\ Multiple(len, 2) => Uncut(Opened(len))
<1> DEFINE r == Opened(len)
<1>1. /\ r \in RdType /\ r.len = len /\ r.fp = 0 /\ r.remain = 0 /\ r.idx = 0 /\ r.at = 0
      /\ \A k \in 0 .. BuffSize - 1 : r.buff[k] = Never
  BY GaAssumption DEF Opened, RdType, Never
<1>2. BuffSize \in Nat
  BY GaAssumption
<1> HIDE DEF r
<1>3. Multiple(0, 2)
  <2>1. 0 = 0 * 2
    OBVIOUS
  <2> QED
    BY <2>1 DEF Multiple
<1>4. \A j \in Nat : 2 * j + 1 < BuffSize => r.buff[2 * j] = Never /\ r.buff[2 * j + 1] = Never
  <2> SUFFICES ASSUME NEW j \in Nat, 2 * j + 1 < BuffSize
               PROVE  r.buff[2 * j] = Never /\ r.buff[2 * j + 1] = Never
    OBVIOUS
  <2>1. 2 * j \in 0 .. BuffSize - 1 /\ 2 * j + 1 \in 0 .. BuffSize - 1
    BY <1>2
  <2> QED
    BY <1>1, <2>1
<1> QED
  BY <1>1, <1>2, <1>3, <1>4 DEF BuffKept, Pairs, IsPair, Uncut, r

----------------------------------------------------------------------------
(* The types of the state.                                                 *)

\* Light by colour for the dots of a line and the one past its end.
Lights(w) == [Colour -> [1 .. w + 1 -> Nat]]

\* A line without light.
LEMMA DarkType == ASSUME NEW w \in Nat PROVE Dark(w) \in Lights(w)
BY DEF Dark, Lights

\* What a file has are bytes.
LEMMA FileBytes ==
  ASSUME in.data \in Seq(0 .. 255)
  PROVE  Len(in.data) \in Nat /\ \A k \in 0 .. Len(in.data) - 1 : in.data[k + 1] \in 0 .. 255
<1>1. Len(in.data) \in Nat /\ \A k \in 1 .. Len(in.data) : in.data[k] \in 0 .. 255
  BY ElementOfSeq, LenProperties, SMTT(40)
<1>2. ASSUME NEW k \in 0 .. Len(in.data) - 1 PROVE k + 1 \in 1 .. Len(in.data)
  BY <1>1
<1> QED
  BY <1>1, <1>2

\* A byte of the buffer is a byte of the file, or 0.
LEMMA ByteRange ==
  ASSUME NEW t, BuffKept(t), t.len = Len(in.data), in.data \in Seq(0 .. 255),
         NEW p \in 0 .. BuffSize - 1
  PROVE  Byte(t.buff, p) \in 0 .. 255
<1>1. t.buff[p] = Never \/ t.buff[p] \in 0 .. t.len - 1
  BY DEF BuffKept
<1>2. t.buff[p] # Never => in.data[t.buff[p] + 1] \in 0 .. 255
  BY <1>1, FileBytes
<1> QED
  BY <1>2 DEF Byte

\* A colour of two bytes has five bits.
LEMMA FieldRange ==
  ASSUME NEW c \in Colour, NEW a \in 0 .. 255, NEW b \in 0 .. 255
  PROVE  Field(c, 256 * a + b) \in 0 .. 31
<1>0. /\ a \in Int /\ b \in Int
      /\ 0 <= a /\ a <= 255 /\ 0 <= b /\ b <= 255
  OBVIOUS
<1> DEFINE v == 256 * a + b
<1>1. v \in Nat /\ v < 65536
  BY <1>0, SMTT(30)
<1> HIDE DEF v
<1>2. (v \div 64) % 32 \in 0 .. 31
  BY <1>1, SMTT(40)
<1>3. v \div 2048 \in 0 .. 31
  BY <1>1, SMTT(40)
<1>4. (v \div 2) % 32 \in 0 .. 31
  BY <1>1, SMTT(40)
<1> QED
  BY <1>2, <1>3, <1>4 DEF Field, v

\* What a dot passes on is what it did not show, but for three parts at most.
LEMMA SharesOfLeft ==
  ASSUME NEW v \in Nat, NEW rand \in 0 .. 3
  PROVE  LET left == v - Step * Level(v)
         IN  /\ Level(v) \in Nat /\ left \in Nat
             /\ ShareRight(left, rand) \in Nat /\ ShareDown(left, rand) \in Nat
             /\ left - ShareRight(left, rand) - ShareDown(left, rand) \in 0 .. 3
<1> DEFINE left == v - Step * Level(v)
<1>1. Level(v) \in Nat /\ left \in Nat
  BY DEF Level, Least, Step
<1> HIDE DEF left
<1>2. /\ ShareRight(left, rand) \in Nat /\ ShareDown(left, rand) \in Nat
      /\ left - ShareRight(left, rand) - ShareDown(left, rand) \in 0 .. 3
  <2>1. CASE rand \in {0, 1}
    <3>1. ShareRight(left, rand) = left \div 2 /\ ShareDown(left, rand) = left \div 2
      BY <2>1 DEF ShareRight, ShareDown
    <3> QED
      BY <1>1, <3>1
  <2>2. CASE rand = 2
    <3>1. ShareRight(left, rand) = (left \div 4) * 3 /\ ShareDown(left, rand) = left \div 4
      BY <2>2 DEF ShareRight, ShareDown
    <3> QED
      BY <1>1, <3>1
  <2>3. CASE rand = 3
    <3>1. ShareRight(left, rand) = left \div 4 /\ ShareDown(left, rand) = (left \div 4) * 3
      BY <2>3 DEF ShareRight, ShareDown
    <3> QED
      BY <1>1, <3>1
  <2> QED
    BY <2>1, <2>2, <2>3
<1> QED
  BY <1>1, <1>2 DEF left

\* The run-length decoder: its place is in the file, and its buffers are full.
RleBuffer == [0 .. 2 * ByteMod - 1 -> Int]
FilePlaces == 0 .. Len(in.data)
RleType == [x : Words, y : Words, pos : FilePlaces, buff : RleBuffer, buff4 : RleBuffer]

\* The modes bmpload gets to, with as many colours as the picture has or with 65536.
BmpModes == IF flag = 0 THEN {1, 2, 3, 4, 7, 8} ELSE {1, 3, 5, 7, 9, 11, 13, 15}

\* The mode is one of the program's, the palette one of a program's.
Board(modes) == gmode \in modes /\ pal \in Palette /\ row \in Int

\* Before it looks at its arguments bmpload has set nothing.
BmpTypes ==
  /\ pc \in {"main", "ginit", "gaload", "row", "rle8", "rle4", "keys", "end", "error",
             "endless"}
  /\ flag \in {0, 1} /\ Board(BmpModes) /\ rle \in RleType /\ BuffKept(rd)
  /\ pc = "main" => flag = 0 /\ gmode = 1

\* There are bytes of more than no value.
LEMMA ByteModPositive == ByteMod \in Nat /\ ByteMod >= 1
<1>1. NibbleMod \in Nat /\ NibbleMod >= 1
  BY BmpAssumption, SMTT(40)
<1>2. NibbleMod * NibbleMod \in Nat /\ NibbleMod * NibbleMod >= 1
  BY <1>1
<1> QED
  BY <1>2, BmpAssumption, SMTT(40)

\* A decoder that has not begun.
LEMMA NoRleType ==
  ASSUME NEW y \in Words, Len(in.data) \in Nat
  PROVE  [NoRle EXCEPT !.y = y] \in RleType /\ NoRle \in RleType
<1>1. BmpBuff \in RleBuffer
  BY DEF BmpBuff, RleBuffer
<1>2. 0 \in Words /\ 0 \in FilePlaces
  BY DEF Words, FilePlaces
<1> QED
  BY <1>1, <1>2 DEF NoRle, RleType

\* What read() brings into a buffer of the decoder.
LEMMA FilledType ==
  ASSUME in.data \in Seq(0 .. ByteMod - 1), NEW b \in RleBuffer,
         NEW pos \in FilePlaces, NEW n \in Nat
  PROVE  Filled(b, pos, n) \in RleBuffer /\ pos + Got(pos, n) \in FilePlaces
<1>1. Len(in.data) \in Nat /\ \A k \in 1 .. Len(in.data) : in.data[k] \in 0 .. ByteMod - 1
  BY LenProperties, ElementOfSeq
<1>2. ByteMod \in Nat /\ pos \in 0 .. Len(in.data)
  BY ByteModPositive DEF FilePlaces
<1>3. Got(pos, n) \in 0 .. Len(in.data) - pos
  BY <1>1, <1>2 DEF Got, Least
<1>4. ASSUME NEW k \in 0 .. 2 * ByteMod - 1
      PROVE  (IF k < Got(pos, n) THEN in.data[pos + k + 1] ELSE b[k]) \in Int
  <2>1. b[k] \in Int
    BY DEF RleBuffer
  <2>2. ASSUME k < Got(pos, n) PROVE in.data[pos + k + 1] \in Int
    <3>1. pos + k + 1 \in 1 .. Len(in.data)
      BY <1>1, <1>2, <1>3, <2>2
    <3>2. in.data[pos + k + 1] \in 0 .. ByteMod - 1
      BY <1>1, <3>1
    <3> QED
      BY <1>2, <3>2
  <2> QED
    BY <2>1, <2>2
<1>5. Filled(b, pos, n) \in RleBuffer
  <2>1. DOMAIN b = 0 .. 2 * ByteMod - 1
    BY DEF RleBuffer
  <2> QED
    BY <1>4, <2>1 DEF Filled, RleBuffer
<1>6. pos + Got(pos, n) \in FilePlaces
  BY <1>1, <1>2, <1>3 DEF FilePlaces
<1> QED
  BY <1>5, <1>6

\* A code is read.
LEMMA CodedType ==
  ASSUME in.data \in Seq(0 .. ByteMod - 1), rle \in RleType
  PROVE  Coded \in RleType /\ Coded.buff[0] \in Int /\ Coded.buff[1] \in Int
<1>1. rle.buff \in RleBuffer /\ rle.pos \in FilePlaces
  BY DEF RleType
<1>2. Filled(rle.buff, rle.pos, 2) \in RleBuffer /\ rle.pos + Got(rle.pos, 2) \in FilePlaces
  BY <1>1, FilledType
<1>3. Coded = [rle EXCEPT !.buff = Filled(rle.buff, rle.pos, 2), !.pos = rle.pos + Got(rle.pos, 2)]
  BY DEF Coded
<1>4. Coded \in RleType
  <2> DEFINE b == Filled(rle.buff, rle.pos, 2)
             p == rle.pos + Got(rle.pos, 2)
  <2>1. b \in RleBuffer /\ p \in FilePlaces /\ Coded = [rle EXCEPT !.buff = b, !.pos = p]
    BY <1>2, <1>3
  <2> HIDE DEF b, p
  <2> QED
    BY <2>1 DEF RleType
<1>5. ByteMod \in Nat /\ ByteMod >= 1
  BY ByteModPositive
<1>6. Coded.buff \in RleBuffer
  BY <1>4, SMTT(40) DEF RleType
<1> QED
  BY <1>4, <1>5, <1>6 DEF RleBuffer

\* Numbers of 16 bits.
LEMMA UintRange == ASSUME NEW n \in Int PROVE Uint(n) \in Words
BY SMTT(40) DEF Uint, Words

\* Dots are put out from a buffer.
LEMMA RlePutType ==
  ASSUME NEW r \in RleType, NEW b \in RleBuffer, NEW count \in Int, RlePut(r, b, count)
  PROVE  rle' \in RleType /\ pc' = pc
<1>1. rle' = [r EXCEPT !.buff = b, !.x = Uint(r.x + count)] /\ pc' = pc
  BY DEF RlePut
<1>2. r.x + count \in Int
  <2> DEFINE x == r.x
  <2>1. x \in Words
    BY DEF RleType
  <2> HIDE DEF x
  <2>2. x + count \in Int
    BY <2>1 DEF Words
  <2> QED
    BY <2>2 DEF x
<1> DEFINE u == Uint(r.x + count)
<1>3. u \in Words
  BY <1>2, UintRange
<1> HIDE DEF u
<1>4. rle' = [r EXCEPT !.buff = b, !.x = u]
  BY <1>1 DEF u
<1> QED
  BY <1>1, <1>3, <1>4 DEF RleType

\* As many bytes as a code of count says, to an even number.
LEMMA EvenType == ASSUME NEW n \in Int PROVE Even(n) \in Nat
<1>1. ByteMod \in Nat /\ ByteMod >= 1
  BY ByteModPositive
<1> DEFINE m == n - (n % 2)
<1>2. m \in Int
  OBVIOUS
<1> HIDE DEF m
<1>3. m % ByteMod \in Nat
  BY <1>1, <1>2
<1> QED
  BY <1>3 DEF Even, m

\* The end of a line, or a jump.
LEMMA RleMoveType ==
  ASSUME IsBmpFile(in), rle \in RleType, RleEol \/ RleEob \/ RleDelta
  PROVE  rle' \in RleType /\ (pc' = pc \/ pc' = "keys")
<1>1. Coded \in RleType /\ in.data \in Seq(0 .. ByteMod - 1)
  BY CodedType DEF IsBmpFile
<1>2. Coded.x \in Words /\ Coded.y \in Words /\ Coded.pos \in FilePlaces /\ Coded.buff \in RleBuffer
  BY <1>1 DEF RleType
<1>3. 0 \in Words
  BY DEF Words
<1>4. CASE RleEol
  <2> DEFINE u == Uint(Coded.y - 1)
  <2>1. u \in Words
    <3> DEFINE n == Coded.y
    <3>1. n - 1 \in Int
      <4>1. n \in Words
        BY <1>2
      <4> HIDE DEF n
      <4> QED
        BY <4>1 DEF Words
    <3> HIDE DEF n
    <3>2. Uint(n - 1) \in Words
      BY <3>1, UintRange
    <3> QED
      BY <3>2 DEF n
  <2>2. rle' = [Coded EXCEPT !.x = 0, !.y = u] /\ pc' = pc
    BY <1>4 DEF RleEol
  <2> HIDE DEF u
  <2> QED
    BY <1>1, <1>3, <2>1, <2>2 DEF RleType
<1>5. CASE RleEob
  BY <1>1, <1>5 DEF RleEob
<1>6. CASE RleDelta
  <2> DEFINE b == Filled(Coded.buff, Coded.pos, 2)
             p == Coded.pos + Got(Coded.pos, 2)
             u == Uint(Coded.x + b[0])
             v == Uint(Coded.y + b[1])
  <2>1. rle' = [Coded EXCEPT !.buff = b, !.pos = p, !.x = u, !.y = v] /\ pc' = pc
    BY <1>6 DEF RleDelta
  <2>2. b \in RleBuffer /\ p \in FilePlaces
    BY <1>1, <1>2, FilledType
  <2>3. u \in Words /\ v \in Words
    <3> DEFINE x == Coded.x
               y == Coded.y
               b0 == b[0]
               b1 == b[1]
    <3>1. x \in Words /\ y \in Words
      BY <1>2
    <3>2. b0 \in Int /\ b1 \in Int
      <4>1. 0 \in 0 .. 2 * ByteMod - 1 /\ 1 \in 0 .. 2 * ByteMod - 1
        BY ByteModPositive, SMTT(40)
      <4> HIDE DEF b
      <4> QED
        BY <2>2, <4>1 DEF RleBuffer
    <3> HIDE DEF x, y, b0, b1
    <3>3. x + b0 \in Int /\ y + b1 \in Int
      BY <3>1, <3>2 DEF Words
    <3>4. Uint(x + b0) \in Words /\ Uint(y + b1) \in Words
      BY <3>3, UintRange
    <3> QED
      BY <3>4 DEF x, y, b0, b1
  <2> HIDE DEF b, p, u, v
  <2> QED
    BY <1>1, <2>1, <2>2, <2>3 DEF RleType
<1> QED
  BY <1>4, <1>5, <1>6

\* The dots of a code of 8 bits.
LEMMA Rle8Type ==
  ASSUME IsBmpFile(in), rle \in RleType, NEW n \in Int, NEW m \in Int,
         Rle8Absolute(m) \/ Rle8Run(n, m)
  PROVE  rle' \in RleType /\ pc' = pc
<1>1. Coded \in RleType /\ in.data \in Seq(0 .. ByteMod - 1)
  BY CodedType DEF IsBmpFile
<1>2. Coded.pos \in FilePlaces /\ Coded.buff \in RleBuffer
  BY <1>1 DEF RleType
<1>3. CASE Rle8Absolute(m)
  <2> DEFINE k == Even(m + 1)
             p == Coded.pos + Got(Coded.pos, k)
             r == [Coded EXCEPT !.pos = p]
             b == Filled(Coded.buff, Coded.pos, k)
  <2>1. RlePut(r, b, m)
    BY <1>3 DEF Rle8Absolute
  <2>2. k \in Nat
    BY EvenType
  <2> HIDE DEF k
  <2>3. b \in RleBuffer /\ p \in FilePlaces
    BY <1>1, <1>2, <2>2, FilledType
  <2> HIDE DEF b, p
  <2>4. r \in RleType
    BY <1>1, <2>3 DEF RleType
  <2> HIDE DEF r
  <2> QED
    BY <2>1, <2>3, <2>4, RlePutType
<1>4. CASE Rle8Run(n, m)
  <2> DEFINE b == [k \in DOMAIN Coded.buff |-> IF k < n THEN m ELSE Coded.buff[k]]
  <2>1. RlePut(Coded, b, n)
    BY <1>4 DEF Rle8Run
  <2>2. b \in RleBuffer
    BY <1>2 DEF RleBuffer
  <2> HIDE DEF b
  <2> QED
    BY <1>1, <2>1, <2>2, RlePutType
<1> QED
  BY <1>3, <1>4

\* The halves of a byte.
LEMMA HalvesType ==
  ASSUME NEW e \in Int
  PROVE  e \div NibbleMod \in Int /\ e % NibbleMod \in Int
<1>1. NibbleMod \in Nat /\ NibbleMod > 0
  BY BmpAssumption
<1> QED
  BY <1>1

\* The dots of a code of 4 bits.
LEMMA Rle4Type ==
  ASSUME IsBmpFile(in), rle \in RleType, NEW n \in Int, NEW m \in Int,
         Rle4Absolute(m) \/ Rle4Run(n, m)
  PROVE  rle' \in RleType /\ (pc' = pc \/ pc' = "endless")
<1>1. Coded \in RleType /\ in.data \in Seq(0 .. ByteMod - 1)
  BY CodedType DEF IsBmpFile
<1>2. Coded.pos \in FilePlaces /\ Coded.buff \in RleBuffer /\ Coded.buff4 \in RleBuffer
  BY <1>1 DEF RleType
<1>3. ByteMod \in Nat /\ ByteMod >= 1
  BY ByteModPositive
<1>4. CASE Rle4Absolute(m)
  <2> DEFINE j == Even(m \div 2 + 1)
             p == Coded.pos + Got(Coded.pos, j)
             b4 == Filled(Coded.buff4, Coded.pos, j)
             r == [Coded EXCEPT !.pos = p, !.buff4 = b4]
             half(k) == IF k % 2 = 0 THEN b4[k \div 2] \div NibbleMod ELSE b4[k \div 2] % NibbleMod
             b == [k \in DOMAIN Coded.buff |-> IF k < 2 * m THEN half(k) ELSE Coded.buff[k]]
  <2>1. RlePut(r, b, m)
    BY <1>4 DEF Rle4Absolute
  <2>2. j \in Nat
    <3>1. m \div 2 + 1 \in Int
      OBVIOUS
    <3> QED
      BY <3>1, EvenType
  <2> HIDE DEF j
  <2>3. b4 \in RleBuffer /\ p \in FilePlaces
    BY <1>1, <1>2, <2>2, FilledType
  <2> HIDE DEF b4, p
  <2>4. r \in RleType
    BY <1>1, <2>3 DEF RleType
  <2>5. ASSUME NEW k \in 0 .. 2 * ByteMod - 1 PROVE half(k) \in Int
    <3>1. k \div 2 \in 0 .. 2 * ByteMod - 1
      BY <1>3
    <3>2. b4[k \div 2] \in Int
      BY <2>3, <3>1 DEF RleBuffer
    <3>3. b4[k \div 2] \div NibbleMod \in Int /\ b4[k \div 2] % NibbleMod \in Int
      BY <3>2, HalvesType
    <3> QED
      BY <3>3
  <2> HIDE DEF r, half
  <2>6. b \in RleBuffer
    <3>1. DOMAIN Coded.buff = 0 .. 2 * ByteMod - 1
          /\ \A k \in 0 .. 2 * ByteMod - 1 : Coded.buff[k] \in Int
      BY <1>2 DEF RleBuffer
    <3> QED
      BY <2>5, <3>1 DEF RleBuffer
  <2> HIDE DEF b
  <2> QED
    BY <2>1, <2>4, <2>6, RlePutType
<1>5. CASE Rle4Run(n, m)
  <2> DEFINE half(k) == IF k % 2 = 0 THEN m \div NibbleMod ELSE m % NibbleMod
             b == [k \in DOMAIN Coded.buff |->
                     IF k < n + (n % 2) THEN half(k) ELSE Coded.buff[k]]
  <2>1. \/ pc' = "endless" /\ rle' = rle
        \/ RlePut(Coded, b, n)
    BY <1>5 DEF Rle4Run
  <2>2. m \div NibbleMod \in Int /\ m % NibbleMod \in Int
    BY HalvesType
  <2>3. \A k \in 0 .. 2 * ByteMod - 1 : half(k) \in Int
    BY <2>2
  <2> HIDE DEF half
  <2>4. b \in RleBuffer
    <3>1. DOMAIN Coded.buff = 0 .. 2 * ByteMod - 1
          /\ \A k \in 0 .. 2 * ByteMod - 1 : Coded.buff[k] \in Int
      BY <1>2 DEF RleBuffer
    <3> QED
      BY <2>3, <3>1 DEF RleBuffer
  <2> HIDE DEF b
  <2>5. ASSUME RlePut(Coded, b, n) PROVE rle' \in RleType /\ pc' = pc
    BY <1>1, <2>4, <2>5, RlePutType
  <2> QED
    BY <2>1, <2>5
<1> QED
  BY <1>4, <1>5

\* A step of a decoder.
LEMMA RleStepType ==
  ASSUME IsBmpFile(in), rle \in RleType, BmpRle8 \/ BmpRle4
  PROVE  rle' \in RleType /\ pc' \in {"rle8", "rle4", "keys", "endless"}
<1> DEFINE count == Coded.buff[0]
           color == Coded.buff[1]
<1>1. count \in Int /\ color \in Int
  BY CodedType DEF IsBmpFile
<1>2. /\ pc \in {"rle8", "rle4"}
      /\ \/ pc' = "keys" /\ rle' = rle
         \/ RleEol \/ RleEob \/ RleDelta
         \/ Rle8Absolute(color) \/ Rle8Run(count, color)
         \/ Rle4Absolute(color) \/ Rle4Run(count, color)
  BY DEF BmpRle8, BmpRle4
<1> HIDE DEF count, color
<1>3. CASE pc' = "keys" /\ rle' = rle
  BY <1>3
<1>4. CASE RleEol \/ RleEob \/ RleDelta
  BY <1>2, <1>4, RleMoveType
<1>5. CASE Rle8Absolute(color) \/ Rle8Run(count, color)
  <2>1. rle' \in RleType /\ pc' = pc
    BY <1>1, <1>5, Rle8Type
  <2> QED
    BY <1>2, <2>1
<1>6. CASE Rle4Absolute(color) \/ Rle4Run(count, color)
  <2>1. rle' \in RleType /\ (pc' = pc \/ pc' = "endless")
    BY <1>1, <1>6, Rle4Type
  <2> QED
    BY <1>2, <2>1
<1> QED
  BY <1>2, <1>3, <1>4, <1>5, <1>6

\* A key changes between two modes of as many colours.
LEMMA KeyModes ==
  /\ \A m \in {1, 2} : OtherResolution(m) \in {1, 2}
  /\ \A m \in {1, 2, 3, 4, 7, 8} : OtherResolution(m) \in {1, 2, 3, 4, 7, 8}
BY DEF OtherResolution

\* A number below one of 16 bits is one.
LEMMA WordsBelow ==
  ASSUME NEW m \in Words, NEW h \in Nat, h < m
  PROVE  h \in Words
<1>1. m \in Nat /\ m < 65536
  BY SMTT(40) DEF Words
<1>2. h < 65536
  BY <1>1
<1>3. Uint(h) = h
  BY <1>2 DEF Uint
<1> QED
  BY <1>3, UintRange, SMTT(40)

\* The lowest line shown is one of the screen's.
LEMMA LowestLine ==
  ASSUME NEW h \in Nat, NEW m \in Words
  PROVE  Least(h, m) \in Words
BY WordsBelow DEF Least

\* The header's mode and palette are those of a picture, and the decoder is at the top.
LEMMA BmpGaloadTypes ==
  ASSUME IsBmpFile(in), BmpTypes, BmpGaload
  PROVE  BmpTypes'
<1>1. /\ flag \in {0, 1} /\ gmode \in BmpModes /\ pal \in Palette /\ row \in Int
      /\ rle \in RleType /\ BuffKept(rd) /\ pc = "gaload"
      /\ in' = in /\ flag' = flag
  BY DEF BmpTypes, Board, BmpGaload
<1> DEFINE lut == IF in.bit # 24 THEN ReadTo(rd, in.lut) ELSE rd
           ysize == IF in.h > MaxHeight THEN MaxHeight ELSE in.h
<1>2. /\ rd' \in {rd, lut}
      /\ gmode' \in {gmode, BmpMode} /\ pal' \in {pal, "picture", "default"}
      /\ rle' \in {rle, [NoRle EXCEPT !.y = ysize]}
      /\ pc' \in {"error", "row", "rle8", "rle4", "keys"}
  BY DEF BmpGaload
<1>10. row' = row \/ row' = ysize - 1
  BY DEF BmpGaload
<1>3. BuffKept(rd')
  <2>1. in.lut \in Nat
    BY GaAssumption DEF IsBmpFile
  <2>2. BuffKept(lut)
    BY <1>1, <2>1, ReadToKeeps, SMTT(40)
  <2> QED
    BY <1>1, <1>2, <2>2
<1>8. MaxHeight \in Words /\ in.h \in Nat
  <2>1. MaxHeight \in Nat /\ MaxHeight < 65536
    BY BmpAssumption, SMTT(40)
  <2> QED
    BY <2>1, SMTT(40) DEF IsBmpFile, Words
<1>9. ysize \in Words /\ ysize \in Nat
  <2>1. ysize = Least(in.h, MaxHeight)
    BY <1>8, SMTT(40) DEF Least, Words
  <2>2. Least(in.h, MaxHeight) \in Words
    BY <1>8, LowestLine
  <2> HIDE DEF ysize
  <2>3. ysize \in Words
    BY <2>1, <2>2
  <2> QED
    BY <2>3, SMTT(40) DEF Words
<1> HIDE DEF ysize
<1>4. rle' \in RleType /\ RleType' = RleType
  <2>4. Len(in.data) \in Nat
    BY LenProperties DEF IsBmpFile
  <2>2. [NoRle EXCEPT !.y = ysize] \in RleType
    BY <1>9, <2>4, NoRleType
  <2>3. RleType' = RleType
    BY <1>1 DEF RleType, FilePlaces
  <2> QED
    BY <1>1, <1>2, <2>2, <2>3
<1>5. row' \in Int
  <2>1. ysize - 1 \in Int
    BY <1>9
  <2> QED
    BY <1>1, <1>10, <2>1
<1>6. gmode' \in BmpModes'
  <2>1. BmpMode \in BmpModes
    BY <1>1 DEF BmpMode, BmpModes
  <2> QED
    BY <1>1, <1>2, <2>1 DEF BmpModes
<1>7. pal' \in Palette
  BY <1>1, <1>2 DEF Palette
<1> QED
  BY <1>1, <1>2, <1>3, <1>4, <1>5, <1>6, <1>7 DEF BmpTypes, Board

\* The decoders end at the keys, or do not end.
LEMMA BmpRleTypes ==
  ASSUME IsBmpFile(in), BmpTypes, BmpRle8 \/ BmpRle4
  PROVE  BmpTypes'
<1>1. /\ pc \in {"rle8", "rle4"}
      /\ UNCHANGED <<in, gmode, pal, rd, row, flag>>
  BY DEF BmpRle8, BmpRle4
<1>2. rle \in RleType
  BY DEF BmpTypes
<1>3. rle' \in RleType /\ pc' \in {"rle8", "rle4", "keys", "endless"}
  BY <1>2, RleStepType
<1>4. RleType' = RleType /\ BmpModes' = BmpModes
  BY <1>1 DEF RleType, FilePlaces, BmpModes
<1> QED
  BY <1>1, <1>3, <1>4 DEF BmpTypes, Board

\* Every step of bmpload keeps its types.
LEMMA BmpTypesNext ==
  ASSUME IsBmpFile(in), BmpTypes, BmpNext
  PROVE  BmpTypes'
<1>1. /\ flag \in {0, 1} /\ gmode \in BmpModes /\ pal \in Palette /\ row \in Int
      /\ rle \in RleType /\ BuffKept(rd)
      /\ pc = "main" => flag = 0 /\ gmode = 1
  BY DEF BmpTypes, Board
<1>2. ASSUME in' = in PROVE RleType' = RleType
  BY <1>2 DEF RleType, FilePlaces
<1>3. "default" \in Palette /\ "picture" \in Palette
  BY DEF Palette
<1>4. CASE BmpMain
  <2>1. /\ pc' \in {"ginit", "error"}
        /\ (flag' = 1 /\ gmode' = 15) \/ (flag' = 0 /\ gmode' = 1)
        /\ UNCHANGED <<in, pal, rd, row, rle>>
    <3>1. pc = "main" /\ gmode = 1
      BY <1>1, <1>4 DEF BmpMain
    <3> QED
      BY <1>4, <3>1 DEF BmpMain
  <2>2. gmode' \in BmpModes'
    BY <2>1 DEF BmpModes
  <2> QED
    BY <1>1, <1>2, <2>1, <2>2 DEF BmpTypes, Board
<1>5. CASE BmpGinit
  <2>1. /\ pc' \in {"gaload", "error"} /\ gmode' = gmode /\ pal' \in {pal, "default"}
        /\ UNCHANGED <<in, rd, row, flag, rle>>
    BY <1>5 DEF BmpGinit, GAinit
  <2>2. BmpModes' = BmpModes
    BY <2>1 DEF BmpModes
  <2> QED
    BY <1>1, <1>2, <1>3, <2>1, <2>2 DEF BmpTypes, Board
<1>6. CASE BmpNomalRow
  <2>1. /\ pc = "row" /\ UNCHANGED <<in, gmode, pal, flag, rle>>
        /\ pc' \in {pc, "keys"} /\ row' \in {row, row - 1}
        /\ rd' \in {rd, FreadLine(rd, BmpScan)}
    BY <1>6 DEF BmpNomalRow
  <2>2. BmpModes' = BmpModes
    BY <2>1 DEF BmpModes
  <2>3. BuffKept(rd')
    <3>1. BmpScan \in 1 .. BuffSize
      BY ScanIsStride
    <3>2. BuffKept(FreadLine(rd, BmpScan))
      <4> DEFINE s == BmpScan
      <4>1. s \in 1 .. BuffSize
        BY <3>1
      <4> HIDE DEF s
      <4>2. BuffKept(FreadLine(rd, s))
        BY <1>1, <4>1, FreadLineKeeps
      <4> QED
        BY <4>2 DEF s
    <3> QED
      BY <1>1, <2>1, <3>2
  <2>4. row' \in Int
    BY <1>1, <2>1
  <2> QED
    BY <1>1, <1>2, <2>1, <2>2, <2>3, <2>4 DEF BmpTypes, Board
<1>7. CASE BmpKeyC
  <2>1. /\ pc = "keys" /\ pal' \in {"picture", "default"}
        /\ UNCHANGED <<pc, in, rd, row, flag, rle>>
        /\ flag = 0 => gmode' = OtherResolution(gmode)
        /\ flag # 0 => gmode' = IF gmode = 15 THEN 13 ELSE gmode + 2
    BY <1>7 DEF BmpKeyC, GAinit
  <2>2. gmode' \in BmpModes /\ BmpModes' = BmpModes
    BY <1>1, <2>1, KeyModes DEF BmpModes
  <2> QED
    BY <1>1, <1>2, <1>3, <2>1, <2>2 DEF BmpTypes, Board
<1>8. CASE BmpKeyEnd
  <2>1. /\ pc' = "end" /\ pal' \in {pal, "default"}
        /\ UNCHANGED <<in, gmode, rd, row, flag, rle>>
    BY <1>8 DEF BmpKeyEnd
  <2>2. BmpModes' = BmpModes
    BY <2>1 DEF BmpModes
  <2> QED
    BY <1>1, <1>2, <1>3, <2>1, <2>2 DEF BmpTypes, Board
<1> QED
  BY <1>4, <1>5, <1>6, <1>7, <1>8, BmpGaloadTypes, BmpRleTypes DEF BmpNext

\* The light of n dots of each of three lines, the last of which has none yet.
Lit(n) == av1 \in Lights(n) /\ av2 \in Lights(n) /\ av3 = Dark(n)

\* The lines have dots once the screen is set; buff2 is no longer than the line.
RgbTypes ==
  /\ Board({1, 2})
  /\ Lit(IF pc \in {"main", "ginit", "error"} THEN 0 ELSE in.w)
  /\ IsSequence(line) /\ Len(line) <= in.w

\* A line that was read has as much light as its bytes and what was left for it.
LEMMA AddedType ==
  ASSUME NEW w \in Nat, w = in.w, Lit(w), NEW value, RgbAdd(value),
         \A c \in Colour : \A x \in 1 .. w : value[c][x] \in Nat
  PROVE  av1' \in Lights(w) /\ av2' \in Lights(w) /\ av3' = Dark(w)
<1>1. /\ av1' = [c \in Colour |-> [x \in 1 .. w + 1 |->
                   IF x <= w THEN av2[c][x] + value[c][x] ELSE av1[c][x]]]
      /\ av2' = Dark(w) /\ av3' = Dark(w)
  BY DEF RgbAdd, Lit
<1>2. ASSUME NEW c \in Colour, NEW x \in 1 .. w + 1
      PROVE  (IF x <= w THEN av2[c][x] + value[c][x] ELSE av1[c][x]) \in Nat
  <2>1. av1[c][x] \in Nat /\ av2[c][x] \in Nat
    BY DEF Lit, Lights
  <2>2. x <= w => value[c][x] \in Nat
    <3>1. x <= w => x \in 1 .. w
      OBVIOUS
    <3> QED
      BY <3>1
  <2> QED
    BY <2>1, <2>2
<1> QED
  BY <1>1, <1>2, DarkType DEF Lights

\* What a dot passes on is light again.
LEMMA DiffusedType ==
  ASSUME NEW w \in Nat, w = in.w, Lit(w), IsSequence(line), NEW place, Diffuse(place)
  PROVE  /\ av1' \in Lights(w) /\ av2' \in Lights(w) /\ av3' = Dark(w)
         /\ IsSequence(line') /\ Len(line') <= w
<1> DEFINE x == Len(line) + 1
           left(c) == av1[c][x] - Step * Level(av1[c][x])
           dot == [c \in Colour |-> <<rd.buff[place[c][x]], Level(av1[c][x])>>]
<1>1. Len(line) < w /\ av3' = av3
  BY DEF Diffuse
<1>2. PICK rand \in 0 .. 3 :
        /\ av1' = [c \in Colour |->
                     [av1[c] EXCEPT ![x] = left(c), ![x + 1] = @ + ShareRight(left(c), rand)]]
        /\ av2' = [c \in Colour |-> [av2[c] EXCEPT ![x] = @ + ShareDown(left(c), rand)]]
        /\ line' = Append(line, dot)
  BY DEF Diffuse
<1> HIDE DEF dot
<1>3. IsSequence(line') /\ Len(line) \in Nat /\ Len(line') = Len(line) + 1
  BY <1>2, Appended
<1>4. x \in 1 .. w + 1 /\ x + 1 \in 1 .. w + 1
  BY <1>1, <1>3
<1> HIDE DEF x
<1>5. \A c \in Colour : av1[c] \in [1 .. w + 1 -> Nat] /\ av2[c] \in [1 .. w + 1 -> Nat]
  BY DEF Lit, Lights
<1>6. ASSUME NEW c \in Colour
      PROVE  left(c) \in Nat /\ ShareRight(left(c), rand) \in Nat /\ ShareDown(left(c), rand) \in Nat
  <2> DEFINE v == av1[c][x]
  <2>1. v \in Nat
    BY <1>4, <1>5
  <2>2. left(c) = v - Step * Level(v)
    OBVIOUS
  <2> HIDE DEF v, left
  <2>3. LET l == v - Step * Level(v)
        IN  l \in Nat /\ ShareRight(l, rand) \in Nat /\ ShareDown(l, rand) \in Nat
    BY <2>1, SharesOfLeft
  <2> QED
    BY <2>2, <2>3
<1> HIDE DEF left
<1>7. ASSUME NEW c \in Colour
      PROVE  /\ [av1[c] EXCEPT ![x] = left(c), ![x + 1] = @ + ShareRight(left(c), rand)]
                  \in [1 .. w + 1 -> Nat]
             /\ [av2[c] EXCEPT ![x] = @ + ShareDown(left(c), rand)] \in [1 .. w + 1 -> Nat]
  <2> DEFINE a == av1[c]
             b == av2[c]
             l == left(c)
             right == ShareRight(left(c), rand)
             down == ShareDown(left(c), rand)
             e == [a EXCEPT ![x] = l]
  <2>1. a \in [1 .. w + 1 -> Nat] /\ b \in [1 .. w + 1 -> Nat] /\ l \in Nat /\ right \in Nat /\ down \in Nat
    BY <1>5, <1>6
  <2> HIDE DEF a, b, l, right, down
  <2>2. e \in [1 .. w + 1 -> Nat]
    BY <1>4, <2>1
  <2>3. e[x + 1] + right \in Nat /\ b[x] + down \in Nat
    <3> HIDE DEF e
    <3>1. e[x + 1] \in Nat /\ b[x] \in Nat
      BY <1>4, <2>1, <2>2
    <3> QED
      BY <2>1, <3>1
  <2>4. [e EXCEPT ![x + 1] = e[x + 1] + right] \in [1 .. w + 1 -> Nat]
    <3> HIDE DEF e
    <3> QED
      BY <1>4, <2>2, <2>3
  <2>5. [b EXCEPT ![x] = b[x] + down] \in [1 .. w + 1 -> Nat]
    <3> HIDE DEF e
    <3> QED
      BY <1>4, <2>1, <2>3
  <2>6. [a EXCEPT ![x] = l, ![x + 1] = @ + right] \in [1 .. w + 1 -> Nat]
    BY <2>4
  <2>7. [b EXCEPT ![x] = @ + down] \in [1 .. w + 1 -> Nat]
    BY <2>5
  <2> QED
    BY <2>6, <2>7 DEF a, b, l, right, down
<1>8. av1' \in Lights(w) /\ av2' \in Lights(w)
  BY <1>2, <1>7 DEF Lights
<1> QED
  BY <1>1, <1>3, <1>8 DEF Lit

\* The screen is set, and with it the lines.
LEMMA RgbGinitTypes ==
  ASSUME in.w \in Nat, RgbTypes, RgbGinit \/ X68Ginit
  PROVE  RgbTypes'
<1>1. /\ pc = "ginit" /\ UNCHANGED <<in, gmode, row>>
      /\ \/ pc' = "error" /\ UNCHANGED <<pal, av1, av2, av3, line>>
         \/ /\ pc' = "row" /\ pal' = "picture" /\ line' = <<>>
            /\ av1' = Dark(in.w) /\ av2' = Dark(in.w) /\ av3' = Dark(in.w)
  BY DEF RgbGinit, X68Ginit, rgbVars
<1>2. /\ gmode \in {1, 2} /\ pal \in Palette /\ row \in Int /\ "picture" \in Palette
      /\ Lit(0) /\ IsSequence(line) /\ Len(line) <= in.w
  BY <1>1 DEF RgbTypes, Board, Palette
<1>3. CASE pc' = "error" /\ UNCHANGED <<pal, av1, av2, av3, line>>
  BY <1>1, <1>2, <1>3 DEF RgbTypes, Board, Lit
<1>4. CASE /\ pc' = "row" /\ pal' = "picture" /\ line' = <<>>
           /\ av1' = Dark(in.w) /\ av2' = Dark(in.w) /\ av3' = Dark(in.w)
  <2>1. IsSequence(line') /\ Len(line') <= in.w
    BY <1>4, EmptyIsSequence
  <2> QED
    BY <1>1, <1>2, <1>4, <2>1, DarkType DEF RgbTypes, Board, Lit
<1> QED
  BY <1>1, <1>3, <1>4

\* A line of no dots is begun.
LEMMA RgbLineTypes ==
  ASSUME in.w \in Nat, RgbTypes, pc = "row", pc' = "dot", line' = <<>>,
         UNCHANGED <<in, gmode, pal, row>>, NEW value, RgbAdd(value),
         \A c \in Colour : \A x \in 1 .. in.w : value[c][x] \in Nat
  PROVE  RgbTypes'
<1>1. Lit(in.w) /\ Board({1, 2})
  BY DEF RgbTypes
<1>2. av1' \in Lights(in.w) /\ av2' \in Lights(in.w) /\ av3' = Dark(in.w)
  BY <1>1, AddedType
<1>3. IsSequence(line') /\ Len(line') <= in.w
  BY EmptyIsSequence
<1> QED
  BY <1>1, <1>2, <1>3 DEF RgbTypes, Board, Lit

\* A dot is done.
LEMMA RgbDotTypes ==
  ASSUME in.w \in Nat, RgbTypes, NEW place, Diffuse(place)
  PROVE  RgbTypes'
<1>1. pc = "dot" /\ UNCHANGED <<pc, in, gmode, pal, row>>
  BY DEF Diffuse
<1>2. Lit(in.w) /\ Board({1, 2}) /\ IsSequence(line)
  BY <1>1 DEF RgbTypes
<1>3. /\ av1' \in Lights(in.w) /\ av2' \in Lights(in.w) /\ av3' = Dark(in.w)
      /\ IsSequence(line') /\ Len(line') <= in.w
  BY <1>2, DiffusedType
<1> QED
  BY <1>1, <1>2, <1>3 DEF RgbTypes, Board, Lit

\* Steps that leave the lines as they are.
LEMMA RgbOtherTypes ==
  ASSUME RgbTypes, UNCHANGED <<in, rgbVars>>,
         (pc \in {"main", "ginit", "error"}) <=> (pc' \in {"main", "ginit", "error"}),
         gmode' \in {1, 2}, pal' \in Palette, row' \in Int
  PROVE  RgbTypes'
BY DEF RgbTypes, Board, Lit, rgbVars

\* The buffer of rgbload and of rgbld16.
LEMMA RgbBuffNext ==
  ASSUME RgbKept, BuffKept(rd),
         (prog = "rgbload" /\ RgbNext) \/ (prog = "rgbld16" /\ Rgb16Next)
  PROVE  BuffKept(rd')
<1>1. IsRgbFile(in)
  BY SMTT(40) DEF RgbKept
<1>2. prog = "rgbload" /\ RgbNext => rd' = rd \/ (RgbWide /\ rd' = FreadLine(rd, RgbSize))
  BY DEF RgbNext, RgbMain, RgbGinit, RgbLine, RgbDot, Diffuse, RgbShow, RgbKeyC, KeyEnd,
         RgbFreadline, RgbWide, RgbSize
<1>3. prog = "rgbld16" /\ Rgb16Next => rd' = rd \/ (RgbWide /\ rd' = FreadLine(rd, RgbSize))
  BY DEF Rgb16Next, Rgb16Main, Rgb16Ginit, Rgb16Line, Rgb16KeyC, KeyEnd, Rgb16Freadline,
         RgbWide, RgbSize
<1>4. ASSUME RgbWide PROVE BuffKept(FreadLine(rd, RgbSize))
  <2> DEFINE s == RgbSize
  <2>1. s \in 1 .. BuffSize
    BY <1>1, <1>4, RgbSizes
  <2> HIDE DEF s
  <2>2. BuffKept(FreadLine(rd, s))
    BY <2>1, FreadLineKeeps
  <2> QED
    BY <2>2 DEF s
<1> QED
  BY <1>2, <1>3, <1>4

\* The bytes of a line of rgbload.
LEMMA RgbValue ==
  ASSUME prog = "rgbload", RgbKept, BuffKept(rd), RgbWide, pc = "row",
         NEW c \in Colour, NEW x \in 1 .. in.w
  PROVE  LET t == FreadLine(rd, RgbSize)
             j == CASE c = "red" -> 0 [] c = "green" -> 1 [] OTHER -> 2
         IN  /\ t.idx + 3 * (x - 1) + j \in 0 .. BuffSize - 1
             /\ Byte(t.buff, t.idx + 3 * (x - 1) + j) \in 0 .. 255
<1> DEFINE t == FreadLine(rd, RgbSize)
           j == CASE c = "red" -> 0 [] c = "green" -> 1 [] OTHER -> 2
           i == t.idx
           s == RgbSize
<1>1. /\ in.w \in Nat /\ IsRgbFile(in) /\ in.data \in Seq(0 .. 255) /\ rd.len = Len(in.data)
  BY DEF RgbKept, IsRgbFile, RgbPhase
<1>2. s \in 1 .. BuffSize /\ BuffSize \in Nat
  BY <1>1, RgbSizes
<1>3. LineRead(t, s, RgbAt(Len(screen)))
  BY RgbReads
<1>4. BuffKept(t) /\ t.len = rd.len
  <2> HIDE DEF s
  <2>1. t = FreadLine(rd, s)
    BY DEF s
  <2> HIDE DEF t
  <2> QED
    BY <1>2, <2>1, FreadLineKeeps
<1> HIDE DEF t
<1>5. i \in Nat /\ i + 3 * in.w <= BuffSize
  BY <1>3, <1>4 DEF LineRead, RgbSize, BuffKept, RdType
<1>6. j \in 0 .. 2
  BY DEF Colour
<1> HIDE DEF i, j
<1>7. i + 3 * (x - 1) + j \in 0 .. BuffSize - 1
  BY <1>1, <1>2, <1>5, <1>6
<1>8. Byte(t.buff, i + 3 * (x - 1) + j) \in 0 .. 255
  BY <1>1, <1>4, <1>7, ByteRange
<1> QED
  BY <1>7, <1>8 DEF t, i, j

\* Every step of rgbload keeps its types.
LEMMA RgbTypesNext ==
  ASSUME prog = "rgbload", RgbKept, RgbTypes, BuffKept(rd), RgbNext
  PROVE  RgbTypes'
<1>1. /\ in.w \in Nat /\ IsRgbFile(in)
      /\ gmode \in {1, 2} /\ pal \in Palette /\ row \in Int
      /\ "default" \in Palette /\ "picture" \in Palette
  BY DEF RgbKept, IsRgbFile, RgbTypes, Board, Palette
<1>2. CASE RgbMain
  <2>1. /\ pc = "main" /\ pc' \in {"ginit", "error"} /\ gmode' = 1
        /\ UNCHANGED <<in, pal, row, rgbVars>>
    BY <1>2 DEF RgbMain
  <2> QED
    BY <1>1, <2>1, RgbOtherTypes
<1>3. CASE RgbLine
  <2> DEFINE t == FreadLine(rd, RgbSize)
             place(c, x) == t.idx + 3 * (x - 1) + (CASE c = "red" -> 0 [] c = "green" -> 1 [] OTHER -> 2)
             value == [c \in Colour |-> [x \in 1 .. in.w |-> Byte(t.buff, place(c, x))]]
  <2>1. pc = "row" /\ UNCHANGED <<in, gmode, pal, row>>
    BY <1>3 DEF RgbLine
  <2>2. \/ pc' = "keys" /\ UNCHANGED rgbVars
        \/ pc' = "fault" /\ UNCHANGED rgbVars
        \/ RgbWide /\ pc' = "dot" /\ line' = <<>> /\ RgbAdd(value)
    BY <1>1, <1>3 DEF RgbLine, RgbFreadline, RgbWide, RgbSize
  <2>3. ASSUME RgbWide, NEW c \in Colour, NEW x \in 1 .. in.w PROVE value[c][x] \in Nat
    <3>1. Byte(t.buff, place(c, x)) \in 0 .. 255
      BY <2>1, <2>3, RgbValue
    <3>2. value[c][x] = Byte(t.buff, place(c, x))
      OBVIOUS
    <3> HIDE DEF t, place, value
    <3> QED
      BY <3>1, <3>2
  <2>4. CASE pc' \in {"keys", "fault"} /\ UNCHANGED rgbVars
    BY <1>1, <2>1, <2>4, RgbOtherTypes
  <2>5. CASE RgbWide /\ pc' = "dot" /\ line' = <<>> /\ RgbAdd(value)
    <3>1. \A c \in Colour : \A x \in 1 .. in.w : value[c][x] \in Nat
      BY <2>3, <2>5
    <3> HIDE DEF value
    <3> QED
      BY <1>1, <2>1, <2>5, <3>1, RgbLineTypes
  <2> HIDE DEF value
  <2> QED
    BY <2>2, <2>4, <2>5
<1>4. CASE RgbDot
  BY <1>1, <1>4, RgbDotTypes DEF RgbDot
<1>5. CASE RgbShow
  <2>1. /\ pc = "dot" /\ pc' = "row" /\ row' = row + 1
        /\ UNCHANGED <<in, gmode, pal, rgbVars>>
    BY <1>5 DEF RgbShow
  <2>2. row' \in Int
    BY <1>1, <2>1
  <2> QED
    BY <1>1, <2>1, <2>2, RgbOtherTypes
<1>6. CASE RgbKeyC \/ (KeyEnd /\ UNCHANGED rgbVars)
  <2>1. /\ pc = "keys" /\ pc' \in {"keys", "end"} /\ pal' \in {pal, "default", "picture"}
        /\ gmode' \in {gmode, OtherResolution(gmode)}
        /\ UNCHANGED <<in, row, rgbVars>>
    BY <1>6 DEF RgbKeyC, KeyEnd
  <2>2. gmode' \in {1, 2} /\ pal' \in Palette
    BY <1>1, <2>1, KeyModes
  <2> QED
    BY <1>1, <2>1, <2>2, RgbOtherTypes
<1> QED
  BY <1>1, <1>2, <1>3, <1>4, <1>5, <1>6, RgbGinitTypes DEF RgbNext

\* The buffer after a line of x68load is read, one passed by or not; dots keep their
\* two bytes together in it.
LEMMA X68ReadKeeps ==
  ASSUME X68File, BuffKept(rd)
  PROVE  /\ BuffKept(X68Read) /\ X68Read.len = rd.len
         /\ Multiple(rd.fp, 2) => Multiple(X68Read.fp, 2) /\ Multiple(X68Read.idx, 2)
         /\ Pairs(rd) => Pairs(X68Read)
         /\ Uncut(rd) => Uncut(X68Read)
<1> DEFINE s == X68Size
           passed == IF row % 4 = 0 THEN FreadLine(rd, s) ELSE rd
           t == FreadLine(passed, s)
<1>1. s \in 1 .. BuffSize /\ Multiple(s, 2)
  <2>1. in.w \in Nat
    BY X68Sizes
  <2>2. 2 * in.w = in.w * 2
    BY <2>1
  <2> QED
    BY <2>1, <2>2, X68Sizes DEF X68Size, Multiple
<1>2. X68Read = t
  BY DEF X68Read, X68Freadline, X68Size
<1> HIDE DEF s
<1>3. /\ BuffKept(passed) /\ passed.len = rd.len
      /\ Multiple(rd.fp, 2) => Multiple(passed.fp, 2)
      /\ Pairs(rd) => Pairs(passed)
      /\ Uncut(rd) => Uncut(passed)
  <2>1. /\ BuffKept(FreadLine(rd, s)) /\ FreadLine(rd, s).len = rd.len
        /\ Multiple(rd.fp, 2) => Multiple(FreadLine(rd, s).fp, 2)
        /\ Pairs(rd) => Pairs(FreadLine(rd, s))
        /\ Uncut(rd) => Uncut(FreadLine(rd, s))
    BY <1>1, FreadLineKeeps
  <2> QED
    BY <2>1
<1> HIDE DEF passed
<1>4. /\ BuffKept(t) /\ t.len = passed.len
      /\ Multiple(passed.fp, 2) => Multiple(t.fp, 2) /\ Multiple(t.idx, 2)
      /\ Pairs(passed) => Pairs(t)
      /\ Uncut(passed) => Uncut(t)
  BY <1>1, <1>3, FreadLineKeeps
<1> QED
  BY <1>2, <1>3, <1>4

\* The buffer of x68load.
LEMMA X68BuffNext ==
  ASSUME X68Kept, BuffKept(rd), X68Next
  PROVE  BuffKept(rd')
<1>1. rd' = rd \/ rd' = X68Read
  BY DEF X68Next, X68Main, X68Ginit, X68Line, X68Dot, Diffuse, X68Show, X68Dither4, X68KeyC,
         KeyEnd
<1> QED
  BY <1>1, X68ReadKeeps, SMTT(40) DEF X68Kept

\* The two bytes of a dot of x68load are in the buffer.
LEMMA X68TwoBytes ==
  ASSUME X68Kept, BuffKept(rd), pc = "row", NEW d \in 1 .. in.w
  PROVE  LET k == X68Read.idx + 2 * (d - 1)
         IN  /\ k \in 0 .. BuffSize - 1 /\ k + 1 \in 0 .. BuffSize - 1
             /\ Byte(X68Read.buff, k) \in 0 .. 255 /\ Byte(X68Read.buff, k + 1) \in 0 .. 255
<1> DEFINE t == X68Read
           i == t.idx
           k == i + 2 * (d - 1)
<1>1. X68File /\ in.data \in Seq(0 .. 255) /\ rd.len = Len(in.data)
  BY DEF X68Kept, X68File, IsRgbFile, X68Phase
<1>2. in.w \in Nat /\ BuffSize \in Nat
  BY <1>1, X68Sizes
<1>3. BuffKept(t) /\ t.len = Len(in.data)
  BY <1>1, X68ReadKeeps
<1>4. LineRead(t, X68Size, X68At(X68LineOf(row)))
  BY X68Reads
<1> HIDE DEF t
<1>5. i \in Nat /\ i + 2 * in.w <= BuffSize
  BY <1>3, <1>4 DEF LineRead, X68Size, BuffKept, RdType
<1> HIDE DEF i
<1>6. k \in 0 .. BuffSize - 1 /\ k + 1 \in 0 .. BuffSize - 1
  BY <1>2, <1>5
<1> HIDE DEF k
<1>7. Byte(t.buff, k) \in 0 .. 255 /\ Byte(t.buff, k + 1) \in 0 .. 255
  BY <1>1, <1>3, <1>6, ByteRange
<1> QED
  BY <1>6, <1>7 DEF t, i, k

\* Every step of x68load keeps its types.
LEMMA X68TypesNext ==
  ASSUME X68Kept, RgbTypes, BuffKept(rd), X68Next
  PROVE  RgbTypes'
<1>1. /\ in.w \in Nat
      /\ gmode \in {1, 2} /\ pal \in Palette /\ row \in Int
      /\ "default" \in Palette /\ "picture" \in Palette
  BY DEF X68Kept, X68File, IsRgbFile, RgbTypes, Board, Palette
<1>2. CASE X68Main
  <2>1. /\ pc = "main" /\ pc' \in {"ginit", "error"} /\ gmode' = 1
        /\ UNCHANGED <<in, pal, row, rgbVars>>
    BY <1>2 DEF X68Main
  <2> QED
    BY <1>1, <2>1, RgbOtherTypes
<1>3. CASE X68Line
  <2> DEFINE value == [c \in Colour |-> [x \in 1 .. in.w |-> 8 * Field(c, X68Word(x))]]
  <2>1. /\ pc = "row" /\ UNCHANGED <<in, gmode, pal, row>>
        /\ \/ pc' = "keys" /\ UNCHANGED rgbVars
           \/ pc' = "dot" /\ line' = <<>> /\ RgbAdd(value)
    BY <1>3 DEF X68Line
  <2>2. ASSUME NEW c \in Colour, NEW d \in 1 .. in.w PROVE value[c][d] \in Nat
    <3> DEFINE k == X68Read.idx + 2 * (d - 1)
               a == Byte(X68Read.buff, k)
               b == Byte(X68Read.buff, k + 1)
    <3>1. a \in 0 .. 255 /\ b \in 0 .. 255
      BY <2>1, X68TwoBytes
    <3>2. value[c][d] = 8 * Field(c, 256 * a + b)
      BY DEF X68Word
    <3> HIDE DEF k, a, b, value
    <3>3. Field(c, 256 * a + b) \in 0 .. 31
      BY <3>1, FieldRange, ZenonT(60)
    <3> QED
      BY <3>2, <3>3
  <2>3. CASE pc' = "keys" /\ UNCHANGED rgbVars
    BY <1>1, <2>1, <2>3, RgbOtherTypes
  <2>4. CASE pc' = "dot" /\ line' = <<>> /\ RgbAdd(value)
    <3>1. \A c \in Colour : \A x \in 1 .. in.w : value[c][x] \in Nat
      BY <2>2
    <3> HIDE DEF value
    <3> QED
      BY <1>1, <2>1, <2>4, <3>1, RgbLineTypes
  <2> HIDE DEF value
  <2> QED
    BY <2>1, <2>3, <2>4
<1>4. CASE X68Dot
  BY <1>1, <1>4, RgbDotTypes DEF X68Dot
<1>5. CASE X68Show \/ X68Dither4
  <2>1. /\ pc \in {"row", "dot"} /\ pc' \in {"row", "keys"} /\ row' \in {row, row + 1}
        /\ UNCHANGED <<in, gmode, pal, rgbVars>>
    BY <1>5 DEF X68Show, X68Dither4
  <2>2. row' \in Int
    BY <1>1, <2>1
  <2> QED
    BY <1>1, <2>1, <2>2, RgbOtherTypes
<1>6. CASE X68KeyC \/ (KeyEnd /\ UNCHANGED rgbVars)
  <2>1. /\ pc = "keys" /\ pc' \in {"keys", "end"} /\ pal' \in {pal, "default", "picture"}
        /\ gmode' \in {gmode, OtherResolution(gmode)}
        /\ UNCHANGED <<in, row, rgbVars>>
    BY <1>6 DEF X68KeyC, KeyEnd
  <2>2. gmode' \in {1, 2} /\ pal' \in Palette
    BY <1>1, <2>1, KeyModes
  <2> QED
    BY <1>1, <2>1, <2>2, RgbOtherTypes
<1> QED
  BY <1>1, <1>2, <1>3, <1>4, <1>5, <1>6, RgbGinitTypes DEF X68Next

\* Where tiffload reads from is set from the file, and the buffer stays.
LEMMA MovedKeeps ==
  ASSUME NEW r, BuffKept(r), NEW p \in Nat
  PROVE  BuffKept([r EXCEPT !.at = p]) /\ [r EXCEPT !.at = p].len = r.len
BY DEF BuffKept, RdType

\* The buffer of tiffload.
LEMMA TiffBuffNext ==
  ASSUME TiffKept, BuffKept(rd), TiffNext
  PROVE  BuffKept(rd')
<1>1. CASE TiffGaload
  <2> DEFINE head == ReadTo(rd, HeadBytes)
             moved == [head EXCEPT !.at = TiffTag("colormap", 0)]
             lut == IF TiffTag("photometric", 0) = 3 THEN ReadTo(moved, 6 * ColorMax) ELSE head
             o == TiffTag("offset", 0)
  <2>1. rd' = head \/ rd' = [lut EXCEPT !.at = o]
    BY <1>1 DEF TiffGaload
  <2>2. o \in Nat /\ TiffTag("colormap", 0) \in Nat /\ HeadBytes \in Nat /\ 6 * ColorMax \in Nat
    BY TiffSizes, TiffAssumption DEF TiffKept, ColorMax
  <2>3. BuffKept(head)
    BY <2>2, ReadToKeeps
  <2> HIDE DEF head
  <2>4. BuffKept(moved)
    BY <2>2, <2>3, MovedKeeps
  <2> HIDE DEF moved
  <2>5. BuffKept(lut)
    BY <2>2, <2>3, <2>4, ReadToKeeps
  <2> HIDE DEF lut, o
  <2> QED
    BY <2>1, <2>2, <2>3, <2>5, MovedKeeps, SMTT(40)
<1>2. CASE TiffRow
  <2> DEFINE s == TiffScan
  <2>1. IsTiffFile(in) /\ TiffBit \in TiffBits
    BY <1>2 DEF TiffRow, TiffKept, TiffPhase
  <2>2. rd' = rd \/ (s > 0 /\ rd' = FreadLine(rd, s))
    BY <1>2 DEF TiffRow, TiffFreadline
  <2>3. s \in 0 .. BuffSize /\ BuffSize \in Nat
    BY <2>1, TiffSizes
  <2> HIDE DEF s
  <2>4. s > 0 => s \in 1 .. BuffSize
    BY <2>3
  <2> QED
    BY <2>2, <2>4, FreadLineKeeps
<1>3. CASE TiffMain \/ TiffGinit \/ TiffKeyC \/ KeyEnd
  BY <1>3 DEF TiffMain, TiffGinit, TiffKeyC, KeyEnd
<1> QED
  BY <1>1, <1>2, <1>3 DEF TiffNext

\* bmpsave takes the screen as it is, until the mouse is looked at.
SaveModes == IF pc = "mouse" THEN {1, 2} ELSE {0, 1, 2}

\* rgbld16 shows 65536 colours; a program that ends early leaves the mode.
Rgb16Modes == IF pc \in {"main", "error"} THEN {1, 13, 15} ELSE {13, 15}

TiffModes == {1, 2, 3, 4, 7, 8}

\* The types of each program's state.
TypeInv ==
  /\ prog \in {"bmpload", "bmpsave", "rgbload", "rgbld16", "x68load", "tiffload"}
  /\ BuffKept(rd)
  /\ prog = "bmpload" => BmpTypes
  /\ prog # "bmpload" => flag = 0 /\ rle = NoRle
  /\ prog = "bmpsave" => Board(SaveModes)
  /\ prog \in {"rgbload", "x68load"} => RgbTypes
  /\ prog = "rgbld16" => Board(Rgb16Modes)
  /\ prog = "tiffload" => Board(TiffModes)

\* Every step of bmpsave keeps its types.
LEMMA SaveTypesNext ==
  ASSUME Board(SaveModes), BuffKept(rd), SaveNext
  PROVE  Board(SaveModes)' /\ BuffKept(rd')
<1>1. /\ gmode \in SaveModes /\ pal \in Palette /\ row \in Int /\ "picture" \in Palette
  BY DEF Board, Palette
<1>2. rd' = rd /\ row' = row /\ (pal' = pal \/ pal' = "picture")
  BY DEF SaveNext, SaveGinit, SaveKeyC, SaveKeyS, SaveKeyOther, SaveMouse, SaveWrite
<1>3. gmode' \in SaveModes'
  <2>1. CASE SaveGinit
    BY <1>1, <2>1 DEF SaveGinit, SaveModes
  <2>2. CASE SaveKeyC
    <3>1. pc = "mouse" /\ pc' = pc /\ gmode' = OtherResolution(gmode)
      BY <2>2 DEF SaveKeyC
    <3> QED
      BY <1>1, <3>1, KeyModes DEF SaveModes
  <2>3. CASE SaveKeyS \/ SaveKeyOther
    BY <1>1, <2>3 DEF SaveKeyS, SaveKeyOther, SaveModes
  <2>4. CASE SaveMouse
    <3>1. pc = "mouse" /\ gmode' = gmode
      BY <2>4 DEF SaveMouse
    <3> QED
      BY <1>1, <3>1 DEF SaveModes
  <2>5. CASE SaveWrite
    BY <1>1, <2>5 DEF SaveWrite, SaveModes
  <2> QED
    BY <2>1, <2>2, <2>3, <2>4, <2>5 DEF SaveNext
<1> QED
  BY <1>1, <1>2, <1>3 DEF Board

\* Every step of rgbld16 keeps its types.
LEMMA Rgb16TypesNext ==
  ASSUME Board(Rgb16Modes), Rgb16Next
  PROVE  Board(Rgb16Modes)'
<1>1. /\ gmode \in Rgb16Modes /\ pal \in Palette /\ row \in Int /\ "default" \in Palette
  BY DEF Board, Palette
<1>2. pal' = pal \/ pal' = "default"
  BY DEF Rgb16Next, Rgb16Main, Rgb16Ginit, Rgb16Line, Rgb16KeyC, KeyEnd, GAinit
<1>3. row' = row \/ row' = row + 1
  BY DEF Rgb16Next, Rgb16Main, Rgb16Ginit, Rgb16Line, Rgb16KeyC, KeyEnd
<1>4. gmode' \in Rgb16Modes'
  <2>1. CASE Rgb16Main
    BY <1>1, <2>1 DEF Rgb16Main, Rgb16Modes
  <2>2. CASE Rgb16Ginit
    BY <1>1, <2>2 DEF Rgb16Ginit, Rgb16Modes
  <2>3. CASE Rgb16Line
    <3>1. pc = "row" /\ pc' \in {"row", "keys", "fault"} /\ gmode' = gmode
      BY <2>3 DEF Rgb16Line
    <3> QED
      BY <1>1, <3>1 DEF Rgb16Modes
  <2>4. CASE Rgb16KeyC
    BY <1>1, <2>4 DEF Rgb16KeyC, GAinit, Rgb16Modes
  <2>5. CASE KeyEnd
    BY <1>1, <2>5 DEF KeyEnd, Rgb16Modes
  <2> QED
    BY <2>1, <2>2, <2>3, <2>4, <2>5 DEF Rgb16Next
<1>5. row' \in Int
  BY <1>1, <1>3
<1> QED
  BY <1>1, <1>2, <1>4, <1>5 DEF Board

\* The palettes tiffload makes.
LEMMA TiffPaletteType == TiffPalette \in Palette
BY DEF TiffPalette, Palette

\* Every step of tiffload keeps its types.
LEMMA TiffTypesNext ==
  ASSUME Board(TiffModes), TiffNext
  PROVE  Board(TiffModes)'
<1>1. gmode \in TiffModes /\ pal \in Palette /\ row \in Int /\ "default" \in Palette
  BY DEF Board, Palette
<1>2. pal' \in {pal, "default", TiffPalette}
  BY DEF TiffNext, TiffMain, TiffGinit, TiffGaload, TiffRow, TiffKeyC, KeyEnd
<1>3. row' = row \/ row' = row + 1
  BY DEF TiffNext, TiffMain, TiffGinit, TiffGaload, TiffRow, TiffKeyC, KeyEnd
<1>4. gmode' \in {gmode, OtherResolution(gmode), TiffMode}
  BY DEF TiffNext, TiffMain, TiffGinit, TiffGaload, TiffRow, TiffKeyC, KeyEnd
<1>5. TiffMode \in {3, 7, gmode}
  BY DEF TiffMode
<1>6. row' \in Int /\ pal' \in Palette
  BY <1>1, <1>2, <1>3, TiffPaletteType
<1>7. gmode' \in TiffModes
  BY <1>1, <1>4, <1>5, KeyModes DEF TiffModes
<1> QED
  BY <1>6, <1>7 DEF Board, TiffModes

\* bmpload of a saved file begins as of any other.
LEMMA LoadSavedTypes ==
  ASSUME SavedInv, TypeInv, LoadSaved
  PROVE  TypeInv'
<1>1. /\ prog = "bmpsave" /\ pc = "end" /\ prog' = "bmpload" /\ pc' = "main"
      /\ gmode' = 1 /\ pal' = "default" /\ rd' = Opened(in.len)
      /\ UNCHANGED <<in, row, flag, rle>>
  BY DEF LoadSaved, bmpVars
<1>2. IsBmpFile(in)
  BY <1>1, SavedIsBmp DEF SavedInv, Saved
<1>3. in.len \in Nat /\ Len(in.data) \in Nat
  BY <1>2, LenProperties DEF IsBmpFile
<1>4. BuffKept(rd')
  BY <1>1, <1>3, OpenedKeeps
<1>5. flag = 0 /\ rle = NoRle /\ row \in Int
  BY <1>1 DEF TypeInv, Board
<1>6. NoRle \in RleType /\ RleType' = RleType
  <2>1. 0 \in Words
    BY DEF Words
  <2> QED
    BY <1>1, <1>3, <2>1, NoRleType DEF RleType, FilePlaces
<1>7. BmpTypes'
  <2>1. gmode' \in BmpModes' /\ pal' \in Palette
    BY <1>1, <1>5 DEF BmpModes, Palette
  <2> QED
    BY <1>1, <1>4, <1>5, <1>6, <2>1 DEF BmpTypes, Board
<1> QED
  BY <1>1, <1>4, <1>7 DEF TypeInv

\* The programs begin with nothing read and nothing lit.
LEMMA TypeInit == ASSUME Init PROVE TypeInv
<1>1. PictureInv
  BY PictureInit
<1>2. /\ prog \in {"bmpload", "bmpsave", "rgbload", "rgbld16", "x68load", "tiffload"}
      /\ pc = "main" /\ gmode = (IF prog = "bmpsave" THEN 0 ELSE 1) /\ pal = "default" /\ row = 0
  BY DEF Init, BmpStart, SaveStart, RgbStart, X68Start, TiffStart
<1>3. flag = 0 /\ rle = NoRle /\ av1 = Dark(0) /\ av2 = Dark(0) /\ av3 = Dark(0) /\ line = <<>>
  BY DEF Init, BmpRest, RgbRest
<1>4. pal \in Palette /\ row \in Int
  BY <1>2 DEF Palette
<1>5. BuffKept(rd)
  <2>1. CASE prog = "bmpload"
    <3>1. rd = Opened(in.len)
      BY <2>1 DEF Init, BmpStart, SaveStart, RgbStart, X68Start, TiffStart
    <3>2. in.len \in Nat
      BY <1>1, <2>1 DEF PictureInv, BmpInv, IsBmpFile
    <3> QED
      BY <3>1, <3>2, OpenedKeeps
  <2>2. CASE prog = "bmpsave"
    <3>1. rd = Opened(0)
      BY <2>2 DEF Init, BmpStart, SaveStart, RgbStart, X68Start, TiffStart
    <3> QED
      BY <3>1, OpenedKeeps
  <2>3. CASE prog \in {"rgbload", "rgbld16", "x68load", "tiffload"}
    <3>1. rd = Opened(Len(in.data))
      BY <2>3 DEF Init, BmpStart, SaveStart, RgbStart, X68Start, TiffStart
    <3>2. IsRgbFile(in) \/ IsTiffFile(in)
      BY <1>1, <2>3 DEF PictureInv, RgbInv, RgbKept, X68Inv, X68Kept, X68File, TiffInv, TiffKept
    <3>3. Len(in.data) \in Nat
      BY <3>2, LenProperties DEF IsRgbFile, IsTiffFile
    <3> QED
      BY <3>1, <3>3, OpenedKeeps
  <2> QED
    BY <1>2, <2>1, <2>2, <2>3
<1>6. ASSUME prog = "bmpload" PROVE BmpTypes
  <2>1. Len(in.data) \in Nat
    BY <1>1, <1>6, LenProperties DEF PictureInv, BmpInv, IsBmpFile
  <2>2. rle \in RleType
    <3>1. 0 \in Words
      BY DEF Words
    <3> QED
      BY <1>3, <2>1, <3>1, NoRleType
  <2>3. gmode \in BmpModes
    BY <1>2, <1>3, <1>6 DEF BmpModes
  <2> QED
    BY <1>2, <1>3, <1>4, <1>5, <1>6, <2>2, <2>3 DEF BmpTypes, Board
<1>7. ASSUME prog \in {"rgbload", "x68load"} PROVE RgbTypes
  <2>1. in.w \in Nat
    BY <1>1, <1>7 DEF PictureInv, RgbInv, RgbKept, X68Inv, X68Kept, X68File, IsRgbFile
  <2>2. IsSequence(line) /\ Len(line) <= in.w
    BY <1>3, <2>1, EmptyIsSequence
  <2>3. Dark(0) \in Lights(0)
    BY DarkType
  <2> QED
    BY <1>2, <1>3, <1>4, <1>7, <2>2, <2>3 DEF RgbTypes, Board, Lit
<1>8. /\ prog = "bmpsave" => Board(SaveModes)
      /\ prog = "rgbld16" => Board(Rgb16Modes)
      /\ prog = "tiffload" => Board(TiffModes)
  BY <1>2, <1>4 DEF Board, SaveModes, Rgb16Modes, TiffModes
<1> QED
  BY <1>2, <1>3, <1>5, <1>6, <1>7, <1>8 DEF TypeInv

\* When nothing happens nothing changes.
LEMMA TypeRests == ASSUME TypeInv, UNCHANGED vars PROVE TypeInv'
<1>1. UNCHANGED <<prog, pc, in, gmode, pal, rd, row, flag, rle, av1, av2, av3, line>>
  BY DEF vars, gaVars, bmpVars, rgbVars
<1>2. BmpTypes' = BmpTypes
  BY <1>1 DEF BmpTypes, Board, BmpModes, RleType, FilePlaces
<1>3. RgbTypes' = RgbTypes
  BY <1>1 DEF RgbTypes, Board, Lit
<1>4. /\ Board(SaveModes)' = Board(SaveModes) /\ Board(Rgb16Modes)' = Board(Rgb16Modes)
      /\ Board(TiffModes)' = Board(TiffModes)
  BY <1>1 DEF Board, SaveModes, Rgb16Modes, TiffModes
<1> QED
  BY <1>1, <1>2, <1>3, <1>4 DEF TypeInv

\* Every step of every picture program keeps the types of its state.
LEMMA TypeStep == ASSUME PictureInv, TypeInv, [Next]_vars PROVE TypeInv'
<1>1. BuffKept(rd) /\ BmpInv /\ SavedInv /\ RgbInv /\ X68Inv /\ TiffInv
  BY DEF PictureInv, TypeInv
<1>2. CASE RunBmpLoad
  <2>1. prog = "bmpload" /\ prog' = prog /\ BmpNext
    BY <1>2 DEF RunBmpLoad
  <2>2. BmpTypes'
    BY <1>1, <2>1, BmpTypesNext DEF TypeInv, BmpInv
  <2> QED
    BY <2>1, <2>2 DEF TypeInv, BmpTypes
<1>3. CASE RunBmpSave
  <2>1. prog = "bmpsave" /\ prog' = prog /\ SaveNext /\ UNCHANGED <<flag, rle>>
    BY <1>3 DEF RunBmpSave, bmpVars
  <2>2. Board(SaveModes)' /\ BuffKept(rd')
    BY <1>1, <2>1, SaveTypesNext DEF TypeInv
  <2> QED
    BY <2>1, <2>2 DEF TypeInv
<1>4. CASE RunRgbLoad
  <2>1. prog = "rgbload" /\ prog' = prog /\ RgbNext /\ UNCHANGED <<flag, rle>>
    BY <1>4 DEF RunRgbLoad, bmpVars
  <2>2. RgbTypes' /\ BuffKept(rd')
    BY <1>1, <2>1, RgbTypesNext, RgbBuffNext DEF TypeInv, RgbInv
  <2> QED
    BY <2>1, <2>2 DEF TypeInv
<1>5. CASE RunRgbld16
  <2>1. prog = "rgbld16" /\ prog' = prog /\ Rgb16Next /\ UNCHANGED <<flag, rle>>
    BY <1>5 DEF RunRgbld16, bmpVars
  <2>2. Board(Rgb16Modes)' /\ BuffKept(rd')
    BY <1>1, <2>1, Rgb16TypesNext, RgbBuffNext DEF TypeInv, RgbInv
  <2> QED
    BY <2>1, <2>2 DEF TypeInv
<1>6. CASE RunX68Load
  <2>1. prog = "x68load" /\ prog' = prog /\ X68Next /\ UNCHANGED <<flag, rle>>
    BY <1>6 DEF RunX68Load, bmpVars
  <2>2. RgbTypes' /\ BuffKept(rd')
    BY <1>1, <2>1, X68TypesNext, X68BuffNext DEF TypeInv, X68Inv
  <2> QED
    BY <2>1, <2>2 DEF TypeInv
<1>7. CASE RunTiffLoad
  <2>1. prog = "tiffload" /\ prog' = prog /\ TiffNext /\ UNCHANGED <<flag, rle>>
    BY <1>7 DEF RunTiffLoad, bmpVars
  <2>2. Board(TiffModes)' /\ BuffKept(rd')
    BY <1>1, <2>1, TiffTypesNext, TiffBuffNext DEF TypeInv, TiffInv
  <2> QED
    BY <2>1, <2>2 DEF TypeInv
<1>8. CASE LoadSaved
  BY <1>1, <1>8, LoadSavedTypes
<1>9. CASE UNCHANGED vars
  BY <1>9, TypeRests
<1> QED
  BY <1>2, <1>3, <1>4, <1>5, <1>6, <1>7, <1>8, <1>9 DEF Next

\* What a buffer and a board have.
LEMMA BoardTells ==
  ASSUME BuffKept(rd), NEW modes \in SUBSET (0 .. 15), Board(modes)
  PROVE  GaTypeOK
<1>1. /\ rd \in RdType /\ rd.fp + rd.remain <= BuffSize
      /\ \A k \in 0 .. BuffSize - 1 : rd.buff[k] = Never \/ rd.buff[k] \in 0 .. rd.len - 1
  BY DEF BuffKept
<1>2. /\ rd.at \in Nat /\ rd.fp \in Nat /\ rd.remain \in Nat /\ rd.len \in Nat /\ BuffSize \in Nat
      /\ DOMAIN rd.buff = 0 .. BuffSize - 1
  BY <1>1, GaAssumption DEF RdType
<1>3. rd.fp \in 0 .. BuffSize /\ rd.remain \in 0 .. BuffSize
  BY <1>1, <1>2
<1>4. \A k \in DOMAIN rd.buff : rd.buff[k] < rd.len
  <2> SUFFICES ASSUME NEW k \in 0 .. BuffSize - 1 PROVE rd.buff[k] < rd.len
    BY <1>2
  <2>1. rd.buff[k] = Never \/ rd.buff[k] \in 0 .. rd.len - 1
    BY <1>1
  <2> QED
    BY <1>2, <2>1 DEF Never
<1>5. gmode \in 0 .. 15 /\ pal \in Palette /\ row \in Int
  BY DEF Board
<1> QED
  BY <1>2, <1>3, <1>4, <1>5 DEF GaTypeOK

\* What a line has of light.
LEMMA LitTells ==
  ASSUME RgbTypes, NEW c \in Colour, NEW x \in DOMAIN av1[c]
  PROVE  av1[c][x] \in Nat /\ av2[c][x] \in Nat /\ av3[c][x] = 0
<1> DEFINE n == IF pc \in {"main", "ginit", "error"} THEN 0 ELSE in.w
<1>1. Lit(n)
  BY DEF RgbTypes
<1> HIDE DEF n
<1>2. av1[c] \in [1 .. n + 1 -> Nat] /\ av2[c] \in [1 .. n + 1 -> Nat]
  BY <1>1 DEF Lit, Lights
<1>3. av3[c] = [d \in 1 .. n + 1 |-> 0]
  BY <1>1 DEF Lit, Dark
<1> QED
  BY <1>2, <1>3

\* The types are those the specification states.
LEMMA TypeTells == ASSUME PictureInv, TypeInv PROVE TypeOK
<1>1. GaTypeOK
  <2>1. PICK modes \in SUBSET (0 .. 15) : Board(modes)
    <3>1. BmpModes \in SUBSET (0 .. 15) /\ SaveModes \in SUBSET (0 .. 15)
          /\ Rgb16Modes \in SUBSET (0 .. 15) /\ TiffModes \in SUBSET (0 .. 15)
          /\ {1, 2} \in SUBSET (0 .. 15)
      BY DEF BmpModes, SaveModes, Rgb16Modes, TiffModes
    <3>2. Board(BmpModes) \/ Board(SaveModes) \/ Board(Rgb16Modes) \/ Board(TiffModes)
          \/ Board({1, 2})
      BY DEF TypeInv, BmpTypes, RgbTypes
    <3> QED
      BY <3>1, <3>2
  <2> QED
    BY <2>1, BoardTells DEF TypeInv
<1>2. ASSUME prog = "bmpload" PROVE BmpTypeOK
  <2>1. rle \in RleType /\ flag \in {0, 1}
        /\ pc \in {"main", "ginit", "gaload", "row", "rle8", "rle4", "keys", "end", "error",
                   "endless"}
    BY <1>2 DEF TypeInv, BmpTypes
  <2>2. rle.x \in Words /\ rle.y \in Words /\ rle.pos \in FilePlaces
    BY <2>1 DEF RleType
  <2>3. rle.pos \in 0 .. Len(in.data)
    BY <2>2 DEF FilePlaces
  <2> QED
    BY <2>1, <2>2, <2>3 DEF BmpTypeOK
<1>3. ASSUME prog = "bmpsave" PROVE SaveTypeOK
  <2>1. SaveTypes /\ MouseSeen
    BY <1>3 DEF PictureInv, BoxInv, SavedInv
  <2> QED
    BY <2>1 DEF SaveTypes, MouseSeen, SaveTypeOK
<1>4. ASSUME prog \in {"rgbload", "x68load"} PROVE RgbTypeOK
  <2>1. pc \in {"main", "ginit", "row", "dot", "keys", "end", "error", "fault"}
    BY <1>4 DEF PictureInv, RgbInv, RgbKept, RgbPhase, X68Inv, X68Kept, X68Phase
  <2>2. RgbTypes
    BY <1>4 DEF TypeInv
  <2>3. Len(line) <= in.w
    BY <2>2 DEF RgbTypes
  <2> QED
    BY <2>1, <2>2, <2>3, LitTells DEF RgbTypeOK
<1> QED
  BY <1>1, <1>2, <1>3, <1>4 DEF TypeOK

\* For any files and any screen: the readers of lines stay in their buffers, and what
\* a buffer has is in the file; the modes and the palettes are those the programs set;
\* the decoder of coded pictures stays in the file and its numbers in 16 bits; and the
\* light that waits to be passed on is never below none.
THEOREM GaTypesHold == Spec => []TypeOK
<1> DEFINE Inv == PictureInv /\ TypeInv
<1>1. Init => Inv
  BY PictureInit, TypeInit
<1>2. Inv /\ [Next]_vars => Inv'
  BY PictureStep, TypeStep
<1>3. Inv => TypeOK
  BY TypeTells
<1> QED
  BY <1>1, <1>2, <1>3, PTL DEF Spec

----------------------------------------------------------------------------
(* Light, for rgbload and x68load.                                         *)

\* A dot on the screen: for each colour where it is from and its level.
Dots(P) == [Colour -> P \X Nat]

IsLine(P, w, px) == \A x \in 1 .. w : px[x] \in Dots(P)

\* The light of a line, L[c][off] for a dot at off, and what is shown of it.
LineIn(L, w, c, px) == SumFunction([x \in 1 .. w |-> L[c][px[x][c][1]]])
LineOut(w, c, px) == SumFunction([x \in 1 .. w |-> Step * px[x][c][2]])

\* That of the lines of a screen.
ScreenIn(L, w, c, s) == SumFunction([k \in 1 .. Len(s) |-> LineIn(L, w, c, s[k].px)])
ScreenOut(w, c, s) == SumFunction([k \in 1 .. Len(s) |-> LineOut(w, c, s[k].px)])

\* The light of the line read, whose dots are at R[c][x].
RowIn(L, w, c, R) == SumFunction([x \in 1 .. w |-> L[c][R[c][x]]])

\* What is shown of a line under way, and what waits to the right.
Cells(w, c, l, a) == [x \in 1 .. w + 1 |-> IF x <= Len(l) THEN Step * l[x][c][2] ELSE a[c][x]]
CellSum(w, c, l, a) == SumFunction(Cells(w, c, l, a))

\* What waits below.
Below(w, c, a, b) == SumFunction([x \in 1 .. w |-> a[c][x] + b[c][x]])

\* The sums of a line are numbers.
LEMMA LineSums ==
  ASSUME NEW P, NEW L \in [Colour -> [P -> Nat]], NEW w \in Nat, NEW c \in Colour,
         NEW px, IsLine(P, w, px)
  PROVE  /\ LineIn(L, w, c, px) \in Int /\ LineOut(w, c, px) \in Int
         /\ \A x \in 1 .. w : px[x][c][1] \in P /\ px[x][c][2] \in Nat
<1>1. ASSUME NEW x \in 1 .. w PROVE px[x][c][1] \in P /\ px[x][c][2] \in Nat
  <2>1. px[x][c] \in P \X Nat
    BY DEF IsLine, Dots
  <2> QED
    BY <2>1
<1> DEFINE f == [x \in 1 .. w |-> L[c][px[x][c][1]]]
           g == [x \in 1 .. w |-> Step * px[x][c][2]]
<1>2. f \in [1 .. w -> Int]
  <2>1. ASSUME NEW x \in 1 .. w PROVE L[c][px[x][c][1]] \in Int
    <3> DEFINE p == px[x][c][1]
    <3>1. p \in P
      BY <1>1
    <3> HIDE DEF p
    <3>2. L[c][p] \in Nat
      BY <3>1
    <3> QED
      BY <3>2 DEF p
  <2> QED
    BY <2>1
<1>3. g \in [1 .. w -> Int]
  <2>1. ASSUME NEW x \in 1 .. w PROVE Step * px[x][c][2] \in Int
    <3> DEFINE n == px[x][c][2]
    <3>1. n \in Nat
      BY <1>1
    <3> HIDE DEF n
    <3>2. Step * n \in Int
      BY <3>1 DEF Step
    <3> QED
      BY <3>2 DEF n
  <2> QED
    BY <2>1
<1> HIDE DEF f, g
<1>4. SumFunction(f) \in Int /\ SumFunction(g) \in Int
  BY <1>2, <1>3, SumType
<1> QED
  BY <1>1, <1>4 DEF LineIn, LineOut, f, g

\* Nothing is shown of no lines.
LEMMA ScreenEmpty ==
  ASSUME NEW L, NEW w, NEW c
  PROVE  ScreenIn(L, w, c, <<>>) = 0 /\ ScreenOut(w, c, <<>>) = 0
<1> DEFINE f == [k \in 1 .. Len(<<>>) |-> LineIn(L, w, c, <<>>[k].px)]
           g == [k \in 1 .. Len(<<>>) |-> LineOut(w, c, <<>>[k].px)]
<1>1. f \in [1 .. 0 -> Int] /\ g \in [1 .. 0 -> Int]
  BY EmptyIsSequence
<1> HIDE DEF f, g
<1>2. SumFunction(f) = 0 /\ SumFunction(g) = 0
  BY <1>1, SumOfNone
<1> QED
  BY <1>2 DEF ScreenIn, ScreenOut, f, g

\* Lines on the screen.
AreLines(P, w, s) == IsSequence(s) /\ \A k \in 1 .. Len(s) : IsLine(P, w, s[k].px)

\* One line more.
OneMore(P, L, w, s, e, t) ==
  /\ L \in [Colour -> [P -> Nat]]
  /\ AreLines(P, w, s) /\ IsLine(P, w, e.px) /\ t = Append(s, e)

\* It has the light it has.
LEMMA ScreenAdds ==
  ASSUME NEW P, NEW L, NEW w \in Nat, NEW c \in Colour,
         NEW s, NEW e, NEW t, OneMore(P, L, w, s, e, t)
  PROVE  /\ ScreenIn(L, w, c, s) \in Int /\ ScreenOut(w, c, s) \in Int
         /\ ScreenIn(L, w, c, t) = ScreenIn(L, w, c, s) + LineIn(L, w, c, e.px)
         /\ ScreenOut(w, c, t) = ScreenOut(w, c, s) + LineOut(w, c, e.px)
<1> USE DEF OneMore, AreLines
<1> DEFINE n == Len(s)
<1>1. /\ n \in Nat /\ Len(t) = n + 1 /\ t[n + 1] = e
      /\ \A k \in 1 .. n : t[k] = s[k]
  BY Appended
<1>2. \A k \in 1 .. n + 1 : IsLine(P, w, t[k].px)
  <2> SUFFICES ASSUME NEW k \in 1 .. n + 1 PROVE IsLine(P, w, t[k].px)
    OBVIOUS
  <2>1. CASE k = n + 1
    BY <1>1, <2>1
  <2>2. CASE k # n + 1
    <3>1. k \in 1 .. n
      BY <1>1, <2>2
    <3> QED
      BY <1>1, <3>1
  <2> QED
    BY <2>1, <2>2
<1> DEFINE fs == [k \in 1 .. n |-> LineIn(L, w, c, s[k].px)]
           ft == [k \in 1 .. n + 1 |-> LineIn(L, w, c, t[k].px)]
           gs == [k \in 1 .. n |-> LineOut(w, c, s[k].px)]
           gt == [k \in 1 .. n + 1 |-> LineOut(w, c, t[k].px)]
<1>3. /\ \A k \in 1 .. n + 1 : LineIn(L, w, c, t[k].px) \in Int /\ LineOut(w, c, t[k].px) \in Int
      /\ \A k \in 1 .. n : LineIn(L, w, c, s[k].px) \in Int /\ LineOut(w, c, s[k].px) \in Int
  BY <1>2, LineSums
<1>4. /\ fs \in [1 .. n -> Int] /\ gs \in [1 .. n -> Int]
      /\ ft \in [1 .. n + 1 -> Int] /\ gt \in [1 .. n + 1 -> Int]
  BY <1>3
<1>5. /\ \A k \in 1 .. n : ft[k] = fs[k] /\ gt[k] = gs[k]
      /\ ft[n + 1] = LineIn(L, w, c, e.px) /\ gt[n + 1] = LineOut(w, c, e.px)
  BY <1>1
<1>6. /\ ScreenIn(L, w, c, s) = SumFunction(fs) /\ ScreenOut(w, c, s) = SumFunction(gs)
      /\ ScreenIn(L, w, c, t) = SumFunction(ft) /\ ScreenOut(w, c, t) = SumFunction(gt)
  BY <1>1 DEF ScreenIn, ScreenOut
<1> HIDE DEF fs, ft, gs, gt, n
<1>7. SumFunction(fs) \in Int /\ SumFunction(gs) \in Int
  BY <1>1, <1>4, SumType
<1>8. SumFunction(ft) = SumFunction(fs) + ft[n + 1]
  BY <1>1, <1>4, <1>5, SumOneMore
<1>9. SumFunction(gt) = SumFunction(gs) + gt[n + 1]
  BY <1>1, <1>4, <1>5, SumOneMore
<1> QED
  BY <1>5, <1>6, <1>7, <1>8, <1>9

\* What is under way has dots done and light for the others.
UnderWay(w, c, l, a) ==
  /\ IsSequence(l) /\ Len(l) <= w /\ a \in Lights(w)
  /\ \A x \in 1 .. Len(l) : l[x][c][2] \in Nat

\* The cells of a line under way are numbers.
LEMMA CellsType ==
  ASSUME NEW w \in Nat, NEW c \in Colour, NEW l, NEW a, UnderWay(w, c, l, a)
  PROVE  /\ Cells(w, c, l, a) \in [1 .. w + 1 -> Int] /\ CellSum(w, c, l, a) \in Int
         /\ Len(l) \in Nat /\ \A x \in 1 .. w + 1 : a[c][x] \in Nat
<1> DEFINE f == Cells(w, c, l, a)
<1>1. Len(l) \in Nat
  BY Appended DEF UnderWay
<1>2. \A x \in 1 .. w + 1 : a[c][x] \in Nat
  BY DEF UnderWay, Lights
<1>3. ASSUME NEW x \in 1 .. w + 1, x <= Len(l) PROVE Step * l[x][c][2] \in Int
  <2> DEFINE v == l[x][c][2]
  <2>1. x \in 1 .. Len(l)
    BY <1>1, <1>3
  <2>2. v \in Nat
    BY <2>1 DEF UnderWay
  <2> HIDE DEF v
  <2>3. Step * v \in Int
    BY <2>2 DEF Step
  <2> QED
    BY <2>3 DEF v
<1>4. f \in [1 .. w + 1 -> Int]
  <2>1. \A x \in 1 .. w + 1 : (IF x <= Len(l) THEN Step * l[x][c][2] ELSE a[c][x]) \in Int
    BY <1>2, <1>3
  <2> QED
    BY <2>1 DEF Cells
<1> HIDE DEF f
<1>5. w + 1 \in Nat
  OBVIOUS
<1>6. SumFunction(f) \in Int
  BY <1>4, <1>5, SumType
<1> QED
  BY <1>1, <1>2, <1>4, <1>6 DEF CellSum, f

\* What waits below is a number.
LEMMA BelowType ==
  ASSUME NEW w \in Nat, NEW c \in Colour, NEW a \in Lights(w), NEW b \in Lights(w)
  PROVE  Below(w, c, a, b) \in Int
<1> DEFINE f == [x \in 1 .. w |-> a[c][x] + b[c][x]]
<1>1. f \in [1 .. w -> Int]
  <2>1. ASSUME NEW x \in 1 .. w PROVE a[c][x] + b[c][x] \in Int
    <3>1. a[c][x] \in Nat /\ b[c][x] \in Nat
      BY DEF Lights
    <3> QED
      BY <3>1
  <2> QED
    BY <2>1
<1> HIDE DEF f
<1>2. SumFunction(f) \in Int
  BY <1>1, SumType
<1> QED
  BY <1>2 DEF Below, f

\* A line done shows what it shows, and leaves what waits past its end.
LEMMA CellsDone ==
  ASSUME NEW w \in Nat, NEW c \in Colour, NEW l, NEW a, UnderWay(w, c, l, a), Len(l) = w
  PROVE  CellSum(w, c, l, a) = LineOut(w, c, l) + a[c][w + 1]
<1> DEFINE f == [x \in 1 .. w |-> Step * l[x][c][2]]
           g == Cells(w, c, l, a)
<1>1. g \in [1 .. w + 1 -> Int]
  BY CellsType
<1>2. \A x \in 1 .. w : g[x] = f[x]
  BY DEF Cells
<1>3. g[w + 1] = a[c][w + 1]
  BY DEF Cells
<1>4. f \in [1 .. w -> Int]
  <2>1. \A x \in 1 .. w : f[x] \in Int
    BY <1>1, <1>2
  <2> QED
    BY <2>1
<1> HIDE DEF f, g
<1>5. SumFunction(g) = SumFunction(f) + g[w + 1]
  BY <1>1, <1>2, <1>4, SumOneMore
<1> QED
  BY <1>3, <1>5 DEF LineOut, CellSum, f, g

\* The light of a line is added to what the lines above left for it.
Added(w, c, a, b, value, e) ==
  /\ value \in [1 .. w -> Int] /\ e \in Lights(w)
  /\ \A x \in 1 .. w + 1 : e[c][x] = IF x <= w THEN b[c][x] + value[x] ELSE a[c][x]

\* A line begins with what waited for it and what it has itself.
LEMMA CellsBegin ==
  ASSUME NEW w \in Nat, NEW c \in Colour, NEW a \in Lights(w), NEW b \in Lights(w),
         NEW d \in Lights(w), NEW value, NEW e, Added(w, c, a, b, value, e)
  PROVE  /\ CellSum(w, c, <<>>, e) + Below(w, c, d, Dark(w))
              = Below(w, c, b, d) + a[c][w + 1] + SumFunction(value)
         /\ SumFunction(value) \in Int
<1> USE DEF Added
<1> DEFINE fb == [x \in 1 .. w |-> b[c][x]]
           fd == [x \in 1 .. w |-> d[c][x]]
           fbd == [x \in 1 .. w |-> b[c][x] + d[c][x]]
           fe == [x \in 1 .. w |-> b[c][x] + value[x]]
           fdd == [x \in 1 .. w |-> d[c][x] + Dark(w)[c][x]]
           cells == Cells(w, c, <<>>, e)
<1>1. \A x \in 1 .. w : b[c][x] \in Nat /\ d[c][x] \in Nat /\ Dark(w)[c][x] = 0
  BY SMTT(40) DEF Lights, Dark
<1>2. /\ fb \in [1 .. w -> Int] /\ fd \in [1 .. w -> Int] /\ fbd \in [1 .. w -> Int]
      /\ fe \in [1 .. w -> Int] /\ fdd \in [1 .. w -> Int]
  BY <1>1
<1>3. /\ \A x \in 1 .. w : fbd[x] = fb[x] + fd[x] /\ fe[x] = fb[x] + value[x]
      /\ fdd = fd
  BY <1>1
<1>4. UnderWay(w, c, <<>>, e)
  BY EmptyIsSequence DEF UnderWay
<1>5. cells \in [1 .. w + 1 -> Int] /\ a[c][w + 1] \in Nat
  BY <1>4, CellsType DEF Lights
<1>6. ASSUME NEW x \in 1 .. w + 1 PROVE cells[x] = e[c][x]
  BY <1>6, EmptyIsSequence DEF Cells
<1>7. (\A x \in 1 .. w : cells[x] = fe[x]) /\ cells[w + 1] = a[c][w + 1]
  BY <1>6
<1>8. /\ Below(w, c, b, d) = SumFunction(fbd) /\ Below(w, c, d, Dark(w)) = SumFunction(fdd)
      /\ CellSum(w, c, <<>>, e) = SumFunction(cells)
  BY DEF Below, CellSum
<1> HIDE DEF fb, fd, fbd, fe, fdd, cells
<1>9. SumFunction(cells) = SumFunction(fe) + cells[w + 1]
  BY <1>2, <1>5, <1>7, SumOneMore
<1>10. SumFunction(fe) = SumFunction(fb) + SumFunction(value)
  <2>1. fe \in [1 .. w -> Int] /\ fb \in [1 .. w -> Int]
    BY <1>2
  <2>2. \A x \in 1 .. w : fe[x] = fb[x] + value[x]
    BY <1>3
  <2> QED
    BY <2>1, <2>2, SumOfSums
<1>11. SumFunction(fbd) = SumFunction(fb) + SumFunction(fd)
  <2>1. fbd \in [1 .. w -> Int] /\ fb \in [1 .. w -> Int] /\ fd \in [1 .. w -> Int]
    BY <1>2
  <2>2. \A x \in 1 .. w : fbd[x] = fb[x] + fd[x]
    BY <1>3
  <2> QED
    BY <2>1, <2>2, SumOfSums
<1>12. SumFunction(fb) \in Int /\ SumFunction(fd) \in Int /\ SumFunction(value) \in Int
  BY <1>2, SumType
<1> QED
  BY <1>3, <1>5, <1>7, <1>8, <1>9, <1>10, <1>11, <1>12

\* The next dot is done, and gives r to the right: l becomes m, and a becomes e.
DotDone(w, c, l, a, x, dot, r, m, e) ==
  /\ UnderWay(w, c, l, a) /\ Len(l) < w /\ x = Len(l) + 1
  /\ dot[c][2] \in Nat /\ r \in Int /\ m = Append(l, dot) /\ e \in Lights(w)
  /\ \E q : e[c] = [a[c] EXCEPT ![x] = q, ![x + 1] = @ + r]

\* It shows its level instead of the light it had.
LEMMA CellsMove ==
  ASSUME NEW w \in Nat, NEW c \in Colour, NEW l, NEW a, NEW x, NEW dot, NEW r, NEW m, NEW e,
         DotDone(w, c, l, a, x, dot, r, m, e)
  PROVE  CellSum(w, c, m, e) = CellSum(w, c, l, a) + (Step * dot[c][2] - a[c][x]) + r
<1> USE DEF DotDone
<1> DEFINE v == Step * dot[c][2]
           f == Cells(w, c, l, a)
           h == [f EXCEPT ![x] = v]
           g == Cells(w, c, m, e)
           y == x + 1
<1>0. PICK q : e[c] = [a[c] EXCEPT ![x] = q, ![x + 1] = @ + r]
  OBVIOUS
<1>1. /\ IsSequence(m) /\ Len(m) = Len(l) + 1 /\ Len(l) \in Nat
      /\ \A z \in 1 .. Len(l) : m[z] = l[z]
      /\ m[x] = dot
  BY Appended DEF UnderWay
<1>2. x \in 1 .. w /\ x \in 1 .. w + 1 /\ y \in 1 .. w + 1 /\ x \in Nat /\ y # x /\ y > x
      /\ Len(m) = x
  BY <1>1
<1>3. f \in [1 .. w + 1 -> Int] /\ \A z \in 1 .. w + 1 : a[c][z] \in Nat
  BY CellsType
<1>4. v \in Int
  <2> DEFINE u == dot[c][2]
  <2>1. u \in Nat
    OBVIOUS
  <2> HIDE DEF u
  <2>2. Step * u \in Int
    BY <2>1 DEF Step
  <2> QED
    BY <2>2 DEF u
<1>5. UnderWay(w, c, m, e)
  <2>1. \A z \in 1 .. Len(m) : m[z][c][2] \in Nat
    <3> SUFFICES ASSUME NEW z \in 1 .. Len(m) PROVE m[z][c][2] \in Nat
      OBVIOUS
    <3>1. CASE z = x
      BY <1>1, <3>1
    <3>2. CASE z # x
      <4>1. z \in 1 .. Len(l)
        BY <1>1, <1>2, <3>2
      <4> QED
        BY <1>1, <4>1 DEF UnderWay
    <3> QED
      BY <3>1, <3>2
  <2> QED
    BY <1>1, <1>2, <2>1 DEF UnderWay
<1>6. g \in [1 .. w + 1 -> Int]
  BY <1>5, CellsType
<1>7. a[c] \in [1 .. w + 1 -> Nat]
  BY DEF UnderWay, Lights
<1>8. e[c][y] = a[c][y] + r /\ \A z \in 1 .. w + 1 : z # x /\ z # y => e[c][z] = a[c][z]
  <2> DEFINE b == a[c]
             d == [b EXCEPT ![x] = q]
  <2>1. b \in [1 .. w + 1 -> Nat] /\ DOMAIN b = 1 .. w + 1
    BY <1>7
  <2>2. e[c] = [d EXCEPT ![y] = d[y] + r]
    BY <1>0
  <2> HIDE DEF y, b
  <2>3. DOMAIN d = 1 .. w + 1 /\ d[y] = b[y] /\ \A z \in 1 .. w + 1 : z # x => d[z] = b[z]
    BY <1>2, <2>1
  <2> HIDE DEF d
  <2>4. e[c][y] = d[y] + r /\ \A z \in 1 .. w + 1 : z # y => e[c][z] = d[z]
    BY <1>2, <2>2, <2>3
  <2> QED
    BY <2>3, <2>4 DEF b
<1>9. h \in [1 .. w + 1 -> Int] /\ h[x] = v /\ \A z \in 1 .. w + 1 : z # x => h[z] = f[z]
  <2> HIDE DEF f, v
  <2> QED
    BY <1>2, <1>3, <1>4
<1>10. f[x] = a[c][x] /\ f[y] = a[c][y]
  BY <1>1, <1>2 DEF Cells
<1>11. g[y] = a[c][y] + r
  BY <1>2, <1>8 DEF Cells
<1>12. ASSUME NEW z \in 1 .. w + 1, z # y PROVE g[z] = h[z]
  <2>1. g[z] = IF z <= x THEN Step * m[z][c][2] ELSE e[c][z]
    BY <1>2 DEF Cells
  <2>2. f[z] = IF z <= Len(l) THEN Step * l[z][c][2] ELSE a[c][z]
    BY DEF Cells
  <2> HIDE DEF f, g, h
  <2>3. CASE z = x
    BY <1>1, <1>9, <2>1, <2>3
  <2>4. CASE z < x
    <3>1. z \in 1 .. Len(l) /\ z # x
      BY <1>1, <1>2, <2>4
    <3> QED
      BY <1>1, <1>9, <2>1, <2>2, <2>4, <3>1, SMTT(40)
  <2>5. CASE z > x
    <3>1. z # x /\ ~(z <= x) /\ ~(z <= Len(l))
      BY <1>1, <1>2, <2>5
    <3> QED
      BY <1>8, <1>9, <1>12, <2>1, <2>2, <3>1
  <2> QED
    BY <1>2, <2>3, <2>4, <2>5
<1> HIDE DEF f, g, h, y
<1>13. w + 1 \in Nat
  OBVIOUS
<1>14. SumFunction(h) = SumFunction(f) + (h[x] - f[x])
  <2>1. OnlyAt(x, w + 1, f, h)
    BY <1>2, <1>3, <1>9, <1>13 DEF OnlyAt
  <2> QED
    BY <2>1, SumUpdate
<1>15. SumFunction(g) = SumFunction(h) + (g[y] - h[y])
  <2>1. OnlyAt(y, w + 1, h, g)
    BY <1>2, <1>6, <1>9, <1>12, <1>13 DEF OnlyAt
  <2> QED
    BY <2>1, SumUpdate
<1>16. SumFunction(f) \in Int /\ SumFunction(h) \in Int
  BY <1>3, <1>9, <1>13, SumType
<1>17. a[c][x] \in Int /\ a[c][y] \in Int
  BY <1>2, <1>3, SMTT(40)
<1>18. h[x] = v /\ f[x] = a[c][x] /\ g[y] = a[c][y] + r /\ h[y] = a[c][y]
  BY <1>2, <1>9, <1>10, <1>11
<1> DEFINE ax == a[c][x]
           ay == a[c][y]
<1>19. SumFunction(g) = SumFunction(f) + (v - ax) + r
  <2> HIDE DEF v, ax, ay
  <2>1. ax \in Int /\ ay \in Int /\ h[x] = v /\ f[x] = ax /\ g[y] = ay + r /\ h[y] = ay
    BY <1>17, <1>18 DEF ax, ay
  <2> QED
    BY <1>4, <1>14, <1>15, <1>16, <2>1
<1> QED
  BY <1>19 DEF CellSum, f, g

\* What a dot gives to the one below it waits there.
LEMMA BelowMoves ==
  ASSUME NEW w \in Nat, NEW c \in Colour, NEW a \in Lights(w), NEW b \in Lights(w),
         NEW x \in 1 .. w, NEW r \in Int,
         NEW e \in Lights(w), e[c] = [a[c] EXCEPT ![x] = @ + r]
  PROVE  Below(w, c, e, b) = Below(w, c, a, b) + r
<1> DEFINE f == [z \in 1 .. w |-> a[c][z] + b[c][z]]
           g == [z \in 1 .. w |-> e[c][z] + b[c][z]]
<1>1. a[c] \in [1 .. w + 1 -> Nat] /\ b[c] \in [1 .. w + 1 -> Nat] /\ e[c] \in [1 .. w + 1 -> Nat]
  BY DEF Lights
<1>2. x \in 1 .. w + 1
  OBVIOUS
<1>3. e[c][x] = a[c][x] + r /\ \A z \in 1 .. w + 1 : z # x => e[c][z] = a[c][z]
  <2> DEFINE d == a[c]
  <2>1. d \in [1 .. w + 1 -> Nat] /\ e[c] = [d EXCEPT ![x] = d[x] + r]
    BY <1>1
  <2> HIDE DEF d
  <2>2. e[c][x] = d[x] + r /\ \A z \in 1 .. w + 1 : z # x => e[c][z] = d[z]
    BY <1>2, <2>1
  <2> QED
    BY <2>2 DEF d
<1>4. \A z \in 1 .. w : a[c][z] \in Nat /\ b[c][z] \in Nat /\ e[c][z] \in Nat
  BY <1>1, SMTT(40)
<1>5. f \in [1 .. w -> Int] /\ g \in [1 .. w -> Int]
  BY <1>4
<1>6. /\ \A z \in 1 .. w : z # x => g[z] = f[z]
      /\ g[x] = e[c][x] + b[c][x] /\ f[x] = a[c][x] + b[c][x]
  BY <1>3
<1> HIDE DEF f, g
<1>7. SumFunction(g) = SumFunction(f) + (g[x] - f[x])
  <2>1. OnlyAt(x, w, f, g)
    BY <1>5, <1>6 DEF OnlyAt
  <2> QED
    BY <2>1, SumUpdate
<1>8. SumFunction(f) \in Int
  BY <1>5, SumType
<1>9. SumFunction(g) = SumFunction(f) + r
  <2> DEFINE p == a[c][x]
             o == b[c][x]
  <2>1. p \in Int /\ o \in Int
    BY <1>4
  <2>2. g[x] = p + r + o /\ f[x] = p + o
    BY <1>3, <1>6
  <2> HIDE DEF p, o
  <2> QED
    BY <1>7, <1>8, <2>1, <2>2
<1> QED
  BY <1>9 DEF Below, f, g

\* Where the dots of a file are: one of two bytes has both in the file.
Places ==
  {Never} \cup {off \in 0 .. Len(in.data) - 1 : prog = "x68load" => off + 1 < Len(in.data)}

\* The light of the dot at a place.
FileLight ==
  [c \in Colour |-> [off \in Places |->
     IF off = Never THEN 0
     ELSE IF prog = "rgbload" THEN in.data[off + 1] ELSE 8 * X68Value(c, off)]]

\* Where the dots of the line just read are.
RowPlaces ==
  [c \in Colour |-> [x \in 1 .. in.w |->
     rd.buff[IF prog = "rgbload" THEN RgbPlace(c, x) ELSE X68Place(c, x)]]]

\* The light that is lost when lines are done, or dots of one are.
RowsLost(c) ==
  ScreenIn(FileLight, in.w, c, screen) - ScreenOut(in.w, c, screen)
    - (Below(in.w, c, av2, av3) + av1[c][in.w + 1])
DotsLost(c) ==
  ScreenIn(FileLight, in.w, c, screen) + RowIn(FileLight, in.w, c, RowPlaces)
    - ScreenOut(in.w, c, screen) - (CellSum(in.w, c, line, av1) + Below(in.w, c, av2, av3))

\* At most three parts are lost for each dot of n lines of w.
Loss(w, n) == 3 * w * n

LinesOnScreen == AreLines(Places, in.w, screen)

\* Dots made by diffusion have no more light than those of the file, and hardly less.
Diffused ==
  /\ LinesOnScreen
  /\ pc \in {"row", "keys", "end"} =>
       \A c \in Colour : RowsLost(c) \in 0 .. Loss(in.w, Len(screen))
  /\ pc = "dot" =>
       /\ \A x \in 1 .. Len(line) : line[x] \in Dots(Places)
       /\ RowPlaces \in [Colour -> [1 .. in.w -> Places]]
       /\ \A x \in 1 .. Len(line) : \A c \in Colour : line[x][c][1] = RowPlaces[c][x]
       /\ \A c \in Colour : DotsLost(c) \in 0 .. Loss(in.w, Len(screen)) + 3 * Len(line)

\* The most that may be lost.
LEMMA LossNext ==
  ASSUME NEW w \in Nat, NEW n \in Nat
  PROVE  Loss(w, n) \in Nat /\ Loss(w, n + 1) = Loss(w, n) + 3 * w /\ Loss(w, 0) = 0
<1> DEFINE m == 3 * w
<1>1. m \in Nat
  OBVIOUS
<1> HIDE DEF m
<1>2. m * n \in Nat /\ m * (n + 1) = m * n + m /\ m * 0 = 0
  BY <1>1
<1> QED
  BY <1>2 DEF Loss, m

\* The light of a file's dots is a number of parts.
LEMMA FileLightType ==
  ASSUME in.data \in Seq(0 .. 255), prog \in {"rgbload", "x68load"}
  PROVE  FileLight \in [Colour -> [Places -> Nat]]
<1>1. ASSUME NEW c \in Colour, NEW off \in Places, off # Never
      PROVE  (IF prog = "rgbload" THEN in.data[off + 1] ELSE 8 * X68Value(c, off)) \in Nat
  <2>1. off \in 0 .. Len(in.data) - 1 /\ (prog = "x68load" => off + 1 < Len(in.data))
    BY <1>1 DEF Places
  <2>2. in.data[off + 1] \in 0 .. 255
    BY <2>1, FileBytes
  <2>3. ASSUME prog = "x68load" PROVE 8 * X68Value(c, off) \in Nat
    <3>1. off + 1 \in 0 .. Len(in.data) - 1 /\ (off + 1) + 1 = off + 2
      BY <2>1, <2>3, FileBytes
    <3>2. in.data[off + 2] \in 0 .. 255
      BY <3>1, FileBytes
    <3> DEFINE a == in.data[off + 1]
               b == in.data[off + 2]
               v == X68Value(c, off)
    <3>3. v = Field(c, 256 * a + b)
      BY DEF X68Value
    <3>4. a \in 0 .. 255 /\ b \in 0 .. 255
      BY <2>2, <3>2, SMTT(40)
    <3> HIDE DEF a, b, v
    <3>5. v \in 0 .. 31
      BY <3>3, <3>4, FieldRange, ZenonT(60)
    <3>6. 8 * v \in Nat
      BY <3>5
    <3> QED
      BY <3>6 DEF v
  <2>4. in.data[off + 1] \in Nat
    <3> DEFINE a == in.data[off + 1]
    <3>1. a \in 0 .. 255
      BY <2>2
    <3> HIDE DEF a
    <3>2. a \in Nat
      BY <3>1
    <3> QED
      BY <3>2 DEF a
  <2> QED
    BY <2>3, <2>4
<1> QED
  BY <1>1 DEF FileLight

\* What a step that leaves the file and the program as they are leaves true.
LEMMA LightFrame ==
  ASSUME UNCHANGED <<in, prog>>
  PROVE  Places' = Places /\ FileLight' = FileLight
<1>1. Places' = Places
  BY DEF Places
<1>2. \A c, off : X68Value(c, off)' = X68Value(c, off)
  BY DEF X68Value
<1> QED
  BY <1>1, <1>2 DEF FileLight

\* The sums of a screen are numbers.
LEMMA ScreenSums ==
  ASSUME NEW P, NEW L, L \in [Colour -> [P -> Nat]], NEW w \in Nat, NEW c \in Colour,
         NEW s, AreLines(P, w, s), NEW p \in P
  PROVE  ScreenIn(L, w, c, s) \in Int /\ ScreenOut(w, c, s) \in Int
<1> DEFINE dot == [d \in Colour |-> <<p, 0>>]
           e == [px |-> [x \in 1 .. w |-> dot]]
<1>1. dot \in Dots(P)
  BY DEF Dots
<1> HIDE DEF dot
<1>2. IsLine(P, w, e.px)
  BY <1>1 DEF IsLine
<1>3. OneMore(P, L, w, s, e, Append(s, e))
  BY <1>2 DEF OneMore
<1> HIDE DEF e
<1> QED
  BY <1>3, ScreenAdds

\* The sums of the state are numbers.
LEMMA LightSums ==
  ASSUME in.w \in Nat, in.data \in Seq(0 .. 255), prog \in {"rgbload", "x68load"},
         LinesOnScreen, Lit(in.w), NEW c \in Colour
  PROVE  /\ ScreenIn(FileLight, in.w, c, screen) \in Int /\ ScreenOut(in.w, c, screen) \in Int
         /\ Below(in.w, c, av2, av3) \in Int /\ av1[c][in.w + 1] \in Nat
         /\ Len(screen) \in Nat /\ Loss(in.w, Len(screen)) \in Nat
         /\ av1 \in Lights(in.w) /\ av2 \in Lights(in.w) /\ av3 \in Lights(in.w)
<1>1. av1 \in Lights(in.w) /\ av2 \in Lights(in.w) /\ av3 \in Lights(in.w)
  BY DarkType DEF Lit
<1>2. av1[c][in.w + 1] \in Nat /\ Below(in.w, c, av2, av3) \in Int
  <2>1. in.w + 1 \in 1 .. in.w + 1
    OBVIOUS
  <2>2. av1[c] \in [1 .. in.w + 1 -> Nat]
    BY <1>1 DEF Lights
  <2>3. Below(in.w, c, av2, av3) \in Int
    BY <1>1, BelowType
  <2> QED
    BY <2>1, <2>2, <2>3
<1>3. FileLight \in [Colour -> [Places -> Nat]] /\ Never \in Places
  BY FileLightType DEF Places
<1>4. AreLines(Places, in.w, screen) /\ IsSequence(screen)
  BY DEF LinesOnScreen, AreLines
<1>5. ScreenIn(FileLight, in.w, c, screen) \in Int /\ ScreenOut(in.w, c, screen) \in Int
  <2> DEFINE L == FileLight  P == Places
  <2>1. L \in [Colour -> [P -> Nat]] /\ Never \in P
    BY <1>3
  <2> HIDE DEF L, P
  <2>2. ScreenIn(L, in.w, c, screen) \in Int /\ ScreenOut(in.w, c, screen) \in Int
    BY <1>4, <2>1, ScreenSums DEF P
  <2> QED
    BY <2>2 DEF L
<1>6. Len(screen) \in Nat
  BY <1>4, Appended
<1>7. Loss(in.w, Len(screen)) \in Nat
  BY <1>6, LossNext
<1> QED
  BY <1>1, <1>2, <1>5, <1>6, <1>7

\* Steps that draw nothing and leave the light as it is.
LEMMA LightQuiet ==
  ASSUME Diffused, UNCHANGED <<in, prog, screen, av1, av2, av3>>,
         pc' # "dot", pc' \in {"row", "keys", "end"} => pc \in {"row", "keys", "end"}
  PROVE  Diffused'
<1>1. Places' = Places /\ FileLight' = FileLight
  BY LightFrame
<1>2. LinesOnScreen'
  BY <1>1 DEF Diffused, LinesOnScreen, AreLines
<1>3. ASSUME NEW c \in Colour PROVE RowsLost(c)' = RowsLost(c)
  BY <1>1 DEF RowsLost
<1> QED
  BY <1>2, <1>3 DEF Diffused

\* Nothing waits where it is dark.
LEMMA DarkBelow ==
  ASSUME NEW w \in Nat, NEW c \in Colour
  PROVE  Below(w, c, Dark(w), Dark(w)) = 0 /\ Dark(w)[c][w + 1] = 0
<1> DEFINE f == [x \in 1 .. w |-> Dark(w)[c][x] + Dark(w)[c][x]]
<1>1. \A x \in 1 .. w + 1 : Dark(w)[c][x] = 0
  BY DEF Dark
<1>2. f \in [1 .. w -> Int] /\ \A x \in 1 .. w : f[x] = 0
  BY <1>1
<1> HIDE DEF f
<1>3. SumFunction(f) = 0
  BY <1>2, SumOfNoughts
<1> QED
  BY <1>1, <1>3 DEF Below, f

\* The screen is set.
LEMMA LightGinit ==
  ASSUME in.w \in Nat, UNCHANGED <<in, prog>>, screen' = <<>>, pc' = "row",
         av1' = Dark(in.w), av2' = Dark(in.w), av3' = Dark(in.w)
  PROVE  Diffused'
<1>1. Len(screen') = 0 /\ IsSequence(screen')
  BY EmptyIsSequence
<1>2. LinesOnScreen'
  BY <1>1 DEF LinesOnScreen, AreLines
<1>3. ASSUME NEW c \in Colour PROVE RowsLost(c)' = 0
  <2>1. ScreenIn(FileLight', in.w, c, screen') = 0 /\ ScreenOut(in.w, c, screen') = 0
    BY ScreenEmpty
  <2>2. Below(in.w, c, av2', av3') = 0 /\ av1'[c][in.w + 1] = 0
    BY DarkBelow
  <2> QED
    BY <2>1, <2>2 DEF RowsLost
<1>4. Loss(in.w, 0) = 0
  BY LossNext
<1> QED
  BY <1>1, <1>2, <1>3, <1>4 DEF Diffused

\* A line is read, and added to what waited for it.
LEMMA LightLine ==
  ASSUME in.w \in Nat, in.data \in Seq(0 .. 255), prog \in {"rgbload", "x68load"},
         Lit(in.w), Diffused, pc = "row", pc' = "dot", line' = <<>>,
         UNCHANGED <<in, prog, screen>>,
         RowPlaces' \in [Colour -> [1 .. in.w -> Places]],
         RgbAdd([c \in Colour |-> [x \in 1 .. in.w |-> FileLight[c][RowPlaces'[c][x]]]])
  PROVE  Diffused'
<1> DEFINE w == in.w
           R == RowPlaces'
           L == FileLight
           value == [c \in Colour |-> [x \in 1 .. w |-> L[c][R[c][x]]]]
<1>1. Places' = Places /\ FileLight' = FileLight
  BY LightFrame
<1>2. LinesOnScreen /\ LinesOnScreen' /\ Len(line') = 0
  BY <1>1, EmptyIsSequence DEF Diffused, LinesOnScreen, AreLines
<1>3. L \in [Colour -> [Places -> Nat]]
  BY FileLightType
<1>4. \A c \in Colour : value[c] \in [1 .. w -> Int]
  <2>1. ASSUME NEW c \in Colour, NEW x \in 1 .. w PROVE L[c][R[c][x]] \in Int
    <3> DEFINE p == R[c][x]
    <3>1. p \in Places
      OBVIOUS
    <3> HIDE DEF p, L
    <3>2. L[c][p] \in Nat
      BY <1>3, <3>1
    <3> QED
      BY <3>2 DEF p
  <2> QED
    BY <2>1
<1>5. RgbAdd(value) /\ \A c \in Colour : \A x \in 1 .. w : value[c][x] \in Nat
  <2>1. ASSUME NEW c \in Colour, NEW x \in 1 .. w PROVE value[c][x] \in Nat
    <3> DEFINE p == R[c][x]
    <3>1. p \in Places /\ value[c][x] = L[c][p]
      OBVIOUS
    <3> HIDE DEF p, L, value
    <3>2. L[c][p] \in Nat
      BY <1>3, <3>1
    <3> QED
      BY <3>1, <3>2
  <2> QED
    BY <2>1
<1>6. \A c \in Colour : SumFunction(value[c]) = RowIn(L, w, c, R)
  BY DEF RowIn
<1> HIDE DEF value, R, L
<1>7. av1' \in Lights(w) /\ av2' = av3 /\ av3' = Dark(w)
  BY <1>5, AddedType DEF RgbAdd
<1>8. \A c \in Colour : \A x \in 1 .. w + 1 :
        av1'[c][x] = IF x <= w THEN av2[c][x] + value[c][x] ELSE av1[c][x]
  BY <1>5, ZenonT(60) DEF RgbAdd
<1>9. ASSUME NEW c \in Colour PROVE DotsLost(c)' = RowsLost(c)
  <2>1. /\ ScreenIn(FileLight, w, c, screen) \in Int /\ ScreenOut(w, c, screen) \in Int
        /\ Below(w, c, av2, av3) \in Int /\ av1[c][w + 1] \in Nat
        /\ av1 \in Lights(w) /\ av2 \in Lights(w) /\ av3 \in Lights(w)
    BY <1>2, LightSums
  <2>2. \A x \in 1 .. w + 1 : av1'[c][x] = IF x <= w THEN av2[c][x] + value[c][x] ELSE av1[c][x]
    BY <1>8
  <2> DEFINE v == value[c]
  <2>3. v \in [1 .. w -> Int] /\ SumFunction(v) = RowIn(L, w, c, R)
        /\ \A x \in 1 .. w + 1 : av1'[c][x] = IF x <= w THEN av2[c][x] + v[x] ELSE av1[c][x]
    BY <1>4, <1>6, <2>2
  <2> HIDE DEF v
  <2>4. /\ CellSum(w, c, <<>>, av1') + Below(w, c, av3, Dark(w))
              = Below(w, c, av2, av3) + av1[c][w + 1] + SumFunction(v)
        /\ SumFunction(v) \in Int
    <3> DEFINE a == av1
               b == av2
               d == av3
               e == av1'
    <3>1. /\ w \in Nat /\ c \in Colour
          /\ a \in Lights(w) /\ b \in Lights(w) /\ d \in Lights(w)
      BY <2>1
    <3>2. Added(w, c, a, b, v, e)
      BY <1>7, <2>3 DEF Added
    <3> HIDE DEF a, b, d, e, w
    <3>3. /\ CellSum(w, c, <<>>, e) + Below(w, c, d, Dark(w))
                = Below(w, c, b, d) + a[c][w + 1] + SumFunction(v)
          /\ SumFunction(v) \in Int
      BY <3>1, <3>2, CellsBegin
    <3> QED
      BY <3>3 DEF a, b, d, e, w
  <2>5. CellSum(w, c, line', av1') + Below(w, c, av2', av3')
              = Below(w, c, av2, av3) + av1[c][w + 1] + RowIn(L, w, c, R)
        /\ RowIn(L, w, c, R) \in Int
    BY <1>7, <2>3, <2>4
  <2>6. DotsLost(c)' = ScreenIn(L, w, c, screen) + RowIn(L, w, c, R)
          - ScreenOut(w, c, screen) - (CellSum(w, c, line', av1') + Below(w, c, av2', av3'))
    BY <1>1 DEF DotsLost, L, R
  <2>7. RowsLost(c) = ScreenIn(L, w, c, screen) - ScreenOut(w, c, screen)
          - (Below(w, c, av2, av3) + av1[c][w + 1])
    BY DEF RowsLost, L
  <2> QED
    BY <2>1, <2>5, <2>6, <2>7 DEF L
<1>10. \A c \in Colour : RowsLost(c) \in 0 .. Loss(w, Len(screen))
  BY DEF Diffused
<1>11. Loss(w, Len(screen)) \in Nat
  <2>1. Len(screen) \in Nat
    BY <1>2, Appended DEF LinesOnScreen, AreLines
  <2> QED
    BY <2>1, LossNext
<1>12. \A c \in Colour : DotsLost(c)' \in 0 .. Loss(w, Len(screen)) + 3 * Len(line')
  BY <1>2, <1>9, <1>10, <1>11
<1> QED
  BY <1>1, <1>2, <1>12 DEF Diffused

\* A dot is done: what it drops is lost, at most three parts of each colour.
LEMMA LightDot ==
  ASSUME in.w \in Nat, in.data \in Seq(0 .. 255), prog \in {"rgbload", "x68load"},
         Lit(in.w), IsSequence(line), Diffused, prog' = prog,
         NEW place, Diffuse(place),
         \A c \in Colour : \A x \in 1 .. in.w : rd.buff[place[c][x]] = RowPlaces[c][x]
  PROVE  Diffused'
<1> DEFINE w == in.w
           R == RowPlaces
           x == Len(line) + 1
           left(c) == av1[c][x] - Step * Level(av1[c][x])
           dot == [c \in Colour |-> <<rd.buff[place[c][x]], Level(av1[c][x])>>]
           most == Loss(w, Len(screen)) + 3 * Len(line)
<1>1. /\ Places' = Places /\ FileLight' = FileLight
      /\ pc = "dot" /\ pc' = "dot" /\ UNCHANGED <<in, rd, screen, av3>> /\ Len(line) < w
  BY LightFrame DEF Diffuse
<1>2. R' = R
  BY <1>1 DEF RowPlaces, RgbPlace, X68Place
<1>3. PICK rand \in 0 .. 3 :
        /\ av1' = [c \in Colour |->
                     [av1[c] EXCEPT ![x] = left(c), ![x + 1] = @ + ShareRight(left(c), rand)]]
        /\ av2' = [c \in Colour |-> [av2[c] EXCEPT ![x] = @ + ShareDown(left(c), rand)]]
        /\ line' = Append(line, dot)
  BY DEF Diffuse
<1>4. /\ LinesOnScreen
      /\ \A z \in 1 .. Len(line) : line[z] \in Dots(Places)
      /\ R \in [Colour -> [1 .. w -> Places]]
      /\ \A z \in 1 .. Len(line) : \A c \in Colour : line[z][c][1] = R[c][z]
      /\ \A c \in Colour : DotsLost(c) \in 0 .. most
  BY <1>1 DEF Diffused
<1>5. /\ Len(line) \in Nat /\ Len(line') = Len(line) + 1 /\ x \in 1 .. w
      /\ \A z \in 1 .. Len(line) : line'[z] = line[z]
      /\ line'[x] = dot
  <2>1. /\ Len(line) \in Nat /\ Len(Append(line, dot)) = Len(line) + 1
        /\ \A z \in 1 .. Len(line) : Append(line, dot)[z] = line[z]
        /\ Append(line, dot)[Len(line) + 1] = dot
    <3> HIDE DEF dot
    <3> QED
      BY Appended
  <2> HIDE DEF dot
  <2> QED
    BY <1>1, <1>3, <2>1
<1>6. /\ av1' \in Lights(w) /\ av2' \in Lights(w)
      /\ av1 \in Lights(w) /\ av2 \in Lights(w) /\ av3 \in Lights(w)
  BY DiffusedType, DarkType DEF Lit
<1>7. ASSUME NEW c \in Colour
      PROVE  /\ dot[c][1] = R[c][x] /\ dot[c][2] = Level(av1[c][x]) /\ av1[c][x] \in Nat
             /\ dot[c] \in Places \X Nat
             /\ left(c) \in Nat /\ ShareRight(left(c), rand) \in Nat
             /\ ShareDown(left(c), rand) \in Nat
             /\ left(c) - ShareRight(left(c), rand) - ShareDown(left(c), rand) \in 0 .. 3
  <2> DEFINE v == av1[c][x]
             p == R[c][x]
  <2>1. v \in Nat
    <3>1. av1[c] \in [1 .. w + 1 -> Nat] /\ x \in 1 .. w + 1
      BY <1>5, <1>6 DEF Lights
    <3> QED
      BY <3>1
  <2>2. p \in Places
    BY <1>4, <1>5
  <2>3. dot[c] = <<p, Level(v)>>
    BY <1>5
  <2>4. left(c) = v - Step * Level(v)
    OBVIOUS
  <2> HIDE DEF v, p, left, dot
  <2>5. LET l == v - Step * Level(v)
        IN  /\ Level(v) \in Nat /\ l \in Nat /\ ShareRight(l, rand) \in Nat
            /\ ShareDown(l, rand) \in Nat /\ l - ShareRight(l, rand) - ShareDown(l, rand) \in 0 .. 3
    BY <2>1, SharesOfLeft
  <2>6. dot[c][1] = p /\ dot[c][2] = Level(v) /\ dot[c] \in Places \X Nat
    BY <2>2, <2>3, <2>5
  <2> QED
    BY <2>1, <2>4, <2>5, <2>6 DEF v, p
<1>8. dot \in Dots(Places)
  BY <1>7 DEF Dots
<1>9. /\ \A z \in 1 .. Len(line') : line'[z] \in Dots(Places)
      /\ \A z \in 1 .. Len(line') : \A c \in Colour : line'[z][c][1] = R[c][z]
  <2> SUFFICES ASSUME NEW z \in 1 .. Len(line')
               PROVE  line'[z] \in Dots(Places) /\ \A c \in Colour : line'[z][c][1] = R[c][z]
    OBVIOUS
  <2>1. CASE z = x
    <3> HIDE DEF dot
    <3> QED
      BY <1>5, <1>7, <1>8, <2>1
  <2>2. CASE z # x
    <3>1. z \in 1 .. Len(line)
      BY <1>5, <2>2
    <3> HIDE DEF dot
    <3> QED
      BY <1>4, <1>5, <3>1
  <2> QED
    BY <2>1, <2>2
<1> HIDE DEF dot, left, R
<1>10. ASSUME NEW c \in Colour
       PROVE  DotsLost(c)' = DotsLost(c)
                + (left(c) - ShareRight(left(c), rand) - ShareDown(left(c), rand))
  <2> DEFINE q == left(c)
             right == ShareRight(left(c), rand)
             down == ShareDown(left(c), rand)
             a == av1
             b == av2
             d == av3
             e == av1'
             f == av2'
             cells == CellSum(w, c, line, a)
             below == Below(w, c, b, d)
  <2>1. /\ a \in Lights(w) /\ b \in Lights(w) /\ d \in Lights(w) /\ e \in Lights(w)
        /\ f \in Lights(w)
        /\ e[c] = [a[c] EXCEPT ![x] = q, ![x + 1] = @ + right]
        /\ f[c] = [b[c] EXCEPT ![x] = @ + down]
    BY <1>3, <1>6
  <2>2. q \in Int /\ right \in Int /\ down \in Int /\ q = a[c][x] - Step * dot[c][2]
        /\ dot[c][2] \in Nat /\ a[c][x] \in Nat
    <3>1. dot[c] \in Places \X Nat
      BY <1>7
    <3> QED
      BY <1>7, <3>1 DEF left
  <2>3. UnderWay(w, c, line, a)
    <3>1. ASSUME NEW z \in 1 .. Len(line) PROVE line[z][c][2] \in Nat
      <4>1. line[z][c] \in Places \X Nat
        BY <1>4 DEF Dots
      <4> QED
        BY <4>1
    <3> QED
      BY <1>1, <1>6, <3>1 DEF UnderWay
  <2>4. cells \in Int
    BY <2>3, CellsType
  <2>5. below \in Int
    BY <2>1, BelowType
  <2>6. /\ ScreenIn(FileLight, w, c, screen) \in Int /\ ScreenOut(w, c, screen) \in Int
    BY <1>4, LightSums
  <2>7. RowIn(FileLight, w, c, R) \in Int
    <3> DEFINE L == FileLight
               g == [z \in 1 .. w |-> L[c][R[c][z]]]
    <3>1. L \in [Colour -> [Places -> Nat]]
      BY FileLightType
    <3> HIDE DEF L
    <3>2. ASSUME NEW z \in 1 .. w PROVE L[c][R[c][z]] \in Int
      <4> DEFINE p == R[c][z]
      <4>1. p \in Places
        BY <1>4
      <4> HIDE DEF p
      <4>2. L[c][p] \in Nat
        BY <3>1, <4>1
      <4> QED
        BY <4>2 DEF p
    <3>3. g \in [1 .. w -> Int]
      BY <3>2
    <3> HIDE DEF g
    <3>4. SumFunction(g) \in Int
      BY <3>3, SumType
    <3> QED
      BY <3>4 DEF RowIn, g, L
  <2>8. CellSum(w, c, Append(line, dot), e) = cells + (Step * dot[c][2] - a[c][x]) + right
    <3> HIDE DEF a, b, d, e, f, q, right, down
    <3> DEFINE m == Append(line, dot)
    <3>1. w \in Nat /\ c \in Colour /\ DotDone(w, c, line, a, x, dot, right, m, e)
      BY <1>1, <2>1, <2>2, <2>3 DEF DotDone
    <3> HIDE DEF x, w, m
    <3>2. CellSum(w, c, m, e) = CellSum(w, c, line, a) + (Step * dot[c][2] - a[c][x]) + right
      BY <3>1, CellsMove
    <3> QED
      BY <3>2 DEF cells, m
  <2>9. Below(w, c, f, d) = below + down
    <3> HIDE DEF a, b, d, e, f, q, right, down
    <3>1. /\ w \in Nat /\ c \in Colour /\ b \in Lights(w) /\ d \in Lights(w) /\ x \in 1 .. w
          /\ down \in Int /\ f \in Lights(w) /\ f[c] = [b[c] EXCEPT ![x] = @ + down]
      BY <1>5, <2>1, <2>2
    <3> HIDE DEF x, w
    <3> QED
      BY <3>1, BelowMoves
  <2>10. DotsLost(c)' = ScreenIn(FileLight, w, c, screen) + RowIn(FileLight, w, c, R)
           - ScreenOut(w, c, screen) - (CellSum(w, c, Append(line, dot), e) + Below(w, c, f, d))
    <3>1. R' = RowPlaces' /\ UNCHANGED <<in, screen, av3>>
      BY <1>1 DEF R
    <3> HIDE DEF x
    <3> QED
      BY <1>1, <1>2, <1>3, <3>1 DEF DotsLost
  <2>11. DotsLost(c) = ScreenIn(FileLight, w, c, screen) + RowIn(FileLight, w, c, R)
           - ScreenOut(w, c, screen) - (cells + below)
    BY DEF DotsLost, R
  <2> DEFINE n == Step * dot[c][2]
             v == a[c][x]
             moved == CellSum(w, c, Append(line, dot), e)
             under == Below(w, c, f, d)
             given == ScreenIn(FileLight, w, c, screen)
             shown == ScreenOut(w, c, screen)
             more == RowIn(FileLight, w, c, R)
             old == DotsLost(c)
             new == DotsLost(c)'
  <2>12. /\ n \in Int /\ v \in Int /\ q = v - n
         /\ moved = cells + (n - v) + right /\ under = below + down
         /\ new = given + more - shown - (moved + under)
         /\ old = given + more - shown - (cells + below)
    BY <2>2, <2>8, <2>9, <2>10, <2>11 DEF Step
  <2>13. /\ given \in Int /\ shown \in Int /\ more \in Int /\ cells \in Int /\ below \in Int
         /\ q \in Int /\ right \in Int /\ down \in Int
    BY <2>2, <2>4, <2>5, <2>6, <2>7
  <2> HIDE DEF q, right, down, cells, below, n, v, moved, under, given, shown, more, old, new
  <2>14. new = old + (q - right - down)
    BY <2>12, <2>13
  <2> QED
    BY <2>14 DEF q, right, down, old, new
<1>11. most \in Nat /\ Loss(w, Len(screen)) + 3 * Len(line') = most + 3
  <2>1. Len(screen) \in Nat
    BY <1>4, Appended DEF LinesOnScreen, AreLines
  <2>2. Loss(w, Len(screen)) \in Nat
    BY <2>1, LossNext
  <2> QED
    BY <1>5, <2>2
<1>12. \A c \in Colour : DotsLost(c)' \in 0 .. Loss(w, Len(screen)) + 3 * Len(line')
  <2> SUFFICES ASSUME NEW c \in Colour
               PROVE  DotsLost(c)' \in 0 .. Loss(w, Len(screen)) + 3 * Len(line')
    OBVIOUS
  <2> DEFINE drop == left(c) - ShareRight(left(c), rand) - ShareDown(left(c), rand)
             old == DotsLost(c)
             new == DotsLost(c)'
  <2>1. drop \in 0 .. 3 /\ old \in 0 .. most /\ new = old + drop
    BY <1>4, <1>7, <1>10
  <2> HIDE DEF drop, old, new, most
  <2>2. new \in 0 .. most + 3
    BY <1>11, <2>1
  <2> QED
    BY <1>11, <2>2 DEF new
<1>13. LinesOnScreen'
  BY <1>1, <1>4 DEF LinesOnScreen, AreLines
<1>14. RowPlaces' \in [Colour -> [1 .. w -> Places]] /\ RowPlaces' = R
  BY <1>2, <1>4 DEF R
<1> QED
  BY <1>1, <1>9, <1>12, <1>13, <1>14 DEF Diffused

\* A line is shown, and what its dots passed on waits.
LEMMA LightShow ==
  ASSUME in.w \in Nat, in.data \in Seq(0 .. 255), prog \in {"rgbload", "x68load"},
         Lit(in.w), IsSequence(line), Diffused, pc = "dot", pc' = "row", Len(line) = in.w,
         UNCHANGED <<in, prog, rgbVars>>, Draw(0, row, line)
  PROVE  Diffused'
<1> DEFINE w == in.w
           e == [x |-> 0, y |-> row, px |-> line]
           L == FileLight
           P == Places
<1>1. Places' = Places /\ FileLight' = FileLight /\ screen' = Append(screen, e)
      /\ UNCHANGED <<av1, av2, av3>>
  BY LightFrame DEF Draw, rgbVars
<1>2. /\ IsSequence(screen) /\ \A k \in 1 .. Len(screen) : IsLine(P, w, screen[k].px)
      /\ IsLine(P, w, e.px)
      /\ \A z \in 1 .. w : \A c \in Colour : line[z][c][1] = RowPlaces[c][z]
      /\ \A c \in Colour : DotsLost(c) \in 0 .. Loss(w, Len(screen)) + 3 * w
  BY DEF Diffused, LinesOnScreen, AreLines, IsLine
<1>3. L \in [Colour -> [P -> Nat]]
  BY FileLightType
<1>4. /\ IsSequence(screen') /\ Len(screen') = Len(screen) + 1 /\ Len(screen) \in Nat
      /\ \A k \in 1 .. Len(screen) : screen'[k] = screen[k]
      /\ screen'[Len(screen) + 1] = e
  <2> HIDE DEF e
  <2> QED
    BY <1>1, <1>2, Appended
<1>5. LinesOnScreen'
  <2> SUFFICES ASSUME NEW k \in 1 .. Len(screen') PROVE IsLine(P, w, screen'[k].px)
    BY <1>1, <1>4 DEF LinesOnScreen, AreLines
  <2>1. CASE k = Len(screen) + 1
    BY <1>2, <1>4, <2>1
  <2>2. CASE k # Len(screen) + 1
    <3>1. k \in 1 .. Len(screen)
      BY <1>4, <2>2
    <3> QED
      BY <1>2, <1>4, <3>1
  <2> QED
    BY <2>1, <2>2
<1>6. ASSUME NEW c \in Colour PROVE RowsLost(c)' = DotsLost(c)
  <2>1. /\ ScreenIn(L, w, c, screen) \in Int /\ ScreenOut(w, c, screen) \in Int
        /\ ScreenIn(L, w, c, screen') = ScreenIn(L, w, c, screen) + LineIn(L, w, c, e.px)
        /\ ScreenOut(w, c, screen') = ScreenOut(w, c, screen) + LineOut(w, c, e.px)
    <3>1. c \in Colour /\ w \in Nat /\ OneMore(P, L, w, screen, e, screen')
      BY <1>1, <1>2, <1>3, <1>6 DEF OneMore, AreLines
    <3> HIDE DEF e, L, P, w
    <3> QED
      BY <3>1, ScreenAdds
  <2>2. e.px = line /\ LineIn(L, w, c, line) = RowIn(L, w, c, RowPlaces)
    <3>1. \A z \in 1 .. w : L[c][line[z][c][1]] = L[c][RowPlaces[c][z]]
      BY <1>2
    <3> QED
      BY <3>1 DEF LineIn, RowIn
  <2>3. LineIn(L, w, c, line) \in Int /\ LineOut(w, c, line) \in Int
        /\ \A z \in 1 .. w : line[z][c][2] \in Nat
    <3>1. IsLine(P, w, line)
      BY <1>2
    <3> HIDE DEF L, P
    <3> QED
      BY <1>3, <3>1, LineSums
  <2>4. UnderWay(w, c, line, av1)
    BY <2>3 DEF UnderWay, Lit
  <2>5. CellSum(w, c, line, av1) = LineOut(w, c, line) + av1[c][w + 1]
    BY <2>4, CellsDone
  <2>6. av1[c][w + 1] \in Nat /\ Below(w, c, av2, av3) \in Int
    <3>1. LinesOnScreen
      BY DEF Diffused
    <3> QED
      BY <3>1, LightSums
  <2>7. RowsLost(c)' = ScreenIn(L, w, c, screen') - ScreenOut(w, c, screen')
           - (Below(w, c, av2, av3) + av1[c][w + 1])
    <3> HIDE DEF e
    <3> QED
      BY <1>1 DEF RowsLost
  <2>8. DotsLost(c) = ScreenIn(L, w, c, screen) + RowIn(L, w, c, RowPlaces)
           - ScreenOut(w, c, screen) - (CellSum(w, c, line, av1) + Below(w, c, av2, av3))
    BY DEF DotsLost
  <2> DEFINE v == av1[c][w + 1]
  <2>9. v \in Int /\ CellSum(w, c, line, av1) = LineOut(w, c, line) + v
        /\ RowsLost(c)' = ScreenIn(L, w, c, screen') - ScreenOut(w, c, screen')
             - (Below(w, c, av2, av3) + v)
    BY <2>5, <2>6, <2>7
  <2> HIDE DEF v, e, L, w
  <2> QED
    BY <2>1, <2>2, <2>3, <2>6, <2>8, <2>9, SMTT(40)
<1>7. Loss(w, Len(screen')) = Loss(w, Len(screen)) + 3 * w
  BY <1>4, LossNext
<1> QED
  BY <1>1, <1>2, <1>5, <1>6, <1>7 DEF Diffused

\* The dots of a line of rgbload: bytes of the file, and their light.
LEMMA RgbRowPlaces ==
  ASSUME prog = "rgbload", RgbKept, BuffKept(rd), RgbWide, pc = "row",
         rd' = FreadLine(rd, RgbSize), UNCHANGED <<in, prog>>,
         NEW c \in Colour, NEW x \in 1 .. in.w
  PROVE  LET k == RgbPlace(c, x)'
         IN  /\ RowPlaces'[c][x] = rd'.buff[k] /\ rd'.buff[k] \in Places
             /\ FileLight[c][rd'.buff[k]] = Byte(rd'.buff, k)
<1> DEFINE t == FreadLine(rd, RgbSize)
           j == CASE c = "red" -> 0 [] c = "green" -> 1 [] OTHER -> 2
           k == t.idx + 3 * (x - 1) + j
           s == RgbSize
           p == t.buff[k]
<1>1. k \in 0 .. BuffSize - 1
  BY RgbValue
<1>2. RgbPlace(c, x)' = k /\ RowPlaces'[c][x] = p
  BY DEF RgbPlace, RowPlaces
<1>3. s \in 1 .. BuffSize /\ rd.len = Len(in.data)
  BY RgbSizes DEF RgbKept, IsRgbFile, RgbPhase
<1>4. BuffKept(t) /\ t.len = rd.len
  <2> HIDE DEF s
  <2>1. t = FreadLine(rd, s)
    BY DEF s
  <2> HIDE DEF t
  <2> QED
    BY <1>3, <2>1, FreadLineKeeps
<1> HIDE DEF t, j, k
<1>5. p = Never \/ p \in 0 .. Len(in.data) - 1
  BY <1>1, <1>3, <1>4 DEF BuffKept
<1>6. p \in Places
  BY <1>5 DEF Places
<1>7. Byte(t.buff, k) = IF p = Never THEN 0 ELSE in.data[p + 1]
  BY DEF Byte
<1> HIDE DEF p
<1>8. FileLight[c][p] = IF p = Never THEN 0 ELSE in.data[p + 1]
  BY <1>6 DEF FileLight
<1> QED
  BY <1>2, <1>6, <1>7, <1>8 DEF t, p

\* Every step of rgbload keeps its light.
LEMMA RgbLightNext ==
  ASSUME prog = "rgbload", prog' = prog, RgbKept, RgbTypes, BuffKept(rd), Diffused, RgbNext
  PROVE  Diffused'
<1>1. IsRgbFile(in) /\ in.w \in Nat /\ in.data \in Seq(0 .. 255) /\ IsSequence(line)
      /\ (pc \notin {"main", "ginit", "error"} => Lit(in.w))
  BY DEF RgbKept, IsRgbFile, RgbTypes
<1>2. CASE RgbMain
  <2>1. pc' \in {"ginit", "error"} /\ UNCHANGED <<in, screen, av1, av2, av3>>
    BY <1>2 DEF RgbMain, rgbVars
  <2> QED
    BY <2>1, LightQuiet
<1>3. CASE RgbGinit
  <2>1. UNCHANGED in
        /\ \/ pc' = "error" /\ UNCHANGED <<screen, av1, av2, av3>>
           \/ /\ pc' = "row" /\ screen' = <<>>
              /\ av1' = Dark(in.w) /\ av2' = Dark(in.w) /\ av3' = Dark(in.w)
    BY <1>3 DEF RgbGinit, rgbVars
  <2> QED
    BY <1>1, <2>1, LightQuiet, LightGinit
<1>4. CASE RgbLine
  <2> DEFINE t == FreadLine(rd, RgbSize)
             place(c, x) == t.idx + 3 * (x - 1) + (CASE c = "red" -> 0 [] c = "green" -> 1 [] OTHER -> 2)
             value == [c \in Colour |-> [x \in 1 .. in.w |-> Byte(t.buff, place(c, x))]]
             light == [c \in Colour |-> [x \in 1 .. in.w |-> FileLight[c][RowPlaces'[c][x]]]]
  <2>1. pc = "row" /\ UNCHANGED <<in, screen>>
    BY <1>4 DEF RgbLine
  <2>2. \/ pc' \in {"keys", "fault"} /\ UNCHANGED <<av1, av2, av3>>
        \/ RgbWide /\ rd' = t /\ pc' = "dot" /\ line' = <<>> /\ RgbAdd(value)
    BY <1>1, <1>4 DEF RgbLine, RgbFreadline, RgbWide, RgbSize, rgbVars
  <2>3. CASE pc' \in {"keys", "fault"} /\ UNCHANGED <<av1, av2, av3>>
    BY <2>1, <2>3, LightQuiet
  <2>4. CASE RgbWide /\ rd' = t /\ pc' = "dot" /\ line' = <<>> /\ RgbAdd(value)
    <3>1. ASSUME NEW c \in Colour, NEW x \in 1 .. in.w
          PROVE  /\ RowPlaces'[c][x] \in Places
                 /\ FileLight[c][RowPlaces'[c][x]] = Byte(t.buff, place(c, x))
      <4>1. RgbPlace(c, x)' = place(c, x)
        BY <2>4 DEF RgbPlace
      <4>2. LET k == RgbPlace(c, x)'
            IN  /\ RowPlaces'[c][x] = rd'.buff[k] /\ rd'.buff[k] \in Places
                /\ FileLight[c][rd'.buff[k]] = Byte(rd'.buff, k)
        BY <2>1, <2>4, RgbRowPlaces
      <4> QED
        BY <2>4, <4>1, <4>2
    <3>2. light = value
      BY <3>1
    <3>3. RowPlaces' \in [Colour -> [1 .. in.w -> Places]]
      <4>1. RowPlaces' = [c \in Colour |-> [x \in 1 .. in.w |-> RowPlaces'[c][x]]]
        BY <2>1 DEF RowPlaces
      <4> DEFINE R == RowPlaces'
      <4>2. \A c \in Colour : \A x \in 1 .. in.w : R[c][x] \in Places
        BY <3>1
      <4> HIDE DEF R
      <4> QED
        BY <4>1, <4>2 DEF R
    <3> HIDE DEF value, t
    <3>4. RgbAdd(light)
      BY <2>4, <3>2
    <3> QED
      BY <1>1, <2>1, <2>4, <3>3, <3>4, LightLine
  <2> HIDE DEF value, t
  <2> QED
    BY <2>2, <2>3, <2>4
<1>5. CASE RgbDot
  <2> DEFINE place == [c \in Colour |-> [x \in 1 .. in.w |-> RgbPlace(c, x)]]
  <2>1. Diffuse(place) /\ pc = "dot"
    BY <1>5 DEF RgbDot, Diffuse
  <2>2. \A c \in Colour : \A x \in 1 .. in.w : rd.buff[place[c][x]] = RowPlaces[c][x]
    BY DEF RowPlaces
  <2> HIDE DEF place
  <2> QED
    BY <1>1, <2>1, <2>2, LightDot
<1>6. CASE RgbShow
  <2>1. /\ pc = "dot" /\ pc' = "row" /\ Len(line) = in.w /\ Draw(0, row, line)
        /\ UNCHANGED <<in, rgbVars>>
    BY <1>6 DEF RgbShow
  <2> QED
    BY <1>1, <2>1, LightShow
<1>7. CASE RgbKeyC \/ (KeyEnd /\ UNCHANGED rgbVars)
  <2>1. pc = "keys" /\ pc' \in {"keys", "end"} /\ UNCHANGED <<in, screen, av1, av2, av3>>
    BY <1>7, SMTT(40) DEF RgbKeyC, KeyEnd, rgbVars
  <2> QED
    BY <2>1, LightQuiet
<1> QED
  BY <1>2, <1>3, <1>4, <1>5, <1>6, <1>7 DEF RgbNext

\* What is on the screen and what waits, as the specification adds it up.
LEMMA DiffusedTells ==
  ASSUME Diffused, pc \in {"row", "keys", "end"}, NEW c \in Colour,
         NEW given,
         given = SumFunction([k \in 1 .. Len(screen) |->
                   SumFunction([x \in 1 .. in.w |-> FileLight[c][screen[k].px[x][c][1]]])])
  PROVE  given - LightShown(c) - LightKept(c) \in 0 .. 3 * in.w * Len(screen)
<1>1. RowsLost(c) \in 0 .. Loss(in.w, Len(screen))
  BY DEF Diffused
<1>2. given = ScreenIn(FileLight, in.w, c, screen)
  BY DEF ScreenIn, LineIn
<1>3. LightShown(c) = ScreenOut(in.w, c, screen)
  BY DEF LightShown, ScreenOut, LineOut
<1>4. LightKept(c) = Below(in.w, c, av2, av3) + av1[c][in.w + 1]
  BY DEF LightKept, Below
<1> QED
  BY <1>1, <1>2, <1>3, <1>4 DEF RowsLost, Loss

\* Where the dots on the screen are from.
LEMMA PlacesShown ==
  ASSUME LinesOnScreen, NEW k \in 1 .. Len(screen), NEW x \in 1 .. in.w, NEW c \in Colour
  PROVE  screen[k].px[x][c][1] \in Places
<1>1. screen[k].px[x] \in Dots(Places)
  BY DEF LinesOnScreen, AreLines, IsLine
<1>2. screen[k].px[x][c] \in Places \X Nat
  BY <1>1, SMTT(40) DEF Dots
<1> QED
  BY <1>2

\* The light of rgbload's picture is in balance.
LEMMA RgbLightTells == ASSUME prog = "rgbload", Diffused PROVE RgbLightBalance
<1> DEFINE given(c) ==
      SumFunction([k \in 1 .. Len(screen) |->
        SumFunction([x \in 1 .. in.w |->
          LET off == screen[k].px[x][c][1] IN IF off = Never THEN 0 ELSE in.data[off + 1]])])
<1>1. ASSUME NEW c \in Colour
      PROVE  given(c)
               = SumFunction([k \in 1 .. Len(screen) |->
                   SumFunction([x \in 1 .. in.w |-> FileLight[c][screen[k].px[x][c][1]]])])
  <2>1. ASSUME NEW k \in 1 .. Len(screen), NEW x \in 1 .. in.w
        PROVE  LET off == screen[k].px[x][c][1]
               IN  FileLight[c][off] = IF off = Never THEN 0 ELSE in.data[off + 1]
    <3> DEFINE off == screen[k].px[x][c][1]
    <3>1. off \in Places
      BY PlacesShown DEF Diffused
    <3> HIDE DEF off
    <3>2. FileLight[c][off] = IF off = Never THEN 0 ELSE in.data[off + 1]
      BY <3>1 DEF FileLight
    <3> QED
      BY <3>2 DEF off
  <2>2. \A k \in 1 .. Len(screen) :
          [x \in 1 .. in.w |-> FileLight[c][screen[k].px[x][c][1]]]
            = [x \in 1 .. in.w |->
                 LET off == screen[k].px[x][c][1] IN IF off = Never THEN 0 ELSE in.data[off + 1]]
    BY <2>1
  <2> QED
    BY <2>2
<1>2. ASSUME pc \in {"row", "keys", "end"}, NEW c \in Colour
      PROVE  given(c) - LightShown(c) - LightKept(c) \in 0 .. 3 * in.w * Len(screen)
  <2> HIDE DEF given
  <2> QED
    BY <1>1, <1>2, DiffusedTells
<1> QED
  BY <1>2, SMTT(40) DEF RgbLightBalance, LightBalance, LightIn

\* The buffer of x68load has whole dots, but for one that the end of a file cuts.
X68Pairs ==
  /\ Multiple(rd.fp, 2) /\ Pairs(rd)
  /\ Multiple(Len(in.data), 2) => Uncut(rd)

\* It keeps them.
LEMMA X68PairsNext == ASSUME X68Kept, BuffKept(rd), X68Pairs, X68Next PROVE X68Pairs'
<1>1. in' = in /\ (rd' = rd \/ rd' = X68Read)
  BY DEF X68Next, X68Main, X68Ginit, X68Line, X68Dot, Diffuse, X68Show, X68Dither4, X68KeyC,
         KeyEnd
<1>2. Multiple(X68Read.fp, 2) /\ Pairs(X68Read) /\ (Multiple(Len(in.data), 2) => Uncut(X68Read))
  BY X68ReadKeeps DEF X68Kept, X68Pairs
<1> QED
  BY <1>1, <1>2 DEF X68Pairs

\* The two bytes of a dot of x68load are two of the file, if none of its dots is cut.
LEMMA X68DotBytes ==
  ASSUME X68Kept, BuffKept(rd), Multiple(rd.fp, 2), Uncut(rd), pc = "row", NEW x \in 1 .. in.w
  PROVE  LET k == X68Read.idx + 2 * (x - 1)
             p == X68Read.buff[k]
         IN  \/ p = Never /\ Byte(X68Read.buff, k) = 0 /\ Byte(X68Read.buff, k + 1) = 0
             \/ /\ p \in 0 .. Len(in.data) - 1 /\ p + 1 < Len(in.data)
                /\ Byte(X68Read.buff, k) = in.data[p + 1] /\ Byte(X68Read.buff, k + 1) = in.data[p + 2]
<1> DEFINE t == X68Read
           i == t.idx
           k == i + 2 * (x - 1)
           p == t.buff[k]
           q == t.buff[k + 1]
<1>1. k \in 0 .. BuffSize - 1 /\ k + 1 \in 0 .. BuffSize - 1
  BY X68TwoBytes
<1>2. BuffKept(t) /\ t.len = Len(in.data) /\ Multiple(i, 2) /\ Uncut(t)
  BY X68ReadKeeps DEF X68Kept, X68Phase
<1>3. BuffSize \in Nat /\ in.w \in Nat
  BY X68Sizes DEF X68Kept
<1> HIDE DEF t
<1>4. PICK m \in Nat : i = m * 2
  BY <1>2 DEF Multiple
<1> HIDE DEF i
<1>5. PICK j \in Nat : k = 2 * j
  <2>1. m + (x - 1) \in Nat /\ k = 2 * (m + (x - 1))
    BY <1>3, <1>4
  <2> QED
    BY <2>1
<1>6. \/ p = Never /\ q = Never
      \/ p # Never /\ q = p + 1
  <2>1. k = 2 * j /\ k + 1 = 2 * j + 1 /\ 2 * j + 1 < BuffSize
    BY <1>1, <1>3, <1>5
  <2>2. \/ t.buff[2 * j] = Never /\ t.buff[2 * j + 1] = Never
        \/ t.buff[2 * j] # Never /\ t.buff[2 * j + 1] = t.buff[2 * j] + 1
    BY <1>2, <2>1 DEF Uncut
  <2> HIDE DEF k
  <2> QED
    BY <2>1, <2>2
<1>7. /\ p = Never \/ p \in 0 .. Len(in.data) - 1
      /\ q = Never \/ q \in 0 .. Len(in.data) - 1
  <2> HIDE DEF k
  <2> QED
    BY <1>1, <1>2 DEF BuffKept
<1>8. /\ Byte(t.buff, k) = IF p = Never THEN 0 ELSE in.data[p + 1]
      /\ Byte(t.buff, k + 1) = IF q = Never THEN 0 ELSE in.data[q + 1]
  BY DEF Byte
<1>9. p = Never => Byte(t.buff, k) = 0 /\ Byte(t.buff, k + 1) = 0
  BY <1>6, <1>8
<1>10. Len(in.data) \in Nat
  BY FileBytes DEF X68Kept, X68File, IsRgbFile
<1>11. ASSUME p # Never
       PROVE  /\ p \in 0 .. Len(in.data) - 1 /\ p + 1 < Len(in.data)
              /\ Byte(t.buff, k) = in.data[p + 1] /\ Byte(t.buff, k + 1) = in.data[p + 2]
  <2> HIDE DEF p, q, k
  <2>1. p \in 0 .. Len(in.data) - 1 /\ q = p + 1
    BY <1>6, <1>7, <1>11
  <2>2. q # Never /\ q + 1 = p + 2 /\ p + 1 < Len(in.data)
    BY <1>7, <1>10, <2>1 DEF Never
  <2> QED
    BY <1>8, <1>11, <2>1, <2>2
<1> QED
  BY <1>9, <1>11 DEF t, i

\* The dots of a line of x68load are of the file, and so is their light.
LEMMA X68RowPlaces ==
  ASSUME prog = "x68load", X68Kept, BuffKept(rd), Multiple(rd.fp, 2), Uncut(rd), pc = "row",
         rd' = X68Read, UNCHANGED <<in, prog>>, NEW c \in Colour, NEW x \in 1 .. in.w
  PROVE  /\ RowPlaces'[c][x] \in Places
         /\ FileLight[c][RowPlaces'[c][x]] = 8 * Field(c, X68Word(x))
<1> DEFINE k == X68Read.idx + 2 * (x - 1)
           p == X68Read.buff[k]
           a == Byte(X68Read.buff, k)
           b == Byte(X68Read.buff, k + 1)
<1>1. RowPlaces'[c][x] = p
  BY DEF RowPlaces, X68Place
<1>2. X68Word(x) = 256 * a + b
  BY DEF X68Word
<1>3. \/ p = Never /\ a = 0 /\ b = 0
      \/ /\ p \in 0 .. Len(in.data) - 1 /\ p + 1 < Len(in.data)
         /\ a = in.data[p + 1] /\ b = in.data[p + 2]
  BY X68DotBytes
<1> HIDE DEF p, a, b
<1>4. p \in Places
  BY <1>3 DEF Places
<1>5. FileLight[c][p] = IF p = Never THEN 0 ELSE 8 * X68Value(c, p)
  BY <1>4 DEF FileLight
<1>6. CASE p = Never /\ a = 0 /\ b = 0
  <2>1. Field(c, 256 * a + b) = 0
    BY <1>6 DEF Field
  <2> QED
    BY <1>1, <1>2, <1>4, <1>5, <1>6, <2>1
<1>7. CASE p \in 0 .. Len(in.data) - 1 /\ a = in.data[p + 1] /\ b = in.data[p + 2]
  <2>1. p # Never
    BY <1>7 DEF Never
  <2>2. X68Value(c, p) = Field(c, 256 * a + b)
    BY <1>7 DEF X68Value
  <2> QED
    BY <1>1, <1>2, <1>4, <1>5, <2>1, <2>2
<1> QED
  BY <1>3, <1>6, <1>7

\* Every step of x68load without its dither keeps the light.
LEMMA X68LightNext ==
  ASSUME prog = "x68load", prog' = prog, X68Kept, RgbTypes, BuffKept(rd), Multiple(rd.fp, 2),
         Uncut(rd), ~in.dither, Diffused, X68Next
  PROVE  Diffused'
<1>1. in.w \in Nat /\ in.data \in Seq(0 .. 255) /\ IsSequence(line)
      /\ (pc \notin {"main", "ginit", "error"} => Lit(in.w))
  BY DEF X68Kept, X68File, IsRgbFile, RgbTypes
<1>2. CASE X68Main
  <2>1. pc' \in {"ginit", "error"} /\ UNCHANGED <<in, screen, av1, av2, av3>>
    BY <1>2 DEF X68Main, rgbVars
  <2> QED
    BY <2>1, LightQuiet
<1>3. CASE X68Ginit
  <2>1. UNCHANGED in
        /\ \/ pc' = "error" /\ UNCHANGED <<screen, av1, av2, av3>>
           \/ /\ pc' = "row" /\ screen' = <<>>
              /\ av1' = Dark(in.w) /\ av2' = Dark(in.w) /\ av3' = Dark(in.w)
    BY <1>3 DEF X68Ginit, rgbVars
  <2> QED
    BY <1>1, <2>1, LightQuiet, LightGinit
<1>4. CASE X68Line
  <2> DEFINE t == X68Read
             value == [c \in Colour |-> [x \in 1 .. in.w |-> 8 * Field(c, X68Word(x))]]
             light == [c \in Colour |-> [x \in 1 .. in.w |-> FileLight[c][RowPlaces'[c][x]]]]
  <2>1. /\ pc = "row" /\ UNCHANGED <<in, screen>>
        /\ \/ pc' = "keys" /\ UNCHANGED <<av1, av2, av3>>
           \/ rd' = t /\ pc' = "dot" /\ line' = <<>> /\ RgbAdd(value)
    BY <1>4 DEF X68Line, rgbVars
  <2>2. CASE pc' = "keys" /\ UNCHANGED <<av1, av2, av3>>
    BY <2>1, <2>2, LightQuiet
  <2>3. CASE rd' = t /\ pc' = "dot" /\ line' = <<>> /\ RgbAdd(value)
    <3>1. ASSUME NEW c \in Colour, NEW x \in 1 .. in.w
          PROVE  /\ RowPlaces'[c][x] \in Places
                 /\ FileLight[c][RowPlaces'[c][x]] = 8 * Field(c, X68Word(x))
      BY <2>1, <2>3, X68RowPlaces
    <3>2. light = value
      BY <3>1
    <3>3. RowPlaces' \in [Colour -> [1 .. in.w -> Places]]
      <4>1. RowPlaces' = [c \in Colour |-> [x \in 1 .. in.w |-> RowPlaces'[c][x]]]
        BY <2>1 DEF RowPlaces
      <4> DEFINE R == RowPlaces'
      <4>2. \A c \in Colour : \A x \in 1 .. in.w : R[c][x] \in Places
        BY <3>1
      <4> HIDE DEF R
      <4> QED
        BY <4>1, <4>2 DEF R
    <3> HIDE DEF value, t
    <3>4. RgbAdd(light)
      BY <2>3, <3>2
    <3> QED
      BY <1>1, <2>1, <2>3, <3>3, <3>4, LightLine
  <2> HIDE DEF value, t
  <2> QED
    BY <2>1, <2>2, <2>3
<1>5. CASE X68Dot
  <2> DEFINE place == [c \in Colour |-> [x \in 1 .. in.w |-> X68Place(c, x)]]
  <2>1. Diffuse(place) /\ pc = "dot"
    BY <1>5 DEF X68Dot, Diffuse
  <2>2. \A c \in Colour : \A x \in 1 .. in.w : rd.buff[place[c][x]] = RowPlaces[c][x]
    BY DEF RowPlaces
  <2> HIDE DEF place
  <2> QED
    BY <1>1, <2>1, <2>2, LightDot
<1>6. CASE X68Show
  <2>1. /\ pc = "dot" /\ pc' = "row" /\ Len(line) = in.w /\ Draw(0, row, line)
        /\ UNCHANGED <<in, rgbVars>>
    BY <1>6 DEF X68Show
  <2> QED
    BY <1>1, <2>1, LightShow
<1>7. CASE X68Dither4
  BY <1>7 DEF X68Dither4
<1>8. CASE X68KeyC \/ (KeyEnd /\ UNCHANGED rgbVars)
  <2>1. pc = "keys" /\ pc' \in {"keys", "end"} /\ UNCHANGED <<in, screen, av1, av2, av3>>
    BY <1>8 DEF X68KeyC, KeyEnd, rgbVars
  <2> QED
    BY <2>1, LightQuiet
<1> QED
  BY <1>2, <1>3, <1>4, <1>5, <1>6, <1>7, <1>8 DEF X68Next

\* The light of x68load's picture is in balance.
LEMMA X68LightTells ==
  ASSUME prog = "x68load", Diffused, ~in.dither
  PROVE  X68LightBalance
<1> DEFINE given(c) ==
      SumFunction([k \in 1 .. Len(screen) |->
        SumFunction([x \in 1 .. in.w |->
          LET off == screen[k].px[x][c][1] IN IF off = Never THEN 0 ELSE 8 * X68Value(c, off)])])
<1>1. ASSUME NEW c \in Colour
      PROVE  given(c)
               = SumFunction([k \in 1 .. Len(screen) |->
                   SumFunction([x \in 1 .. in.w |-> FileLight[c][screen[k].px[x][c][1]]])])
  <2>1. ASSUME NEW k \in 1 .. Len(screen), NEW x \in 1 .. in.w
        PROVE  LET off == screen[k].px[x][c][1]
               IN  FileLight[c][off] = IF off = Never THEN 0 ELSE 8 * X68Value(c, off)
    <3> DEFINE off == screen[k].px[x][c][1]
    <3>1. off \in Places
      BY PlacesShown DEF Diffused
    <3> HIDE DEF off
    <3>2. FileLight[c][off] = IF off = Never THEN 0 ELSE 8 * X68Value(c, off)
      BY <3>1 DEF FileLight
    <3> QED
      BY <3>2 DEF off
  <2>2. \A k \in 1 .. Len(screen) :
          [x \in 1 .. in.w |-> FileLight[c][screen[k].px[x][c][1]]]
            = [x \in 1 .. in.w |->
                 LET off == screen[k].px[x][c][1] IN IF off = Never THEN 0 ELSE 8 * X68Value(c, off)]
    BY <2>1
  <2> QED
    BY <2>2
<1>2. ASSUME pc \in {"row", "keys", "end"}, NEW c \in Colour
      PROVE  given(c) - LightShown(c) - LightKept(c) \in 0 .. 3 * in.w * Len(screen)
  <2> HIDE DEF given
  <2> QED
    BY <1>1, <1>2, DiffusedTells
<1> QED
  BY <1>2 DEF X68LightBalance, LightBalance, LightIn

----------------------------------------------------------------------------
(* Light, for the dither of x68load and tiffload.                          *)

\* The four levels for a colour have it between them, and are next to each other.
LEMMA DitherFour ==
  ASSUME NEW i \in 0 .. 20
  PROVE  /\ \A n \in 1 .. 4 : DitherLevel[n][i + 1] \in 0 .. 5
         /\ DitherLevel[1][i + 1] + DitherLevel[2][i + 1] + DitherLevel[3][i + 1]
              + DitherLevel[4][i + 1] = i
         /\ \A n, m \in 1 .. 4 : DitherLevel[n][i + 1] - DitherLevel[m][i + 1] <= 1
BY DEF DitherLevel

\* Four dots for one of the file's in two lines of the dither: they are from one place,
\* which they have the light of, W[c][off], when the file has the dot.
FourSound(W, len, u, l, x, c) ==
  \E i \in 0 .. 20 : \E p \in {Never} \cup 0 .. len - 1 :
    /\ u.px[2 * x - 1][c] = <<p, DitherLevel[1][i + 1]>>
    /\ u.px[2 * x][c] = <<p, DitherLevel[2][i + 1]>>
    /\ l.px[2 * x - 1][c] = <<p, DitherLevel[3][i + 1]>>
    /\ l.px[2 * x][c] = <<p, DitherLevel[4][i + 1]>>
    /\ p # Never /\ p + 1 < len => i = DitherIndex(W[c][p])

PairSound(W, len, u, l) ==
  \A x \in 1 .. Len(l.px) \div 2 : \A c \in Colour : FourSound(W, len, u, l, x, c)

\* All pairs of lines on the screen.
Dithered(W, len, s) == \A k \in 1 .. Len(s) \div 2 : PairSound(W, len, s[2 * k - 1], s[2 * k])

\* A colour of five bits has an index.
LEMMA IndexRange == ASSUME NEW v \in 0 .. 31 PROVE DitherIndex(v) \in 0 .. 20
BY DEF DitherIndex

\* Two more lines.
LEMMA DitheredTwo ==
  ASSUME NEW W, NEW len, NEW s, IsSequence(s), NEW n \in Nat, Len(s) = 2 * n,
         Dithered(W, len, s), NEW u, NEW l, PairSound(W, len, u, l)
  PROVE  Dithered(W, len, s \o <<u, l>>)
<1> DEFINE t == s \o <<u, l>>
<1>1. /\ Len(t) = Len(s) + 2 /\ t[Len(s) + 1] = u /\ t[Len(s) + 2] = l
      /\ \A k \in 1 .. Len(s) : t[k] = s[k]
  BY AppendedTwo
<1> HIDE DEF t
<1>2. ASSUME NEW k \in 1 .. Len(t) \div 2 PROVE PairSound(W, len, t[2 * k - 1], t[2 * k])
  <2>1. k \in 1 .. n + 1
    BY <1>1
  <2>2. CASE k = n + 1
    <3>1. 2 * k - 1 = Len(s) + 1 /\ 2 * k = Len(s) + 2
      BY <2>2
    <3> QED
      BY <1>1, <3>1
  <2>3. CASE k # n + 1
    <3>1. k \in 1 .. Len(s) \div 2 /\ 2 * k - 1 \in 1 .. Len(s) /\ 2 * k \in 1 .. Len(s)
      BY <2>1, <2>3
    <3>2. PairSound(W, len, s[2 * k - 1], s[2 * k])
      BY <3>1 DEF Dithered
    <3>3. t[2 * k - 1] = s[2 * k - 1] /\ t[2 * k] = s[2 * k]
      BY <1>1, <3>1
    <3> QED
      BY <3>2, <3>3
  <2> QED
    BY <2>2, <2>3
<1> QED
  BY <1>2 DEF Dithered, t

\* What the dither makes of a line of the file.
DitherOf(W, len, w, place, value) ==
  \A d \in 1 .. w :
    /\ place[d] \in {Never} \cup 0 .. len - 1
    /\ \A c \in Colour :
         /\ value[c][d] \in 0 .. 31
         /\ place[d] # Never /\ place[d] + 1 < len => value[c][d] = W[c][place[d]]

LEMMA DitherPair ==
  ASSUME NEW W, NEW len, NEW w \in Nat, NEW place, NEW value, DitherOf(W, len, w, place, value),
         NEW u, u.px = DitherLine(w, TRUE, place, value),
         NEW l, l.px = DitherLine(w, FALSE, place, value)
  PROVE  PairSound(W, len, u, l)
<1> DEFINE px == DitherLine(w, FALSE, place, value)
<1>1. Len(l.px) = 2 * w
  <2>1. px = [x \in 1 .. 2 * w |-> px[x]]
    BY DEF DitherLine
  <2>2. 2 * w \in Nat
    OBVIOUS
  <2> HIDE DEF px
  <2>3. Len(px) = 2 * w
    BY <2>1, <2>2, LengthOf, SMTT(40)
  <2> QED
    BY <2>3 DEF px
<1> HIDE DEF px
<1>2. ASSUME NEW x \in 1 .. Len(l.px) \div 2, NEW c \in Colour
      PROVE  FourSound(W, len, u, l, x, c)
  <2> DEFINE i == DitherIndex(value[c][x])
             p == place[x]
  <2>1. /\ x \in 1 .. w /\ 2 * x - 1 \in 1 .. 2 * w /\ 2 * x \in 1 .. 2 * w
        /\ ((2 * x - 1) + 1) \div 2 = x /\ (2 * x + 1) \div 2 = x
        /\ (2 * x - 1) % 2 = 1 /\ (2 * x) % 2 = 0
    <3>1. x \in 1 .. w
      <4>1. (2 * w) \div 2 = w
        OBVIOUS
      <4>2. x \in 1 .. Len(l.px) \div 2
        BY <1>2
      <4> QED
        BY <1>1, <4>1, <4>2
    <3>2. ((2 * x - 1) + 1) \div 2 = x /\ (2 * x + 1) \div 2 = x
      BY <3>1
    <3>3. (2 * x - 1) % 2 = 1
      BY <3>1
    <3>4. (2 * x) % 2 = 0
      BY <3>1
    <3> QED
      BY <3>1, <3>2, <3>3, <3>4
  <2>2. p \in {Never} \cup 0 .. len - 1 /\ i \in 0 .. 20
        /\ (p # Never /\ p + 1 < len => i = DitherIndex(W[c][p]))
    <3>1. /\ place[x] \in {Never} \cup 0 .. len - 1 /\ value[c][x] \in 0 .. 31
          /\ place[x] # Never /\ place[x] + 1 < len => value[c][x] = W[c][place[x]]
      BY <2>1 DEF DitherOf
    <3> QED
      BY <3>1, IndexRange
  <2>3. /\ u.px[2 * x - 1][c] = <<p, DitherLevel[1][i + 1]>>
        /\ u.px[2 * x][c] = <<p, DitherLevel[2][i + 1]>>
    <3> DEFINE m == u.px
    <3>1. \A y \in 1 .. 2 * w :
            m[y][c] = <<place[(y + 1) \div 2],
                        DitherLevel[1 + (1 - (y % 2))][DitherIndex(value[c][(y + 1) \div 2]) + 1]>>
      BY <1>2 DEF DitherLine
    <3> HIDE DEF m
    <3>2. m[2 * x - 1][c] = <<p, DitherLevel[1][i + 1]>>
      BY <2>1, <3>1
    <3>3. m[2 * x][c] = <<p, DitherLevel[2][i + 1]>>
      BY <2>1, <3>1, SMTT(40)
    <3> QED
      BY <3>2, <3>3 DEF m
  <2>4. /\ l.px[2 * x - 1][c] = <<p, DitherLevel[3][i + 1]>>
        /\ l.px[2 * x][c] = <<p, DitherLevel[4][i + 1]>>
    <3> DEFINE m == l.px
    <3>1. \A y \in 1 .. 2 * w :
            m[y][c] = <<place[(y + 1) \div 2],
                        DitherLevel[3 + (1 - (y % 2))][DitherIndex(value[c][(y + 1) \div 2]) + 1]>>
      BY <1>2 DEF DitherLine
    <3> HIDE DEF m
    <3>2. m[2 * x - 1][c] = <<p, DitherLevel[3][i + 1]>>
      BY <2>1, <3>1
    <3>3. m[2 * x][c] = <<p, DitherLevel[4][i + 1]>>
      BY <2>1, <3>1, SMTT(40)
    <3> QED
      BY <3>2, <3>3 DEF m
  <2> HIDE DEF i, p
  <2> QED
    BY <2>2, <2>3, <2>4 DEF FourSound
<1> QED
  BY <1>2 DEF PairSound

\* Four dots of one place have its light between them, and hardly differ.
FourLit(W, len, c, a, b, d, e) ==
  LET total == a[2] + b[2] + d[2] + e[2]
  IN  /\ \A v, z \in {a, b, d, e} : v[1] = z[1] /\ v[2] - z[2] <= 1
      /\ \A v \in {a, b, d, e} :
           /\ v[1] = Never \/ v[1] \in 0 .. len - 1
           /\ v[1] # Never /\ v[1] + 1 < len => total = DitherIndex(W[c][v[1]])

\* So do the four dots of each on the screen.
LEMMA FourTell ==
  ASSUME NEW W, NEW len, NEW s, Dithered(W, len, s), NEW k \in 1 .. Len(s) \div 2,
         NEW x \in 1 .. Len(s[2 * k].px) \div 2, NEW c \in Colour
  PROVE  FourLit(W, len, c, s[2 * k - 1].px[2 * x - 1][c], s[2 * k - 1].px[2 * x][c],
                 s[2 * k].px[2 * x - 1][c], s[2 * k].px[2 * x][c])
<1> DEFINE a == s[2 * k - 1].px[2 * x - 1][c]
           b == s[2 * k - 1].px[2 * x][c]
           d == s[2 * k].px[2 * x - 1][c]
           e == s[2 * k].px[2 * x][c]
<1>1. PICK i \in 0 .. 20, p \in {Never} \cup 0 .. len - 1 :
        /\ a = <<p, DitherLevel[1][i + 1]>> /\ b = <<p, DitherLevel[2][i + 1]>>
        /\ d = <<p, DitherLevel[3][i + 1]>> /\ e = <<p, DitherLevel[4][i + 1]>>
        /\ p # Never /\ p + 1 < len => i = DitherIndex(W[c][p])
  <2> DEFINE u == s[2 * k - 1]
             l == s[2 * k]
  <2>1. PairSound(W, len, u, l) /\ x \in 1 .. Len(l.px) \div 2
    BY DEF Dithered
  <2> HIDE DEF u, l
  <2>2. FourSound(W, len, u, l, x, c)
    BY <2>1, Zenon DEF PairSound
  <2> QED
    BY <2>2, Zenon DEF u, l, FourSound
<1> HIDE DEF a, b, d, e
<1> DEFINE f(n) == DitherLevel[n][i + 1]
<1>2. /\ f(1) \in 0 .. 5 /\ f(2) \in 0 .. 5 /\ f(3) \in 0 .. 5 /\ f(4) \in 0 .. 5
      /\ f(1) + f(2) + f(3) + f(4) = i
      /\ \A n, m \in 1 .. 4 : f(n) - f(m) <= 1
  <2>1. /\ \A n \in 1 .. 4 : f(n) \in 0 .. 5
        /\ f(1) + f(2) + f(3) + f(4) = i
        /\ \A n, m \in 1 .. 4 : f(n) - f(m) <= 1
    BY DitherFour, Zenon
  <2> HIDE DEF f
  <2> QED
    BY <2>1
<1>3. a = <<p, f(1)>> /\ b = <<p, f(2)>> /\ d = <<p, f(3)>> /\ e = <<p, f(4)>>
  BY <1>1
<1> HIDE DEF f
<1>4. a[2] + b[2] + d[2] + e[2] = i
  BY <1>2, <1>3
<1>5. \A v \in {a, b, d, e} : \E n \in 1 .. 4 : v[1] = p /\ v[2] = f(n)
  BY <1>3
<1>6. \A v, z \in {a, b, d, e} : v[1] = z[1] /\ v[2] - z[2] <= 1
  <2> SUFFICES ASSUME NEW v \in {a, b, d, e}, NEW z \in {a, b, d, e}
               PROVE  v[1] = z[1] /\ v[2] - z[2] <= 1
    OBVIOUS
  <2>1. PICK n \in 1 .. 4 : v[1] = p /\ v[2] = f(n)
    BY <1>5
  <2>2. PICK m \in 1 .. 4 : z[1] = p /\ z[2] = f(m)
    BY <1>5
  <2>3. f(n) - f(m) <= 1
    BY <1>2
  <2> QED
    BY <2>1, <2>2, <2>3
<1>7. \A v \in {a, b, d, e} : /\ v[1] = Never \/ v[1] \in 0 .. len - 1
                              /\ v[1] # Never /\ v[1] + 1 < len =>
                                   a[2] + b[2] + d[2] + e[2] = DitherIndex(W[c][v[1]])
  BY <1>1, <1>4, <1>5
<1>8. FourLit(W, len, c, a, b, d, e)
  BY <1>6, <1>7 DEF FourLit
<1> QED
  BY <1>8 DEF a, b, d, e

\* The two bytes of a dot in a buffer: of the file, and next to each other in it, when
\* it has both.
LEMMA DotBytes ==
  ASSUME NEW t, BuffKept(t), Pairs(t), t.len = Len(in.data), in.data \in Seq(0 .. 255),
         NEW k, Multiple(k, 2), k \in 0 .. BuffSize - 1, k + 1 \in 0 .. BuffSize - 1
  PROVE  /\ Byte(t.buff, k) \in 0 .. 255 /\ Byte(t.buff, k + 1) \in 0 .. 255
         /\ t.buff[k] \in {Never} \cup 0 .. Len(in.data) - 1
         /\ t.buff[k] # Never /\ t.buff[k] + 1 < Len(in.data) =>
              /\ Byte(t.buff, k) = in.data[t.buff[k] + 1]
              /\ Byte(t.buff, k + 1) = in.data[t.buff[k] + 2]
<1> DEFINE p == t.buff[k]
           q == t.buff[k + 1]
<1>1. Byte(t.buff, k) \in 0 .. 255 /\ Byte(t.buff, k + 1) \in 0 .. 255
  BY ByteRange
<1>2. p = Never \/ p \in 0 .. Len(in.data) - 1
  BY DEF BuffKept
<1>3. IsPair(p, q, Len(in.data))
  <2>1. PICK j \in Nat : k = j * 2
    BY DEF Multiple
  <2>2. k = 2 * j /\ 2 * j + 1 < BuffSize /\ k + 1 = 2 * j + 1
    BY <2>1, GaAssumption
  <2> QED
    BY <2>2 DEF Pairs
<1>4. /\ Byte(t.buff, k) = IF p = Never THEN 0 ELSE in.data[p + 1]
      /\ Byte(t.buff, k + 1) = IF q = Never THEN 0 ELSE in.data[q + 1]
  BY DEF Byte
<1>5. Len(in.data) \in Nat
  BY FileBytes
<1> HIDE DEF p, q
<1>6. ASSUME p # Never, p + 1 < Len(in.data)
      PROVE  Byte(t.buff, k) = in.data[p + 1] /\ Byte(t.buff, k + 1) = in.data[p + 2]
  <2>1. p \in 0 .. Len(in.data) - 1
    BY <1>2, <1>6
  <2>2. q = p + 1
    BY <1>3, <1>5, <1>6, <2>1 DEF IsPair
  <2>3. q # Never /\ q + 1 = p + 2
    BY <2>1, <2>2 DEF Never
  <2> QED
    BY <1>4, <1>6, <2>3
<1> QED
  BY <1>1, <1>2, <1>6 DEF p

\* The colours of the dots of x68load's file, by where they are.
X68Words == [c \in Colour |-> [off \in 0 .. Len(in.data) - 1 |-> X68Value(c, off)]]

\* A line of x68load for its dither.
LEMMA X68DitherOf ==
  ASSUME X68Kept, BuffKept(rd), X68Pairs, pc = "row"
  PROVE  DitherOf(X68Words, Len(in.data), in.w,
                  [d \in 1 .. in.w |-> X68Read.buff[X68Read.idx + 2 * (d - 1)]],
                  [c \in Colour |-> [d \in 1 .. in.w |-> Field(c, X68Word(d))]])
<1> DEFINE t == X68Read
           place == [d \in 1 .. in.w |-> t.buff[t.idx + 2 * (d - 1)]]
           value == [c \in Colour |-> [d \in 1 .. in.w |-> Field(c, X68Word(d))]]
<1>1. /\ BuffKept(t) /\ Pairs(t) /\ t.len = Len(in.data) /\ Multiple(t.idx, 2)
      /\ in.data \in Seq(0 .. 255) /\ in.w \in Nat
  BY X68ReadKeeps, X68Sizes DEF X68Kept, X68Pairs, X68Phase, X68File, IsRgbFile
<1>2. ASSUME NEW d \in 1 .. in.w
      PROVE  /\ place[d] \in {Never} \cup 0 .. Len(in.data) - 1
             /\ \A c \in Colour :
                  /\ value[c][d] \in 0 .. 31
                  /\ place[d] # Never /\ place[d] + 1 < Len(in.data) =>
                       value[c][d] = X68Words[c][place[d]]
  <2> DEFINE k == t.idx + 2 * (d - 1)
             a == Byte(t.buff, k)
             b == Byte(t.buff, k + 1)
             p == t.buff[k]
  <2>1. k \in 0 .. BuffSize - 1 /\ k + 1 \in 0 .. BuffSize - 1
    BY X68TwoBytes
  <2>2. place[d] = p
    OBVIOUS
  <2>3. \A c \in Colour : value[c][d] = Field(c, 256 * a + b)
    BY DEF X68Word
  <2> HIDE DEF t, place, value
  <2>4. Multiple(k, 2)
    <3>1. PICK j \in Nat : t.idx = j * 2
      BY <1>1 DEF Multiple
    <3>2. j + (d - 1) \in Nat /\ k = (j + (d - 1)) * 2
      BY <1>1, <3>1
    <3> QED
      BY <3>2 DEF Multiple
  <2> HIDE DEF k
  <2>5. /\ a \in 0 .. 255 /\ b \in 0 .. 255 /\ p \in {Never} \cup 0 .. Len(in.data) - 1
        /\ p # Never /\ p + 1 < Len(in.data) => a = in.data[p + 1] /\ b = in.data[p + 2]
    BY <1>1, <2>1, <2>4, DotBytes, SMTT(40)
  <2> HIDE DEF a, b, p
  <2>6. ASSUME NEW c \in Colour
        PROVE  /\ value[c][d] \in 0 .. 31
               /\ p # Never /\ p + 1 < Len(in.data) => value[c][d] = X68Words[c][p]
    <3>1. value[c][d] = Field(c, 256 * a + b) /\ Field(c, 256 * a + b) \in 0 .. 31
      BY <2>3, <2>5, <2>6, FieldRange, ZenonT(60)
    <3>2. ASSUME p # Never, p + 1 < Len(in.data) PROVE value[c][d] = X68Words[c][p]
      <4>1. p \in 0 .. Len(in.data) - 1
        BY <2>5, <3>2
      <4>2. X68Words[c][p] = X68Value(c, p)
        BY <2>6, <4>1 DEF X68Words
      <4> QED
        BY <2>5, <3>1, <3>2, <4>2 DEF X68Value
    <3> QED
      BY <3>1, <3>2
  <2> QED
    BY <2>2, <2>5, <2>6
<1> HIDE DEF place, value
<1>3. DitherOf(X68Words, Len(in.data), in.w, place, value)
  BY <1>2, Zenon DEF DitherOf
<1> QED
  BY <1>3 DEF place, value, t

\* Every step of x68load with its dither keeps the light.
LEMMA X68DitherNext ==
  ASSUME X68Kept, BuffKept(rd), X68Pairs, in.dither,
         Dithered(X68Words, Len(in.data), screen), X68Next
  PROVE  Dithered(X68Words, Len(in.data), screen)'
<1> DEFINE W == X68Words
           len == Len(in.data)
<1>1. W' = W /\ len' = len
  BY DEF X68Next, X68Main, X68Ginit, X68Line, X68Dot, Diffuse, X68Show, X68Dither4, X68KeyC,
         KeyEnd, X68Words, X68Value
<1>2. /\ IsSequence(screen) /\ row \in Nat /\ Len(screen) = 2 * row
      /\ pc # "dot"
  <2>1. X68Per = 2
    BY DEF X68Per
  <2>2. row * X68Per = 2 * row
    BY <2>1 DEF X68Kept, X68Drawn
  <2> QED
    BY <2>2 DEF X68Kept, X68Drawn, X68Reading
<1> HIDE DEF W, len
<1>3. CASE X68Dither4
  <2> DEFINE place == [d \in 1 .. in.w |-> X68Read.buff[X68Read.idx + 2 * (d - 1)]]
             value == [c \in Colour |-> [d \in 1 .. in.w |-> Field(c, X68Word(d))]]
             u == [x |-> 0, y |-> 2 * row, px |-> DitherLine(in.w, TRUE, place, value)]
             l == [x |-> 0, y |-> 2 * row + 1, px |-> DitherLine(in.w, FALSE, place, value)]
  <2>1. pc = "row" /\ (screen' = screen \/ screen' = screen \o <<u, l>>)
    BY <1>3 DEF X68Dither4
  <2>2. DitherOf(W, len, in.w, place, value)
    BY <2>1, X68DitherOf DEF W, len
  <2>3. in.w \in Nat
    BY X68Sizes DEF X68Kept
  <2> HIDE DEF place, value
  <2>4. u.px = DitherLine(in.w, TRUE, place, value) /\ l.px = DitherLine(in.w, FALSE, place, value)
    OBVIOUS
  <2> HIDE DEF u, l
  <2>5. PairSound(W, len, u, l)
    BY <2>2, <2>3, <2>4, DitherPair
  <2>6. Dithered(W, len, screen)
    BY DEF W, len
  <2>7. Dithered(W, len, screen \o <<u, l>>)
    BY <1>2, <2>5, <2>6, DitheredTwo
  <2>8. Dithered(W, len, screen')
    BY <2>1, <2>6, <2>7
  <2> QED
    BY <1>1, <2>8 DEF W, len
<1>4. CASE X68Ginit
  <2>1. screen' = screen \/ screen' = <<>>
    BY <1>4 DEF X68Ginit
  <2>2. Dithered(W, len, <<>>)
    BY EmptyIsSequence DEF Dithered
  <2>3. Dithered(W, len, screen')
    BY <2>1, <2>2 DEF W, len
  <2> QED
    BY <1>1, <2>3 DEF W, len
<1>5. CASE X68Line \/ X68Dot \/ X68Show
  BY <1>2, <1>5 DEF X68Line, X68Dot, Diffuse, X68Show
<1>6. CASE X68Main \/ X68KeyC \/ (KeyEnd /\ UNCHANGED rgbVars)
  <2>1. screen' = screen
    BY <1>6 DEF X68Main, X68KeyC, KeyEnd
  <2> QED
    BY <1>1, <2>1 DEF W, len
<1> QED
  BY <1>3, <1>4, <1>5, <1>6 DEF X68Next

\* The light of x68load's dither is in balance.
LEMMA X68DitherTells ==
  ASSUME X68Kept, in.dither, Dithered(X68Words, Len(in.data), screen)
  PROVE  X68LightBalance
<1>1. ASSUME NEW k \in 1 .. Len(screen) \div 2,
             NEW x \in 1 .. Len(screen[2 * k].px) \div 2, NEW c \in Colour
      PROVE  LET four == {screen[2 * k - 1].px[2 * x - 1][c], screen[2 * k - 1].px[2 * x][c],
                          screen[2 * k].px[2 * x - 1][c], screen[2 * k].px[2 * x][c]}
                 total == screen[2 * k - 1].px[2 * x - 1][c][2] + screen[2 * k - 1].px[2 * x][c][2]
                          + screen[2 * k].px[2 * x - 1][c][2] + screen[2 * k].px[2 * x][c][2]
             IN  /\ \A d, e \in four : d[1] = e[1] /\ d[2] - e[2] <= 1
                 /\ \A d \in four : WholeDot(d[1]) => total = DitherIndex(X68Value(c, d[1]))
  <2> DEFINE W == X68Words
             len == Len(in.data)
             u == screen[2 * k - 1].px[2 * x - 1][c]
             v == screen[2 * k - 1].px[2 * x][c]
             l == screen[2 * k].px[2 * x - 1][c]
             m == screen[2 * k].px[2 * x][c]
             total == u[2] + v[2] + l[2] + m[2]
  <2>1. rd.len = len
    BY DEF X68Kept, X68Phase
  <2>2. \A off \in 0 .. len - 1 : W[c][off] = X68Value(c, off)
    BY <1>1 DEF X68Words
  <2>3. Dithered(W, len, screen)
    OBVIOUS
  <2> HIDE DEF W, len
  <2>4. FourLit(W, len, c, u, v, l, m)
    BY <1>1, <2>3, FourTell, Zenon
  <2> HIDE DEF u, v, l, m
  <2>5. total = u[2] + v[2] + l[2] + m[2]
    OBVIOUS
  <2> HIDE DEF total
  <2>6. /\ \A d, e \in {u, v, l, m} : d[1] = e[1] /\ d[2] - e[2] <= 1
        /\ \A d \in {u, v, l, m} :
             /\ d[1] = Never \/ d[1] \in 0 .. len - 1
             /\ d[1] # Never /\ d[1] + 1 < len => total = DitherIndex(W[c][d[1]])
    BY <2>4, <2>5 DEF FourLit
  <2>7. ASSUME NEW d \in {u, v, l, m}, WholeDot(d[1])
        PROVE  total = DitherIndex(X68Value(c, d[1]))
    <3>1. d[1] # Never /\ d[1] + 1 < len
      BY <2>1, <2>7 DEF WholeDot
    <3>2. d[1] \in 0 .. len - 1 /\ total = DitherIndex(W[c][d[1]])
      BY <2>6, <2>7, <3>1
    <3> QED
      BY <2>2, <3>2
  <2> QED
    BY <2>6, <2>7 DEF u, v, l, m, total
<1>2. DitherBalance(X68Value)
  BY <1>1, Zenon DEF DitherBalance
<1> QED
  BY <1>2, ZenonT(60) DEF X68LightBalance

\* What x68load keeps of its light: of a file that does not end in the middle of a dot
\* by the diffusion, and of any by the dither.
X68Light ==
  /\ X68Pairs
  /\ Multiple(Len(in.data), 2) /\ ~in.dither => Diffused
  /\ in.dither => Dithered(X68Words, Len(in.data), screen)

\* Before the first line nothing is lost.
LEMMA DiffusedBegins == ASSUME pc = "main", screen = <<>> PROVE Diffused
<1>1. LinesOnScreen
  BY EmptyIsSequence DEF LinesOnScreen, AreLines
<1> QED
  BY <1>1 DEF Diffused

\* Nothing is dithered yet.
LEMMA DitheredBegins == ASSUME NEW W, NEW len PROVE Dithered(W, len, <<>>)
BY EmptyIsSequence DEF Dithered

\* x68load begins.
LEMMA X68LightBegins == ASSUME X68Kept, pc = "main" PROVE X68Light
<1>1. rd = Opened(Len(in.data)) /\ screen = <<>> /\ Len(in.data) \in Nat
  BY X68Sizes DEF X68Kept, X68Phase
<1>2. X68Pairs
  BY <1>1, OpenedKeeps DEF X68Pairs
<1> QED
  BY <1>1, <1>2, DiffusedBegins, DitheredBegins DEF X68Light

\* Every step keeps it.
LEMMA X68LightStep ==
  ASSUME prog = "x68load", prog' = prog, X68Kept, RgbTypes, BuffKept(rd), X68Light, X68Next
  PROVE  X68Light'
<1>1. in' = in
  BY DEF X68Next, X68Main, X68Ginit, X68Line, X68Dot, Diffuse, X68Show, X68Dither4, X68KeyC,
         KeyEnd
<1>2. X68Pairs /\ X68Pairs'
  BY X68PairsNext DEF X68Light
<1>3. ASSUME Multiple(Len(in.data), 2), ~in.dither PROVE Diffused'
  <2>1. Diffused /\ Multiple(rd.fp, 2) /\ Uncut(rd)
    BY <1>3 DEF X68Light, X68Pairs
  <2> QED
    BY <1>3, <2>1, X68LightNext
<1>4. ASSUME in.dither PROVE Dithered(X68Words, Len(in.data), screen)'
  <2>1. Dithered(X68Words, Len(in.data), screen)
    BY <1>4 DEF X68Light
  <2> QED
    BY <1>2, <1>4, <2>1, X68DitherNext
<1> QED
  BY <1>1, <1>2, <1>3, <1>4, SMTT(40) DEF X68Light

\* It has the balance.
LEMMA X68BalanceTells ==
  ASSUME prog = "x68load", X68Kept, X68Light
  PROVE  X68LightBalance
<1>1. CASE in.dither
  BY <1>1, X68DitherTells DEF X68Light
<1>2. CASE ~in.dither /\ Len(in.data) % 2 = 0
  <2> DEFINE n == Len(in.data)
  <2>1. n \in Nat
    BY X68Sizes DEF X68Kept
  <2> HIDE DEF n
  <2>2. n % 2 = 0
    BY <1>2 DEF n
  <2>3. n \div 2 \in Nat /\ n = (n \div 2) * 2
    BY <2>1, <2>2
  <2>4. Multiple(n, 2)
    BY <2>3 DEF Multiple
  <2> QED
    BY <1>2, <2>4, X68LightTells DEF X68Light, n
<1>3. CASE ~in.dither /\ Len(in.data) % 2 # 0
  BY <1>3 DEF X68LightBalance
<1> QED
  BY <1>1, <1>2, <1>3

----------------------------------------------------------------------------
(* Light, for tiffload.                                                    *)

\* The colours of the dots of a file of 16 bits, by where they are.
TiffWords == [c \in Colour |-> [off \in 0 .. Len(in.data) - 1 |-> TiffValue(c, off)]]

\* A colour of two bytes has five bits.
LEMMA TiffFieldRange ==
  ASSUME NEW c \in Colour, NEW a \in 0 .. 255, NEW b \in 0 .. 255
  PROVE  TiffField(c, a + 256 * b) \in 0 .. 31
<1> DEFINE v == a + 256 * b
<1>1. v \in Nat
  OBVIOUS
<1> HIDE DEF v
<1>2. (v \div 32) % 32 \in 0 .. 31 /\ (v \div 1024) % 32 \in 0 .. 31 /\ v % 32 \in 0 .. 31
  BY <1>1
<1> QED
  BY <1>2 DEF TiffField, v

\* A line that tiffload reads: dots of two bytes keep them together.
LEMMA TiffLineRead ==
  ASSUME TiffKept, BuffKept(rd), pc = "row", TiffScan > 0
  PROVE  LET t == FreadLine(rd, TiffScan)
         IN  /\ BuffKept(t) /\ t.len = Len(in.data) /\ t.idx \in Nat
             /\ t.idx + TiffScan <= BuffSize /\ TiffScan \in Nat /\ in.data \in Seq(0 .. 255)
             /\ TiffBit = 16 /\ Multiple(rd.fp, 2) /\ Pairs(rd) =>
                  Multiple(t.fp, 2) /\ Multiple(t.idx, 2) /\ Pairs(t)
<1> DEFINE s == TiffScan
           t == FreadLine(rd, s)
<1>1. /\ s \in 1 .. BuffSize /\ rd.len = Len(in.data) /\ in.data \in Seq(0 .. 255)
      /\ TiffXsize \in Nat
  <2>1. IsTiffFile(in) /\ TiffBit \in TiffBits /\ rd.len = Len(in.data)
    BY DEF TiffKept, TiffPhase
  <2>2. s \in 0 .. BuffSize /\ BuffSize \in Nat /\ TiffXsize \in Nat
    BY <2>1, TiffSizes
  <2> HIDE DEF s
  <2>3. s > 0
    BY DEF s
  <2> QED
    BY <2>1, <2>2, <2>3 DEF IsTiffFile
<1>2. t.idx \in Nat /\ LineRead(t, s, TiffAt(row))
  BY TiffReads
<1>3. ASSUME TiffBit = 16 PROVE Multiple(s, 2)
  <2>1. s = TiffXsize * 2
    BY <1>1, <1>3 DEF TiffScan
  <2> QED
    BY <1>1, <2>1 DEF Multiple
<1> HIDE DEF s
<1>4. /\ BuffKept(t) /\ t.len = rd.len
      /\ Multiple(s, 2) /\ Multiple(rd.fp, 2) => Multiple(t.fp, 2) /\ Multiple(t.idx, 2)
      /\ Multiple(s, 2) /\ Pairs(rd) => Pairs(t)
  BY <1>1, FreadLineKeeps
<1>5. t.idx + s <= BuffSize /\ s \in Nat
  BY <1>1, <1>2 DEF LineRead
<1> HIDE DEF t
<1> QED
  BY <1>1, <1>2, <1>3, <1>4, <1>5 DEF s, t

\* A dot of two bytes of it.
LEMMA TiffDot16Read ==
  ASSUME TiffKept, BuffKept(rd), pc = "row", TiffScan > 0, TiffBit = 16,
         Multiple(rd.fp, 2), Pairs(rd), NEW x \in 1 .. TiffWidth
  PROVE  LET t == FreadLine(rd, TiffScan)
             p == t.buff[t.idx + 2 * (x - 1)]
         IN  /\ p \in {Never} \cup 0 .. Len(in.data) - 1
             /\ \A c \in Colour :
                  /\ TiffField(c, TiffWord(t, x)) \in 0 .. 31
                  /\ p # Never /\ p + 1 < Len(in.data) =>
                       TiffField(c, TiffWord(t, x)) = TiffWords[c][p]
<1> DEFINE t == FreadLine(rd, TiffScan)
           k == t.idx + 2 * (x - 1)
           a == Byte(t.buff, k)
           b == Byte(t.buff, k + 1)
           p == t.buff[k]
<1>1. /\ BuffKept(t) /\ t.len = Len(in.data) /\ t.idx \in Nat
      /\ t.idx + TiffScan <= BuffSize /\ in.data \in Seq(0 .. 255)
      /\ Multiple(t.idx, 2) /\ Pairs(t)
  BY TiffLineRead
<1>2. x \in 1 .. TiffXsize /\ TiffXsize \in Nat /\ TiffScan = 2 * TiffXsize /\ BuffSize \in Nat
  <2>1. IsTiffFile(in)
    BY DEF TiffKept
  <2>2. TiffXsize \in Nat /\ TiffWidth \in 0 .. TiffXsize /\ BuffSize \in Nat
    BY <2>1, TiffSizes
  <2> QED
    BY <2>2 DEF TiffScan
<1>3. TiffWord(t, x) = a + 256 * b
  BY DEF TiffWord
<1> HIDE DEF t
<1>4. k \in 0 .. BuffSize - 1 /\ k + 1 \in 0 .. BuffSize - 1
  BY <1>1, <1>2
<1>5. Multiple(k, 2)
  <2>1. PICK j \in Nat : t.idx = j * 2
    BY <1>1 DEF Multiple
  <2>2. j + (x - 1) \in Nat /\ k = (j + (x - 1)) * 2
    BY <1>2, <2>1
  <2> QED
    BY <2>2 DEF Multiple
<1> HIDE DEF k
<1>6. /\ a \in 0 .. 255 /\ b \in 0 .. 255 /\ p \in {Never} \cup 0 .. Len(in.data) - 1
      /\ p # Never /\ p + 1 < Len(in.data) => a = in.data[p + 1] /\ b = in.data[p + 2]
  BY <1>1, <1>4, <1>5, DotBytes, ZenonT(60)
<1> HIDE DEF a, b, p
<1>7. ASSUME NEW c \in Colour
      PROVE  /\ TiffField(c, a + 256 * b) \in 0 .. 31
             /\ p # Never /\ p + 1 < Len(in.data) =>
                  TiffField(c, a + 256 * b) = TiffWords[c][p]
  <2>1. TiffField(c, a + 256 * b) \in 0 .. 31
    BY <1>6, <1>7, TiffFieldRange, ZenonT(60)
  <2>2. ASSUME p # Never, p + 1 < Len(in.data)
        PROVE  TiffField(c, a + 256 * b) = TiffWords[c][p]
    <3>1. p \in 0 .. Len(in.data) - 1
      BY <1>6, <2>2
    <3>2. TiffWords[c][p] = TiffValue(c, p)
      BY <1>7, <3>1 DEF TiffWords
    <3> QED
      BY <1>6, <2>2, <3>2, SMTT(40) DEF TiffValue
  <2> QED
    BY <2>1, <2>2
<1> QED
  BY <1>3, <1>6, <1>7 DEF p, k, t

\* The two lines of the dither for it.
LEMMA TiffDitherOf ==
  ASSUME TiffKept, BuffKept(rd), pc = "row", TiffScan > 0, TiffBit = 16,
         Multiple(rd.fp, 2), Pairs(rd)
  PROVE  LET t == FreadLine(rd, TiffScan)
         IN  DitherOf(TiffWords, Len(in.data), TiffWidth,
                      [d \in 1 .. TiffWidth |-> t.buff[t.idx + 2 * (d - 1)]],
                      [c \in Colour |-> [d \in 1 .. TiffWidth |-> TiffField(c, TiffWord(t, d))]])
<1> DEFINE t == FreadLine(rd, TiffScan)
           W == TiffWords
           len == Len(in.data)
           place == [d \in 1 .. TiffWidth |-> t.buff[t.idx + 2 * (d - 1)]]
           value == [c \in Colour |-> [d \in 1 .. TiffWidth |-> TiffField(c, TiffWord(t, d))]]
<1>1. ASSUME NEW d \in 1 .. TiffWidth
      PROVE  /\ place[d] \in {Never} \cup 0 .. len - 1
             /\ \A c \in Colour :
                  /\ value[c][d] \in 0 .. 31
                  /\ place[d] # Never /\ place[d] + 1 < len => value[c][d] = W[c][place[d]]
  <2> DEFINE p == t.buff[t.idx + 2 * (d - 1)]
             f(c) == TiffField(c, TiffWord(t, d))
  <2>1. /\ p \in {Never} \cup 0 .. len - 1
        /\ \A c \in Colour : f(c) \in 0 .. 31 /\ (p # Never /\ p + 1 < len => f(c) = W[c][p])
    BY <1>1, TiffDot16Read
  <2>2. place[d] = p /\ \A c \in Colour : value[c][d] = f(c)
    BY <1>1
  <2> HIDE DEF p, f, place, value
  <2> QED
    BY <2>1, <2>2
<1> HIDE DEF place, value, W, len
<1>2. DitherOf(W, len, TiffWidth, place, value)
  BY <1>1, Zenon DEF DitherOf
<1> QED
  BY <1>2 DEF place, value, t, W, len

\* A level of a colour is less than one from the value, of full, it stands for.
IsNear(full, value, level) == level * full - 5 * value \in 1 - full .. full - 1

\* The levels of five bits.
LEMMA FieldNear == ASSUME NEW v \in 0 .. 31 PROVE IsNear(31, v, (4 * v) \div 21)
<1> DEFINE q == (4 * v) \div 21
<1>1. q \in Nat /\ 21 * q <= 4 * v /\ 4 * v < 21 * q + 21
  OBVIOUS
<1> HIDE DEF q
<1>2. q * 31 - 5 * v \in 1 - 31 .. 31 - 1
  BY <1>1
<1> QED
  BY <1>2 DEF IsNear, q

\* Those of a byte.
LEMMA ByteNear == ASSUME NEW v \in 0 .. 255 PROVE IsNear(255, v, (v + 25) \div 51)
<1> DEFINE q == (v + 25) \div 51
<1>1. q \in Nat /\ 51 * q <= v + 25 /\ v + 25 < 51 * q + 51
  OBVIOUS
<1> HIDE DEF q
<1>2. q * 255 - 5 * v \in 1 - 255 .. 255 - 1
  BY <1>1
<1> QED
  BY <1>2 DEF IsNear, q

\* A dot on the screen is near that of the file, when the file has it.
DotNear(dot) ==
  \A c \in Colour :
    /\ TiffBit = 16 /\ dot[c][1] # Never /\ dot[c][1] + 1 < Len(in.data) =>
         IsNear(31, TiffValue(c, dot[c][1]), dot[c][2])
    /\ TiffBit = 24 /\ dot[c][1] # Never => IsNear(255, in.data[dot[c][1] + 1], dot[c][2])

\* So are those of all lines.
LinesNear == \A k \in 1 .. Len(screen) : \A x \in 1 .. Len(screen[k].px) : DotNear(screen[k].px[x])

\* Of the three bytes of a dot each is of a colour.
LEMMA WhichByte ==
  ASSUME NEW c \in Colour
  PROVE  (CHOOSE n \in 1 .. 3 : TiffByteWeight[n] = TiffLutWeight[c]) \in 1 .. 3
<1>1. TiffByteWeight[1] = 1 /\ TiffByteWeight[2] = 6 /\ TiffByteWeight[3] = 36
  BY DEF TiffByteWeight
<1>2. TiffLutWeight[c] \in {1, 6, 36}
  BY DEF TiffLutWeight, Colour
<1>3. \E n \in 1 .. 3 : TiffByteWeight[n] = TiffLutWeight[c]
  BY <1>1, <1>2
<1> QED
  BY <1>3

\* A dot that tiffload draws as it is.
LEMMA TiffDotNear ==
  ASSUME TiffKept, BuffKept(rd), pc = "row", TiffScan > 0, TiffBit \in {16, 24},
         TiffBit = 16 => Multiple(rd.fp, 2) /\ Pairs(rd), NEW x \in 1 .. TiffWidth
  PROVE  DotNear(TiffPixels(FreadLine(rd, TiffScan))[x])
<1> DEFINE t == FreadLine(rd, TiffScan)
           dot == TiffPixels(t)[x]
<1>1. CASE TiffBit = 16
  <2> DEFINE p == t.buff[t.idx + 2 * (x - 1)]
             f(c) == TiffField(c, TiffWord(t, x))
  <2>1. \A c \in Colour : dot[c] = <<p, (4 * f(c)) \div 21>>
    BY <1>1 DEF TiffPixels, TiffDot16
  <2>2. /\ p \in {Never} \cup 0 .. Len(in.data) - 1
        /\ \A c \in Colour : /\ f(c) \in 0 .. 31
                             /\ p # Never /\ p + 1 < Len(in.data) => f(c) = TiffWords[c][p]
    BY <1>1, TiffDot16Read
  <2> HIDE DEF p, f, dot
  <2>3. ASSUME NEW c \in Colour, p # Never, p + 1 < Len(in.data)
        PROVE  dot[c][1] = p /\ IsNear(31, TiffValue(c, p), dot[c][2])
    <3>1. p \in 0 .. Len(in.data) - 1
      BY <2>2, <2>3
    <3>2. f(c) = TiffValue(c, p)
      BY <2>2, <2>3, <3>1 DEF TiffWords
    <3>3. f(c) \in 0 .. 31
      BY <2>2, <2>3
    <3>4. IsNear(31, f(c), (4 * f(c)) \div 21)
      BY <3>3, FieldNear
    <3> QED
      BY <2>1, <2>3, <3>2, <3>4
  <2>4. \A c \in Colour : dot[c][1] = p
    BY <2>1
  <2>5. DotNear(dot)
    BY <1>1, <2>3, <2>4 DEF DotNear
  <2> QED
    BY <2>5 DEF dot
<1>2. CASE TiffBit = 24
  <2> DEFINE j(c) == CHOOSE n \in 1 .. 3 : TiffByteWeight[n] = TiffLutWeight[c]
             k(c) == t.idx + 3 * (x - 1) + j(c) - 1
             b(c) == Byte(t.buff, k(c))
  <2>1. \A c \in Colour : dot[c] = <<t.buff[k(c)], (b(c) + 25) \div 51>>
    BY <1>2 DEF TiffPixels, TiffDot24
  <2>2. \A c \in Colour : j(c) \in 1 .. 3
    BY WhichByte
  <2>3. /\ BuffKept(t) /\ t.len = Len(in.data) /\ t.idx \in Nat
        /\ t.idx + TiffScan <= BuffSize /\ in.data \in Seq(0 .. 255)
    BY TiffLineRead
  <2>4. x \in 1 .. TiffXsize /\ TiffXsize \in Nat /\ TiffScan = 3 * TiffXsize /\ BuffSize \in Nat
    <3>1. IsTiffFile(in)
      BY DEF TiffKept
    <3>2. TiffXsize \in Nat /\ TiffWidth \in 0 .. TiffXsize /\ BuffSize \in Nat
      BY <3>1, TiffSizes
    <3> QED
      BY <1>2, <3>2 DEF TiffScan
  <2> HIDE DEF j, t, dot
  <2>5. ASSUME NEW c \in Colour, dot[c][1] # Never
        PROVE  IsNear(255, in.data[dot[c][1] + 1], dot[c][2])
    <3> DEFINE p == t.buff[k(c)]
               v == in.data[p + 1]
               n == k(c)
    <3>1. n \in 0 .. BuffSize - 1
      BY <2>2, <2>3, <2>4, <2>5, SMTT(40)
    <3> HIDE DEF n
    <3>2. b(c) \in 0 .. 255
      <4>1. Byte(t.buff, n) \in 0 .. 255
        BY <2>3, <3>1, ByteRange
      <4> QED
        BY <4>1 DEF n
    <3>3. dot[c] = <<p, (b(c) + 25) \div 51>>
      BY <2>1, <2>5
    <3> HIDE DEF p, v
    <3>4. dot[c][1] = p /\ dot[c][2] = (b(c) + 25) \div 51
      BY <3>3
    <3>5. b(c) = v
      BY <2>5, <3>4 DEF Byte, p, v
    <3>6. IsNear(255, b(c), (b(c) + 25) \div 51)
      BY <3>2, ByteNear
    <3> QED
      BY <3>4, <3>5, <3>6 DEF v
  <2>6. DotNear(dot)
    BY <1>2, <2>5 DEF DotNear
  <2> QED
    BY <2>6 DEF dot, t
<1> QED
  BY <1>1, <1>2

\* What tiffload keeps: dots of two bytes have both in the buffer, next to each other,
TiffPairs == rd.len = Len(in.data) /\ (TiffBit = 16 => Multiple(rd.fp, 2) /\ Pairs(rd))

\* and what is on the screen is as light as the file.
TiffLight ==
  /\ TiffPairs
  /\ TiffTwice => Dithered(TiffWords, Len(in.data), screen)
  /\ TiffBit \in {16, 24} /\ ~TiffTwice => LinesNear

\* tiffload begins.
LEMMA TiffLightBegins == ASSUME TiffKept, pc = "main" PROVE TiffLight
<1>1. rd = Opened(Len(in.data)) /\ screen = <<>> /\ Len(in.data) \in Nat
  BY TiffSizes DEF TiffKept, TiffPhase
<1>2. TiffPairs
  BY <1>1, OpenedKeeps DEF TiffPairs
<1>3. LinesNear
  BY <1>1, EmptyIsSequence DEF LinesNear
<1> QED
  BY <1>1, <1>2, <1>3, DitheredBegins DEF TiffLight

\* What is said of the file and its colours stays while the file does.
LEMMA TiffLightFrame ==
  ASSUME IsTiffFile(in), in' = in
  PROVE  /\ TiffBit' = TiffBit /\ TiffTwice' = TiffTwice /\ TiffWords' = TiffWords
         /\ \A dot : DotNear(dot)' = DotNear(dot)
<1>1. TiffBit' = TiffBit
  BY TiffFrame
<1> QED
  BY <1>1 DEF TiffTwice, TiffWords, TiffValue, DotNear

\* A screen that stays, or is made empty, has its light.
LEMMA TiffScreenStays ==
  ASSUME TiffKept, TiffLight, in' = in, screen' = screen \/ screen' = <<>>, TiffPairs'
  PROVE  TiffLight'
<1> DEFINE W == TiffWords
           len == Len(in.data)
<1>1. /\ TiffBit' = TiffBit /\ TiffTwice' = TiffTwice /\ W' = W /\ len' = len
      /\ \A dot : DotNear(dot)' = DotNear(dot)
  BY TiffLightFrame DEF TiffKept
<1>2. TiffTwice => Dithered(W, len, screen)
  BY DEF TiffLight
<1> HIDE DEF W, len
<1>3. TiffTwice => Dithered(W, len, screen')
  BY <1>2, DitheredBegins
<1>4. (TiffTwice => Dithered(W, len, screen))'
  BY <1>1, <1>3
<1>5. ASSUME TiffBit \in {16, 24}, ~TiffTwice PROVE LinesNear'
  <2>1. LinesNear
    BY <1>5 DEF TiffLight
  <2> QED
    BY <1>1, <2>1, EmptyIsSequence DEF LinesNear
<1> QED
  BY <1>1, <1>4, <1>5 DEF TiffLight, W, len

\* The headers and the palette are read, into a buffer with whole dots.
LEMMA TiffGaloadLight ==
  ASSUME TiffKept, BuffKept(rd), TiffLight, TiffGaload
  PROVE  TiffLight'
<1> DEFINE head == ReadTo(rd, HeadBytes)
           moved == [head EXCEPT !.at = TiffTag("colormap", 0)]
           lut == IF TiffTag("photometric", 0) = 3 THEN ReadTo(moved, 6 * ColorMax) ELSE head
           o == TiffTag("offset", 0)
           P(r) == r.len = Len(in.data) /\ (TiffBit = 16 => Multiple(r.fp, 2) /\ Pairs(r))
<1>1. rd' = head \/ rd' = [lut EXCEPT !.at = o]
  BY DEF TiffGaload
<1>2. /\ o \in Nat /\ TiffTag("colormap", 0) \in Nat /\ HeadBytes \in Nat /\ 6 * ColorMax \in Nat
  BY TiffSizes, TiffAssumption DEF TiffKept, ColorMax
<1>3. Multiple(HeadBytes, 2)
  <2>1. HeadBytes \div 2 \in Nat /\ HeadBytes = (HeadBytes \div 2) * 2
    BY TiffAssumption
  <2> QED
    BY <2>1 DEF Multiple
<1>4. TiffBit = 16 => Multiple(6 * ColorMax, 2)
  <2>1. TiffBit = 16 => 6 * ColorMax = 0 * 2
    BY DEF ColorMax
  <2> QED
    BY <2>1 DEF Multiple
<1>5. \A r, n : BuffKept(r) => /\ [r EXCEPT !.at = n].len = r.len /\ [r EXCEPT !.at = n].fp = r.fp
                               /\ [r EXCEPT !.at = n].buff = r.buff
  BY DEF BuffKept, RdType
<1>6. BuffKept(head) /\ P(head)
  <2>1. P(rd)
    BY DEF TiffLight, TiffPairs
  <2> QED
    BY <1>2, <1>3, <2>1, ReadToKeeps
<1> HIDE DEF head
<1>7. BuffKept(moved) /\ P(moved)
  <2>1. BuffKept(moved)
    BY <1>2, <1>6, MovedKeeps
  <2>2. moved.len = head.len /\ moved.fp = head.fp /\ moved.buff = head.buff
    BY <1>5, <1>6
  <2> HIDE DEF moved
  <2> QED
    BY <1>6, <2>1, <2>2 DEF Pairs
<1> HIDE DEF moved
<1>8. BuffKept(lut) /\ P(lut)
  BY <1>2, <1>4, <1>6, <1>7, ReadToKeeps
<1> HIDE DEF lut
<1>9. P([lut EXCEPT !.at = o])
  <2> DEFINE l == [lut EXCEPT !.at = o]
  <2>1. l.len = lut.len /\ l.fp = lut.fp /\ l.buff = lut.buff
    BY <1>5, <1>8
  <2> HIDE DEF l
  <2>2. P(l)
    BY <1>8, <2>1 DEF Pairs
  <2> QED
    BY <2>2 DEF l
<1>10. P(rd')
  BY <1>1, <1>6, <1>9
<1>11. in' = in /\ screen' = screen
  BY DEF TiffGaload
<1>12. TiffBit' = TiffBit
  BY <1>11, TiffLightFrame DEF TiffKept
<1>13. TiffPairs'
  BY <1>10, <1>11, <1>12 DEF TiffPairs
<1> QED
  BY <1>11, <1>13, TiffScreenStays

\* A line more that is near the file's.
LEMMA NearAdds ==
  ASSUME IsSequence(screen), LinesNear, NEW e, NEW n \in Nat,
         e.px = [x \in 1 .. n |-> e.px[x]], \A x \in 1 .. n : DotNear(e.px[x]),
         screen' = Append(screen, e), \A dot : DotNear(dot)' = DotNear(dot)
  PROVE  LinesNear'
<1> DEFINE t == screen'
<1>1. /\ Len(screen) \in Nat /\ Len(t) = Len(screen) + 1 /\ t[Len(screen) + 1] = e
      /\ \A k \in 1 .. Len(screen) : t[k] = screen[k]
  BY Appended
<1>2. Len(e.px) = n
  BY LengthOf
<1> HIDE DEF t
<1>3. \A k \in 1 .. Len(t) : \A x \in 1 .. Len(t[k].px) : DotNear(t[k].px[x])
  <2> SUFFICES ASSUME NEW k \in 1 .. Len(t), NEW x \in 1 .. Len(t[k].px)
               PROVE  DotNear(t[k].px[x])
    OBVIOUS
  <2>1. CASE k = Len(screen) + 1
    <3>1. t[k] = e /\ x \in 1 .. n
      BY <1>1, <1>2, <2>1
    <3> QED
      BY <3>1
  <2>2. CASE k # Len(screen) + 1
    <3>1. k \in 1 .. Len(screen) /\ t[k] = screen[k]
      BY <1>1, <2>2
    <3> QED
      BY <3>1 DEF LinesNear
  <2> QED
    BY <2>1, <2>2
<1> QED
  BY <1>3 DEF LinesNear, t

\* A line of the file more, or none.
LEMMA TiffRowLight ==
  ASSUME TiffKept, BuffKept(rd), TiffLight, TiffRow
  PROVE  TiffLight'
<1> DEFINE t == FreadLine(rd, TiffScan)
           new == [x |-> 0, y |-> row, px |-> TiffPixels(t)]
           place == [d \in 1 .. TiffWidth |-> t.buff[t.idx + 2 * (d - 1)]]
           value == [c \in Colour |-> [d \in 1 .. TiffWidth |-> TiffField(c, TiffWord(t, d))]]
           upper == [x |-> 0, y |-> 2 * row, px |-> DitherLine(TiffWidth, TRUE, place, value)]
           lower == [x |-> 0, y |-> 2 * row + 1,
                     px |-> DitherLine(TiffWidth, FALSE, place, value)]
           W == TiffWords
           len == Len(in.data)
<1>1. pc = "row" /\ in' = in
  BY DEF TiffRow
<1>2. \/ screen' = screen /\ (rd' = rd \/ (TiffScan > 0 /\ rd' = t))
      \/ TiffScan > 0 /\ rd' = t /\ TiffTwice /\ screen' = screen \o <<upper, lower>>
      \/ TiffScan > 0 /\ rd' = t /\ ~TiffTwice /\ screen' = Append(screen, new)
  BY Zenon DEF TiffRow, TiffFreadline, Dither16, Draw, TiffTwice
<1>3. /\ IsSequence(screen) /\ row \in Nat /\ Len(screen) = row * TiffPer
      /\ IsTiffFile(in) /\ TiffWidth \in Nat
  BY <1>1, TiffSizes DEF TiffKept, TiffPhase, TiffDrawn
<1>4. /\ TiffBit' = TiffBit /\ TiffTwice' = TiffTwice /\ W' = W /\ len' = len
      /\ \A dot : DotNear(dot)' = DotNear(dot)
  BY <1>1, <1>3, TiffLightFrame
<1>5. TiffBit = 16 => Multiple(rd.fp, 2) /\ Pairs(rd)
  BY DEF TiffLight, TiffPairs
<1>6. TiffPairs'
  <2>1. TiffScan > 0 => t.len = len /\ (TiffBit = 16 => Multiple(t.fp, 2) /\ Pairs(t))
    BY <1>1, <1>5, TiffLineRead
  <2>2. rd.len = len /\ (rd' = rd \/ (TiffScan > 0 /\ rd' = t))
    BY <1>2 DEF TiffLight, TiffPairs
  <2> HIDE DEF t, len
  <2>3. rd'.len = len /\ (TiffBit = 16 => Multiple(rd'.fp, 2) /\ Pairs(rd'))
    BY <1>5, <2>1, <2>2
  <2> QED
    BY <1>4, <2>3 DEF TiffPairs, len
<1>7. CASE screen' = screen
  BY <1>1, <1>6, <1>7, TiffScreenStays
<1>8. CASE TiffScan > 0 /\ TiffTwice /\ screen' = screen \o <<upper, lower>>
  <2>1. TiffBit = 16
    BY <1>8 DEF TiffTwice
  <2>2. DitherOf(W, len, TiffWidth, place, value)
    BY <1>1, <1>5, <1>8, <2>1, TiffDitherOf
  <2>3. Dithered(W, len, screen)
    BY <1>8 DEF TiffLight
  <2> HIDE DEF place, value, W, len
  <2>4. /\ upper.px = DitherLine(TiffWidth, TRUE, place, value)
        /\ lower.px = DitherLine(TiffWidth, FALSE, place, value)
    OBVIOUS
  <2> HIDE DEF upper, lower
  <2>5. PairSound(W, len, upper, lower)
    BY <1>3, <2>2, <2>4, DitherPair
  <2>6. Len(screen) = 2 * row
    <3>1. TiffPer = 2
      BY <1>8 DEF TiffPer
    <3> QED
      BY <1>3, <3>1
  <2>7. Dithered(W, len, screen \o <<upper, lower>>)
    BY <1>3, <2>3, <2>5, <2>6, DitheredTwo
  <2>8. Dithered(W, len, screen)'
    BY <1>4, <1>8, <2>7
  <2> QED
    BY <1>4, <1>6, <1>8, <2>8 DEF TiffLight, W, len
<1>9. CASE TiffScan > 0 /\ ~TiffTwice /\ screen' = Append(screen, new)
  <2>1. ASSUME TiffBit \in {16, 24} PROVE LinesNear'
    <3>1. \A x \in 1 .. TiffWidth : DotNear(TiffPixels(t)[x])
      BY <1>1, <1>5, <1>9, <2>1, TiffDotNear
    <3>2. /\ new.px = [x \in 1 .. TiffWidth |-> new.px[x]]
          /\ \A x \in 1 .. TiffWidth : DotNear(new.px[x])
      <4> DEFINE px == TiffPixels(t)
      <4>1. px = [x \in 1 .. TiffWidth |-> px[x]]
        BY DEF TiffPixels
      <4>2. new.px = px
        OBVIOUS
      <4> HIDE DEF px, new
      <4>3. \A x \in 1 .. TiffWidth : DotNear(px[x])
        BY <3>1 DEF px
      <4> QED
        BY <4>1, <4>2, <4>3
    <3>3. LinesNear
      BY <1>9, <2>1 DEF TiffLight
    <3> HIDE DEF new
    <3> QED
      BY <1>3, <1>4, <1>9, <3>2, <3>3, NearAdds
  <2> QED
    BY <1>4, <1>6, <1>9, <2>1 DEF TiffLight
<1> HIDE DEF t, new, upper, lower, W, len
<1> QED
  BY <1>2, <1>7, <1>8, <1>9

\* Every step keeps it.
LEMMA TiffLightStep ==
  ASSUME TiffKept, BuffKept(rd), TiffLight, TiffNext
  PROVE  TiffLight'
<1>1. CASE TiffMain \/ TiffGinit \/ TiffKeyC \/ KeyEnd
  <2>1. in' = in /\ rd' = rd /\ (screen' = screen \/ screen' = <<>>)
    BY <1>1 DEF TiffMain, TiffGinit, TiffKeyC, KeyEnd
  <2>2. TiffBit' = TiffBit
    BY <2>1, TiffLightFrame DEF TiffKept
  <2>3. TiffPairs'
    BY <2>1, <2>2 DEF TiffLight, TiffPairs
  <2> QED
    BY <2>1, <2>3, TiffScreenStays
<1> QED
  BY <1>1, TiffGaloadLight, TiffRowLight DEF TiffNext

\* The light of tiffload's dither is in balance.
LEMMA TiffDitherTells ==
  ASSUME rd.len = Len(in.data), Dithered(TiffWords, Len(in.data), screen)
  PROVE  DitherBalance(TiffValue)
<1>1. ASSUME NEW k \in 1 .. Len(screen) \div 2,
             NEW x \in 1 .. Len(screen[2 * k].px) \div 2, NEW c \in Colour
      PROVE  LET four == {screen[2 * k - 1].px[2 * x - 1][c], screen[2 * k - 1].px[2 * x][c],
                          screen[2 * k].px[2 * x - 1][c], screen[2 * k].px[2 * x][c]}
                 total == screen[2 * k - 1].px[2 * x - 1][c][2] + screen[2 * k - 1].px[2 * x][c][2]
                          + screen[2 * k].px[2 * x - 1][c][2] + screen[2 * k].px[2 * x][c][2]
             IN  /\ \A d, e \in four : d[1] = e[1] /\ d[2] - e[2] <= 1
                 /\ \A d \in four : WholeDot(d[1]) => total = DitherIndex(TiffValue(c, d[1]))
  <2> DEFINE W == TiffWords
             len == Len(in.data)
             u == screen[2 * k - 1].px[2 * x - 1][c]
             v == screen[2 * k - 1].px[2 * x][c]
             l == screen[2 * k].px[2 * x - 1][c]
             m == screen[2 * k].px[2 * x][c]
             total == u[2] + v[2] + l[2] + m[2]
  <2>1. rd.len = len
    OBVIOUS
  <2>2. \A off \in 0 .. len - 1 : W[c][off] = TiffValue(c, off)
    BY <1>1 DEF TiffWords
  <2>3. Dithered(W, len, screen)
    OBVIOUS
  <2> HIDE DEF W, len
  <2>4. FourLit(W, len, c, u, v, l, m)
    BY <1>1, <2>3, FourTell, Zenon
  <2> HIDE DEF u, v, l, m
  <2>5. total = u[2] + v[2] + l[2] + m[2]
    OBVIOUS
  <2> HIDE DEF total
  <2>6. /\ \A d, e \in {u, v, l, m} : d[1] = e[1] /\ d[2] - e[2] <= 1
        /\ \A d \in {u, v, l, m} :
             /\ d[1] = Never \/ d[1] \in 0 .. len - 1
             /\ d[1] # Never /\ d[1] + 1 < len => total = DitherIndex(W[c][d[1]])
    BY <2>4, <2>5 DEF FourLit
  <2>7. ASSUME NEW d \in {u, v, l, m}, WholeDot(d[1])
        PROVE  total = DitherIndex(TiffValue(c, d[1]))
    <3>1. d[1] # Never /\ d[1] + 1 < len
      BY <2>1, <2>7 DEF WholeDot
    <3>2. d[1] \in 0 .. len - 1 /\ total = DitherIndex(W[c][d[1]])
      BY <2>6, <2>7, <3>1
    <3> QED
      BY <2>2, <3>2
  <2> QED
    BY <2>6, <2>7 DEF u, v, l, m, total
<1> QED
  BY <1>1, Zenon DEF DitherBalance

\* Lines near the file's are as near as the specification states.
LEMMA TiffNearTells ==
  ASSUME rd.len = Len(in.data), TiffBit \in {16, 24}, LinesNear
  PROVE  TiffNear
<1>1. ASSUME NEW k \in 1 .. Len(screen), NEW x \in 1 .. Len(screen[k].px), NEW c \in Colour
      PROVE  LET dot == screen[k].px[x][c]
                 full == IF TiffBit = 16 THEN 31 ELSE 255
                 v == IF TiffBit = 16 THEN TiffValue(c, dot[1]) ELSE in.data[dot[1] + 1]
             IN  (IF TiffBit = 16 THEN WholeDot(dot[1]) ELSE dot[1] # Never) =>
                   dot[2] * full - 5 * v \in 1 - full .. full - 1
  <2> DEFINE all == screen[k].px[x]
             dot == all[c]
  <2>1. DotNear(all)
    BY <1>1 DEF LinesNear
  <2> HIDE DEF all
  <2>2. /\ TiffBit = 16 /\ dot[1] # Never /\ dot[1] + 1 < Len(in.data) =>
             IsNear(31, TiffValue(c, dot[1]), dot[2])
        /\ TiffBit = 24 /\ dot[1] # Never => IsNear(255, in.data[dot[1] + 1], dot[2])
    BY <1>1, <2>1, SMTT(40) DEF DotNear
  <2> HIDE DEF dot
  <2>3. CASE TiffBit = 16
    <3>1. WholeDot(dot[1]) => IsNear(31, TiffValue(c, dot[1]), dot[2])
      BY <2>2, <2>3 DEF WholeDot
    <3>2. WholeDot(dot[1]) => dot[2] * 31 - 5 * TiffValue(c, dot[1]) \in 1 - 31 .. 31 - 1
      BY <3>1, SMTT(40) DEF IsNear
    <3> QED
      BY <2>3, <3>2 DEF dot, all
  <2>4. CASE TiffBit = 24
    <3>1. dot[1] # Never => dot[2] * 255 - 5 * in.data[dot[1] + 1] \in 1 - 255 .. 255 - 1
      BY <2>2, <2>4 DEF IsNear
    <3>2. TiffBit # 16
      BY <2>4, SMTT(40)
    <3> DEFINE v == in.data[dot[1] + 1]
    <3>3. dot[1] # Never => dot[2] * 255 - 5 * v \in 1 - 255 .. 255 - 1
      BY <3>1
    <3> HIDE DEF v
    <3>4. (IF TiffBit = 16 THEN WholeDot(dot[1]) ELSE dot[1] # Never) =>
            dot[2] * (IF TiffBit = 16 THEN 31 ELSE 255)
              - 5 * (IF TiffBit = 16 THEN TiffValue(c, dot[1]) ELSE v)
              \in 1 - (IF TiffBit = 16 THEN 31 ELSE 255) .. (IF TiffBit = 16 THEN 31 ELSE 255) - 1
      BY <3>2, <3>3
    <3> QED
      BY <3>4, SMTT(40) DEF v, dot, all
  <2> QED
    BY <2>3, <2>4
<1> QED
  BY <1>1, Zenon DEF TiffNear

\* It has the balance.
LEMMA TiffBalanceTells == ASSUME TiffLight PROVE TiffLightBalance
<1>1. rd.len = Len(in.data)
  BY DEF TiffLight, TiffPairs
<1>2. ASSUME TiffTwice PROVE DitherBalance(TiffValue)
  BY <1>1, <1>2, TiffDitherTells DEF TiffLight
<1>3. ASSUME TiffBit \in {16, 24}, ~TiffTwice PROVE TiffNear
  BY <1>1, <1>3, TiffNearTells DEF TiffLight
<1> QED
  BY <1>2, <1>3 DEF TiffLightBalance, TiffTwice

----------------------------------------------------------------------------
(* Light, in all of the programs.                                          *)

\* Each program that makes fewer colours keeps the light.
LightInv ==
  /\ prog = "rgbload" => Diffused
  /\ prog = "x68load" => X68Light
  /\ prog = "tiffload" => TiffLight

\* They begin with an empty screen.
LEMMA LightInit == ASSUME Init PROVE LightInv
<1>1. X68Inv /\ TiffInv
  BY PictureInit DEF PictureInv
<1>2. ASSUME prog = "rgbload" PROVE Diffused
  <2>1. PICK f \in RgbFiles : RgbStart("rgbload", f) \/ RgbStart("rgbld16", f)
    BY <1>2 DEF Init, BmpStart, SaveStart, X68Start, RgbStart, TiffStart
  <2>2. pc = "main" /\ screen = <<>>
    BY <2>1 DEF RgbStart
  <2> QED
    BY <2>2, DiffusedBegins
<1>3. ASSUME prog = "x68load" PROVE X68Light
  <2>1. PICK f \in X68Files : X68Start(f)
    BY <1>3 DEF Init, BmpStart, SaveStart, RgbStart, TiffStart
  <2>2. pc = "main"
    BY <2>1 DEF X68Start, RgbStart
  <2> QED
    BY <1>1, <1>3, <2>2, X68LightBegins DEF X68Inv
<1>4. ASSUME prog = "tiffload" PROVE TiffLight
  <2>1. PICK f \in TiffFiles : TiffStart(f)
    BY <1>4 DEF Init, BmpStart, SaveStart, RgbStart, X68Start
  <2>2. pc = "main"
    BY <2>1 DEF TiffStart
  <2> QED
    BY <1>1, <1>4, <2>2, TiffLightBegins DEF TiffInv
<1> QED
  BY <1>2, <1>3, <1>4 DEF LightInv

\* When nothing happens it stays.
LEMMA LightRests == ASSUME PictureInv, LightInv, UNCHANGED vars PROVE LightInv'
<1>1. UNCHANGED <<prog, pc, in, rd, row, screen, av1, av2, av3, line>>
  BY DEF vars, gaVars, rgbVars
<1>2. ASSUME Diffused PROVE Diffused'
  <2>1. Places' = Places /\ FileLight' = FileLight
    BY <1>1, LightFrame
  <2>2. LinesOnScreen' = LinesOnScreen
    BY <1>1, <2>1 DEF LinesOnScreen
  <2>3. RowPlaces' = RowPlaces
    BY <1>1 DEF RowPlaces, RgbPlace, X68Place
  <2>4. \A c : RowsLost(c)' = RowsLost(c) /\ DotsLost(c)' = DotsLost(c)
    BY <1>1, <2>1, <2>3 DEF RowsLost, DotsLost
  <2> QED
    BY <1>1, <1>2, <2>1, <2>2, <2>3, <2>4 DEF Diffused
<1>3. ASSUME X68Light PROVE X68Light'
  <2>1. X68Words' = X68Words
    BY <1>1 DEF X68Words, X68Value
  <2>2. X68Pairs' = X68Pairs
    BY <1>1 DEF X68Pairs
  <2> QED
    BY <1>1, <1>2, <1>3, <2>1, <2>2 DEF X68Light
<1>4. ASSUME prog = "tiffload", TiffLight PROVE TiffLight'
  <2>1. TiffKept
    BY <1>4 DEF PictureInv, TiffInv
  <2>2. TiffBit' = TiffBit
    BY <1>1, <2>1, TiffLightFrame DEF TiffKept
  <2>3. TiffPairs'
    BY <1>1, <1>4, <2>2 DEF TiffLight, TiffPairs
  <2> QED
    BY <1>1, <1>4, <2>1, <2>3, TiffScreenStays
<1> QED
  BY <1>1, <1>2, <1>3, <1>4 DEF LightInv

\* Every step of every picture program keeps it.
LEMMA LightStep == ASSUME PictureInv, TypeInv, LightInv, [Next]_vars PROVE LightInv'
<1>1. BuffKept(rd) /\ RgbInv /\ X68Inv /\ TiffInv
  BY DEF PictureInv, TypeInv
<1>2. CASE RunBmpLoad \/ RunBmpSave \/ RunRgbld16 \/ LoadSaved
  <2>1. prog' \in {"bmpload", "bmpsave", "rgbld16"}
    BY <1>2 DEF RunBmpLoad, RunBmpSave, RunRgbld16, LoadSaved
  <2> QED
    BY <2>1 DEF LightInv
<1>3. CASE RunRgbLoad
  <2>1. prog = "rgbload" /\ prog' = prog /\ RgbNext
    BY <1>3 DEF RunRgbLoad
  <2>2. Diffused'
    BY <1>1, <2>1, RgbLightNext DEF LightInv, TypeInv, RgbInv
  <2> QED
    BY <2>1, <2>2 DEF LightInv
<1>4. CASE RunX68Load
  <2>1. prog = "x68load" /\ prog' = prog /\ X68Next
    BY <1>4 DEF RunX68Load
  <2>2. X68Light'
    BY <1>1, <2>1, X68LightStep DEF LightInv, TypeInv, X68Inv
  <2> QED
    BY <2>1, <2>2 DEF LightInv
<1>5. CASE RunTiffLoad
  <2>1. prog = "tiffload" /\ prog' = prog /\ TiffNext
    BY <1>5 DEF RunTiffLoad
  <2>2. TiffLight'
    BY <1>1, <2>1, TiffLightStep DEF LightInv, TiffInv
  <2> QED
    BY <2>1, <2>2 DEF LightInv
<1>6. CASE UNCHANGED vars
  BY <1>6, LightRests
<1> QED
  BY <1>2, <1>3, <1>4, <1>5, <1>6 DEF Next

\* It is the balance that the specification states.
LEMMA LightTells == ASSUME PictureInv, LightInv PROVE NoLightCreated
<1>1. prog = "rgbload" => RgbLightBalance
  BY RgbLightTells DEF LightInv
<1>2. prog = "x68load" => X68LightBalance
  BY X68BalanceTells DEF LightInv, PictureInv, X68Inv
<1>3. prog = "tiffload" => TiffLightBalance
  BY TiffBalanceTells DEF LightInv
<1> QED
  BY <1>1, <1>2, <1>3 DEF NoLightCreated

\* For any files and any random numbers: what rgbload and x68load show by diffusion, with
\* what waits to be passed on, has no more light than the file's dots, and less by at most
\* three parts for each (x68load: of files that do not end in the middle of a dot); the
\* dithers of x68load and tiffload give four dots just the light of the file's one, and
\* none of the four more than a level above another; and a dot of tiffload without dither
\* is less than a level off.
THEOREM NoLightCreatedHolds == Spec => []NoLightCreated
<1> DEFINE Inv == PictureInv /\ TypeInv /\ LightInv
<1>1. Init => Inv
  BY PictureInit, TypeInit, LightInit
<1>2. Inv /\ [Next]_vars => Inv'
  BY PictureStep, TypeStep, LightStep
<1>3. Inv => NoLightCreated
  BY LightTells
<1> QED
  BY <1>1, <1>2, <1>3, PTL DEF Spec

============================================================================
