------------------------------ MODULE BmpLoad -------------------------------
(***************************************************************************)
(* ga/sample/bmpload.c: a BMP file on the screen, plain or run-length      *)
(* coded.  Bytes have ByteMod values and half bytes the square root of it, *)
(* which keeps every remainder the code takes; the file stands for its     *)
(* header's fields, its length and, when coded, its bytes.                 *)
(***************************************************************************)
EXTENDS GaScreen, SequencesExt

CONSTANTS
  ByteMod,        \* values of a byte (256)
  NibbleMod,      \* values of half a byte (16)
  MaxHeight       \* lines of the screen (768)

ASSUME BmpAssumption ==
  /\ NibbleMod \in Nat \ {0} /\ ByteMod = NibbleMod * NibbleMod
  /\ MaxHeight \in Nat \ {0} /\ MaxHeight < 65536

VARIABLES
  flag,           \* mode_flg: 1 for 65536 colours
  rle             \* the decoder: x, y, the place in the file, buff and buff4

bmpVars == <<flag, rle>>

\* Numbers of 16 bits.
Words == {n \in Nat : n < 65536}
Uint(n) == n % 65536
BmpBuff == [k \in 0 .. 2 * ByteMod - 1 |-> 0]
NoRle == [x |-> 0, y |-> 0, pos |-> 0, buff |-> BmpBuff, buff4 |-> BmpBuff]

BmpStart(file) ==
  /\ prog = "bmpload" /\ pc = "main" /\ in = file
  /\ gmode = 1 /\ pal = "default" /\ row = 0 /\ screen = <<>>
  /\ rd = Opened(file.len)

BmpRest == flag = 0 /\ rle = NoRle

\* A picture whose lines, filled up to four bytes, and palette fit the buffer.
IsBmpFile(f) ==
  /\ f.data \in Seq(0 .. ByteMod - 1)
  /\ f.w \in Nat \ {0} /\ f.h \in Nat /\ f.bit \in {1, 4, 8, 24}
  /\ f.lut \in 0 .. BuffSize - 1 /\ f.len \in Nat
  /\ ((f.bit * f.w + 31) \div 32) * 4 <= BuffSize

---------------------------------------------------------------------------
(* The command line, the screen and the file's header.                     *)

\* argv[2]: nothing, /8, /16 or something that is refused.
BmpMain ==
  /\ pc = "main"
  /\ flag' = IF in.opt = "16" THEN 1 ELSE 0
  /\ IF in.opt = "bad" \/ ~in.opens
     THEN pc' = "error" /\ gmode' = IF in.opt = "16" THEN 15 ELSE gmode
     ELSE pc' = "ginit" /\ gmode' = IF in.opt = "16" THEN 15 ELSE gmode
  /\ UNCHANGED <<in, pal, rd, row, screen, rle>>

\* Without the driver it ends.
BmpGinit ==
  /\ pc = "ginit"
  /\ \/ pc' = "error" /\ UNCHANGED <<gmode, pal, screen>>
     \/ pc' = "gaload" /\ GAinit(gmode) /\ screen' = <<>>
  /\ UNCHANGED <<in, rd, row, flag, rle>>

Mask4(n) == n - (n % 4)     \* & 0xfffc

\* bytes of a line in the file
BmpScan ==
  CASE in.bit = 1  -> Mask4((in.w + 31) \div 8)
    [] in.bit = 4  -> Mask4((in.w + 7) \div 2)
    [] in.bit = 8  -> Mask4(in.w + 3)
    [] in.bit = 24 -> Mask4(in.w * 3 + 3)

BmpMode ==
  CASE in.bit = 1 -> 7
    [] in.bit = 4 -> 3
    [] OTHER -> gmode

\* The palette is read unless the picture has none, and put on the board
\* unless there are 65536 colours.
BmpGaload ==
  /\ pc = "gaload"
  /\ LET lut == IF in.bit # 24 THEN ReadTo(rd, in.lut) ELSE rd
         ysize == IF in.h > MaxHeight THEN MaxHeight ELSE in.h
     IN  IF in.type # "BM" \/ (in.bit # 24 /\ lut.ret = 0)
         THEN /\ pc' = "error"
              /\ gmode' = IF in.type = "BM" THEN BmpMode ELSE gmode
              /\ rd' = IF in.type = "BM" THEN lut ELSE rd
              /\ UNCHANGED <<pal, row, rle>>
         ELSE /\ gmode' = BmpMode
              /\ pal' = IF flag = 0 THEN "picture" ELSE "default"
              /\ rd' = lut
              /\ row' = ysize - 1
              /\ rle' = [NoRle EXCEPT !.y = ysize]
              /\ pc' = CASE in.comp = 0 -> "row"
                         [] in.comp = 1 -> "rle8"
                         [] in.comp = 2 -> "rle4"
                         [] OTHER -> "keys"
  /\ UNCHANGED <<in, screen, flag>>

---------------------------------------------------------------------------
(* nomal(): the lines as they are.                                         *)

\* The palette of 6 * 6 * 6 colours has red change slowest: a place of it is
\* 36 times the red, 6 times the green and the blue.
BmpLutWeight == [red |-> 36, green |-> 6, blue |-> 1]
\* ... and a pixel is made of its first byte, 6 times the second, 36 the third.
BmpByteWeight == <<1, 6, 36>>

\* The byte of a pixel that each colour shown comes from.
BmpColours(b, k) ==
  IF flag = 0
  THEN [c \in {"red", "green", "blue"} |->
          b[k + (CHOOSE j \in 1 .. 3 : BmpByteWeight[j] = BmpLutWeight[c]) - 1]]
  ELSE [red |-> b[k + 2], green |-> b[k + 1], blue |-> b[k]]

BmpPixels(r) ==
  [x \in 1 .. in.w |->
     CASE in.bit = 1  -> <<r.buff[r.idx + (x - 1) \div 8], (x - 1) % 8>>
       [] in.bit = 4  -> <<r.buff[r.idx + (x - 1) \div 2], (x - 1) % 2>>
       [] in.bit = 8  -> <<r.buff[r.idx + x - 1], 0>>
       [] in.bit = 24 -> BmpColours(r.buff, r.idx + 3 * (x - 1))]

\* One line, from the bottom of the picture up; the top one is left out.
BmpNomalRow ==
  /\ pc = "row"
  /\ LET line == FreadLine(rd, BmpScan)
     IN  IF row = 0
         THEN pc' = "keys" /\ UNCHANGED <<rd, row, screen>>
         ELSE /\ rd' = line
              /\ IF line.ret = 0
                 THEN pc' = "keys" /\ UNCHANGED <<row, screen>>
                 ELSE /\ Draw(0, row, BmpPixels(line))
                      /\ row' = row - 1
                      /\ UNCHANGED pc
  /\ UNCHANGED <<in, gmode, pal, flag, rle>>

---------------------------------------------------------------------------
(* rle_8() and rle_4(): a code and what follows it.                        *)

\* What read() of n bytes brings, and a buffer after it.
Got(pos, n) == Least(n, Len(in.data) - pos)
Filled(b, pos, n) ==
  [k \in DOMAIN b |-> IF k < Got(pos, n) THEN in.data[pos + k + 1] ELSE b[k]]

\* Slip: the byte that makes the number even is left in the file.
EvenNot(n) == (n - 1) % ByteMod

Even(n) == (n - (n % 2)) % ByteMod     \* & 0xfe

\* The two bytes every code begins with.
Coded == [rle EXCEPT !.buff = Filled(@, rle.pos, 2), !.pos = @ + Got(@, 2)]

RleEol == rle' = [Coded EXCEPT !.x = 0, !.y = Uint(@ - 1)] /\ UNCHANGED <<pc, screen>>
RleEob == rle' = Coded /\ pc' = "keys" /\ UNCHANGED screen

RleDelta ==
  LET b == Filled(Coded.buff, Coded.pos, 2)
  IN  /\ rle' = [Coded EXCEPT !.buff = b, !.pos = @ + Got(@, 2),
                              !.x = Uint(@ + b[0]), !.y = Uint(@ + b[1])]
      /\ UNCHANGED <<pc, screen>>

\* count pixels from the buffer b, which the decoder keeps.
RlePut(r, b, count) ==
  /\ rle' = [r EXCEPT !.buff = b, !.x = Uint(@ + count)]
  /\ Draw(r.x, r.y, [k \in 1 .. count |-> b[k - 1]])
  /\ UNCHANGED pc

Rle8Absolute(count) ==
  LET n == Even(count + 1)
      r == [Coded EXCEPT !.pos = @ + Got(@, n)]
  IN  RlePut(r, Filled(Coded.buff, Coded.pos, n), count)

Rle8Run(count, color) ==
  RlePut(Coded, [k \in DOMAIN Coded.buff |-> IF k < count THEN color ELSE Coded.buff[k]],
         count)

\* The bytes go to buff4, and as many as there are pixels are taken apart.
Rle4Absolute(count) ==
  LET n == Even(count \div 2 + 1)
      b4 == Filled(Coded.buff4, Coded.pos, n)
      half(k) == IF k % 2 = 0 THEN b4[k \div 2] \div NibbleMod ELSE b4[k \div 2] % NibbleMod
  IN  RlePut([Coded EXCEPT !.pos = @ + Got(@, n), !.buff4 = b4],
             [k \in DOMAIN Coded.buff |-> IF k < 2 * count THEN half(k) ELSE Coded.buff[k]],
             count)

\* An index of one byte that goes up by two passes an odd last value by.
Rle4Run(count, color) ==
  LET half(k) == IF k % 2 = 0 THEN color \div NibbleMod ELSE color % NibbleMod
  IN  IF count = ByteMod - 1
      THEN pc' = "endless" /\ UNCHANGED <<rle, screen>>
      ELSE RlePut(Coded, [k \in DOMAIN Coded.buff |->
                            IF k < count + (count % 2) THEN half(k) ELSE Coded.buff[k]], count)

BmpRle8 ==
  /\ pc = "rle8"
  /\ LET count == Coded.buff[0]
         color == Coded.buff[1]
     IN  \/ Got(rle.pos, 2) = 0 /\ pc' = "keys" /\ UNCHANGED <<rle, screen>>
         \/ /\ Got(rle.pos, 2) # 0
            /\ \/ count = 0 /\ color = 0 /\ RleEol
               \/ count = 0 /\ color = 1 /\ RleEob
               \/ count = 0 /\ color = 2 /\ RleDelta
               \/ count = 0 /\ color > 2 /\ Rle8Absolute(color)
               \/ count > 0 /\ Rle8Run(count, color)
  /\ UNCHANGED <<in, gmode, pal, rd, row, flag>>

BmpRle4 ==
  /\ pc = "rle4"
  /\ LET count == Coded.buff[0]
         color == Coded.buff[1]
     IN  \/ Got(rle.pos, 2) = 0 /\ pc' = "keys" /\ UNCHANGED <<rle, screen>>
         \/ /\ Got(rle.pos, 2) # 0
            /\ \/ count = 0 /\ color = 0 /\ RleEol
               \/ count = 0 /\ color = 1 /\ RleEob
               \/ count = 0 /\ color = 2 /\ RleDelta
               \/ count = 0 /\ color > 2 /\ Rle4Absolute(color)
               \/ count > 0 /\ Rle4Run(count, color)
  /\ UNCHANGED <<in, gmode, pal, rd, row, flag>>

---------------------------------------------------------------------------
(* The keys, until one that ends the program.                              *)

\* Slip: the modes of 65536 colours are counted on past the last.
BmpKeyCPastLast ==
  /\ pc = "keys"
  /\ IF flag = 0
     THEN gmode' = OtherResolution(gmode) /\ pal' = "picture"
     ELSE GAinit(gmode + 2)
  /\ UNCHANGED <<pc, in, rd, row, screen, flag, rle>>

BmpKeyC ==
  /\ pc = "keys"
  /\ IF flag = 0
     THEN gmode' = OtherResolution(gmode) /\ pal' = "picture"
     ELSE GAinit(IF gmode = 15 THEN 13 ELSE gmode + 2)
  /\ UNCHANGED <<pc, in, rd, row, screen, flag, rle>>

\* 'Q' leaves the palette (PAL_USER), any other key does not (PAL_DEF).
BmpKeyEnd ==
  /\ pc = "keys"
  /\ pc' = "end"
  /\ pal' \in {pal, "default"}
  /\ UNCHANGED <<in, gmode, rd, row, screen, flag, rle>>

BmpNext ==
  \/ BmpMain \/ BmpGinit \/ BmpGaload \/ BmpNomalRow
  \/ BmpRle8 \/ BmpRle4 \/ BmpKeyC \/ BmpKeyEnd

---------------------------------------------------------------------------
(* What a coded file means.                                                *)

RleBad(code) ==
  \/ code.op = "delta" /\ code.n > 0
  \/ in.bit = 8 /\ code.op = "abs" /\ Len(code.px) = ByteMod - 1
  \/ in.bit = 4 /\ code.op = "abs" /\ Len(code.px) % 4 = 1
  \/ in.bit = 4 /\ code.op = "run" /\ code.n = ByteMod - 1

RunColour(code, k) ==
  IF in.bit = 8 THEN code.px[1] ELSE code.px[2 - (k % 2)]

\* The picture after one code more.
RleMeaning(p, code) ==
  LET put(px) == [p EXCEPT !.x = @ + Len(px),
                           !.lines = Append(@, [x |-> p.x, y |-> p.y, px |-> px])]
  IN  CASE p.over           -> p
        [] code.op = "run"   -> put([k \in 1 .. code.n |-> RunColour(code, k)])
        [] code.op = "abs"   -> put(code.px)
        [] code.op = "eol"   -> [p EXCEPT !.x = 0, !.y = @ - 1]
        [] code.op = "delta" -> [p EXCEPT !.x = @ + code.px[1], !.y = @ - code.n]
        [] code.op = "eob"   -> [p EXCEPT !.over = TRUE]

RlePicture(bottom) ==
  FoldLeft(RleMeaning, [x |-> 0, y |-> bottom, lines |-> <<>>, over |-> FALSE],
           in.codes).lines

RleFile == prog = "bmpload" /\ pc = "gaload" /\ in.type = "BM" /\ in.comp \in {1, 2}
           /\ in.lut > 0

(* A run-length coded picture comes to the keys with every pixel of every  *)
(* code in its place, one line below where nomal() would put it            *)
(* (bmpload.c:321, 367), whatever the parity of its runs, unless the file  *)
(* has a code rle_8 or rle_4 gets wrong: a move up, 255 pixels as they are *)
(* in 8 bits, 4k + 1 of them or a run of 255 in 4 bits.                    *)
RlePictureShown ==
  (RleFile /\ \A k \in 1 .. Len(in.codes) : ~RleBad(in.codes[k])) ~>
    (prog = "bmpload" /\ pc = "keys" /\ (in.whole => screen = RlePicture(Least(in.h, MaxHeight))))

---------------------------------------------------------------------------
(* Lines of a plain file.                                                  *)

\* A line of a BMP file is filled up to four bytes.
BmpStride == ((in.bit * in.w + 31) \div 32) * 4
BmpUsed == (in.bit * in.w + 7) \div 8

\* The line at a height, by the file; bfOffBits is where the lines begin.
BmpLine(k) ==
  LET from == in.lut + k * BmpStride
  IN  [x \in 1 .. in.w |->
         IF in.bit = 24
         THEN [red |-> from + 3 * x - 1, green |-> from + 3 * x - 2, blue |-> from + 3 * x - 3]
         ELSE LET per == 8 \div in.bit
              IN  <<from + (x - 1) \div per, (x - 1) % per>>]

\* Line k of those drawn is line k of the file when the file has it.
BmpRowsInPlace ==
  (prog = "bmpload" /\ in.comp = 0 /\ (in.bit = 24 => in.lut = 0)) =>
    /\ \A k \in 0 .. Len(screen) - 1 :
         LET line == screen[k + 1]
         IN  /\ line.x = 0 /\ line.y = Least(in.h, MaxHeight) - 1 - k
             /\ in.lut + k * BmpStride + BmpUsed <= in.len => line.px = BmpLine(k)
    /\ Len(screen) * BmpStride - (in.len - in.lut) < BuffSize
    /\ pc = "keys" /\ flag = 0 => pal = "picture"
    /\ pc = "keys" =>
         Len(screen) >= Least(Least(in.h, MaxHeight) - 1, (in.len - in.lut) \div BmpStride)

BmpTypeOK ==
  /\ pc \in {"main", "ginit", "gaload", "row", "rle8", "rle4", "keys", "end", "error",
             "endless"}
  /\ flag \in {0, 1}
  /\ rle.x \in Words /\ rle.y \in Words
  /\ rle.pos \in 0 .. Len(in.data)
=============================================================================
