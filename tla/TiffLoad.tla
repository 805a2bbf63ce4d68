------------------------------ MODULE TiffLoad ------------------------------
(***************************************************************************)
(* ga/sample/tiffload.c: an uncompressed TIFF file on the screen.  Places  *)
(* in the file count from its beginning.                                   *)
(***************************************************************************)
EXTENDS X68Load

CONSTANTS
  HeadBytes,      \* bytes read for the header and the directory (0x200)
  EntryBytes,     \* bytes of an entry of the directory (12)
  ScreenWidth     \* dots of a line of the screen (1024)

\* A dot of two bytes lies in what is read for the header, or does not.
ASSUME TiffAssumption ==
  HeadBytes \in Nat /\ HeadBytes % 2 = 0 /\ EntryBytes \in Nat \ {0} /\ ScreenWidth \in Nat

\* What an entry of a file may say, and a file whose lines fit the buffer.
TagValues(f, tag, default) ==
  {default} \cup {f.tags[k].val : k \in {j \in 1 .. Len(f.tags) : f.tags[j].tag = tag}}
IsTiffFile(f) ==
  /\ f.data \in Seq(0 .. 255) /\ f.tags \in Seq([tag : STRING, val : Nat])
  /\ \A x \in TagValues(f, "xsize", 0), b \in TagValues(f, "bits", 1),
        n \in TagValues(f, "samples", 1) : (b * n * x + 7) \div 8 <= BuffSize

TiffStart(file) ==
  /\ prog = "tiffload" /\ pc = "main" /\ in = file
  /\ gmode = 1 /\ pal = "default" /\ row = 0 /\ screen = <<>>
  /\ rd = Opened(Len(file.data))

\* /D takes the dither.
TiffMain ==
  /\ pc = "main"
  /\ pc' = IF in.opens THEN "ginit" ELSE "error"
  /\ UNCHANGED <<in, gmode, pal, rd, row, screen>>

TiffGinit ==
  /\ pc = "ginit"
  /\ pc' \in {"error", "gaload"}
  /\ screen' = <<>>
  /\ UNCHANGED <<in, gmode, pal, rd, row>>

---------------------------------------------------------------------------
(* gaload()                                                                *)

\* The entries of the directory, EntryBytes each after their number, that are in
\* the bytes read; of those with one tag the last counts.
TiffTag(tag, default) ==
  LET found == {k \in 1 .. Len(in.tags) :
                  in.tags[k].tag = tag /\ in.dir + 2 + EntryBytes * k <= HeadBytes}
  IN  IF found = {} THEN default ELSE in.tags[Max(found)].val

TiffXsize == TiffTag("xsize", 0)
TiffYsize == TiffTag("ysize", 0)
TiffBit == TiffTag("bits", 1) * TiffTag("samples", 1)
TiffFill == TiffTag("fillorder", 1)
ColorMax == IF TiffBit = 1 THEN 2 ELSE IF TiffBit = 4 THEN 16 ELSE IF TiffBit = 8 THEN 256 ELSE 0

\* The palette: of two colours, made here, or from the file.
TiffPalette ==
  LET photometric == TiffTag("photometric", 0)
  IN  CASE ColorMax = 0 /\ photometric \notin {1, 2} -> "default"
        [] ColorMax > 0 /\ photometric = 0 -> "two"
        [] photometric \in {1, 2} /\ TiffBit = 1 -> "two"
        [] photometric \in {1, 2} /\ TiffBit = 4 ->
             IF TiffFill = 2 THEN "towns16" ELSE "grey16"
        [] photometric \in {1, 2} /\ TiffBit = 8 ->
             IF TiffTag("newsubfile", 1) # 0 THEN "grey256" ELSE "towns256"
        [] photometric \in {1, 2} /\ TiffBit \notin {1, 4, 8} -> "colours216"
        [] ColorMax > 0 /\ photometric = 3 -> "picture"
        [] OTHER -> "default"

\* The palette of 216 colours, where red changes fastest.
TiffLutWeight == [red |-> 1, green |-> 6, blue |-> 36]

TiffScan ==
  CASE TiffBit = 1  -> (TiffXsize + 7) \div 8
    [] TiffBit = 4  -> (TiffXsize + 1) \div 2
    [] TiffBit = 8  -> TiffXsize
    [] TiffBit = 16 -> 2 * TiffXsize
    [] TiffBit = 24 -> 3 * TiffXsize

TiffMode == IF TiffBit = 1 THEN 7 ELSE IF TiffBit = 4 THEN 3 ELSE gmode

TiffWidth == Least(TiffXsize, ScreenWidth)

\* The header, the palette, and to where the lines are.  Other numbers of bits
\* leave the length of a line without a value.
TiffGaload ==
  /\ pc = "gaload"
  /\ LET head == ReadTo(rd, HeadBytes)
         lut == IF TiffTag("photometric", 0) = 3
                THEN ReadTo([head EXCEPT !.at = TiffTag("colormap", 0)], 6 * ColorMax)
                ELSE head
     IN  \/ /\ head.ret = 0 \/ in.magic # "II" \/ TiffTag("compression", 1) # 1
            /\ pc' = "error"
            /\ rd' = head
            /\ UNCHANGED <<gmode, pal>>
         \/ /\ head.ret > 0 /\ in.magic = "II" /\ TiffTag("compression", 1) = 1
            /\ pc' = IF TiffBit \in {1, 4, 8, 16, 24} THEN "row" ELSE "fault"
            /\ gmode' = TiffMode
            /\ pal' = TiffPalette
            /\ rd' = [lut EXCEPT !.at = TiffTag("offset", 0)]
  /\ UNCHANGED <<in, row, screen>>

\* A dot of one byte or less: where it is, and which part of it.
TiffPart(r, x) ==
  CASE TiffBit = 1 -> <<r.buff[r.idx + (x - 1) \div 8], (x - 1) % 8>>
    [] TiffBit = 4 ->
         <<r.buff[r.idx + (x - 1) \div 2],
           IF TiffFill = 2 THEN x % 2 ELSE 1 - (x % 2)>>
    [] TiffBit = 8 -> <<r.buff[r.idx + x - 1], 0>>

\* Five bits of a colour in two bytes, low one first.
TiffField(c, word) ==
  CASE c = "red" -> (word \div 32) % 32
    [] c = "green" -> (word \div 1024) % 32
    [] OTHER -> word % 32

TiffWord(r, x) ==
  Byte(r.buff, r.idx + 2 * (x - 1)) + 256 * Byte(r.buff, r.idx + 2 * (x - 1) + 1)

TiffDot16(r, x) ==
  [c \in Colour |-> <<r.buff[r.idx + 2 * (x - 1)], (4 * TiffField(c, TiffWord(r, x))) \div 21>>]

\* A dot of three bytes, of which the first counts once, the second 6 times and
\* the third 36 times.
TiffByteWeight == <<1, 6, 36>>
TiffDot24(r, x) ==
  [c \in Colour |->
     LET j == CHOOSE n \in 1 .. 3 : TiffByteWeight[n] = TiffLutWeight[c]
         k == r.idx + 3 * (x - 1) + j - 1
     IN  <<r.buff[k], (Byte(r.buff, k) + 25) \div 51>>]

TiffPixels(r) ==
  [x \in 1 .. TiffWidth |->
     IF TiffBit = 16 THEN TiffDot16(r, x)
     ELSE IF TiffBit = 24 THEN TiffDot24(r, x)
     ELSE TiffPart(r, x)]

\* Two lines of the dither, each twice as long: too long for a line above half
\* the size of its buffers.
Dither16(r) ==
  LET place == [d \in 1 .. TiffWidth |-> r.buff[r.idx + 2 * (d - 1)]]
      value == [c \in Colour |-> [d \in 1 .. TiffWidth |-> TiffField(c, TiffWord(r, d))]]
  IN  IF 2 * TiffWidth > LineBytes
      THEN pc' = "fault" /\ UNCHANGED screen
      ELSE /\ screen' = screen \o
                <<[x |-> 0, y |-> 2 * row, px |-> DitherLine(TiffWidth, TRUE, place, value)],
                  [x |-> 0, y |-> 2 * row + 1, px |-> DitherLine(TiffWidth, FALSE, place, value)]>>
           /\ UNCHANGED pc

TiffFreadline(size) == FreadLine(rd, size)

\* A line, from the top down.
TiffRow ==
  /\ pc = "row"
  /\ LET r == TiffFreadline(TiffScan)
     IN  \/ row >= TiffYsize /\ pc' = "keys" /\ UNCHANGED <<rd, row, screen>>
         \/ /\ row < TiffYsize /\ TiffScan = 0
            /\ pc' = "fault" /\ UNCHANGED <<rd, row, screen>>
         \/ /\ row < TiffYsize /\ TiffScan > 0
            /\ rd' = r
            /\ IF r.ret = 0
               THEN pc' = "keys" /\ UNCHANGED <<row, screen>>
               ELSE /\ row' = row + 1
                    /\ IF TiffBit = 16 /\ in.dither
                       THEN Dither16(r)
                       ELSE Draw(0, row, TiffPixels(r)) /\ UNCHANGED pc
  /\ UNCHANGED <<in, gmode, pal>>

TiffKeyC ==
  /\ pc = "keys"
  /\ gmode' = OtherResolution(gmode)
  /\ UNCHANGED <<pc, in, pal, rd, row, screen>>

TiffNext == TiffMain \/ TiffGinit \/ TiffGaload \/ TiffRow \/ TiffKeyC \/ KeyEnd

---------------------------------------------------------------------------
TiffValue(c, off) == TiffField(c, in.data[off + 1] + 256 * in.data[off + 2])

\* Without the dither a dot is less than a level from what the file has.
TiffNear ==
  \A k \in 1 .. Len(screen) : \A x \in 1 .. Len(screen[k].px) : \A c \in Colour :
    LET dot == screen[k].px[x][c]
        full == IF TiffBit = 16 THEN 31 ELSE 255
        value == IF TiffBit = 16 THEN TiffValue(c, dot[1]) ELSE in.data[dot[1] + 1]
    IN  (IF TiffBit = 16 THEN WholeDot(dot[1]) ELSE dot[1] # Never) =>
          dot[2] * full - 5 * value \in 1 - full .. full - 1

TiffLightBalance ==
  CASE pc \notin {"row", "keys", "end", "fault"} \/ TiffBit \notin {16, 24} -> TRUE
    [] TiffBit = 16 /\ in.dither -> DitherBalance(TiffValue)
    [] OTHER -> TiffNear

\* Line k of the screen is line k of the strip the file has its lines in.
TiffRowsInPlace ==
  LET twice == TiffBit = 16 /\ in.dither
      per == IF twice THEN 2 ELSE 1
      stride == (TiffBit * TiffXsize + 7) \div 8
      from(k) == TiffTag("offset", 0) + (k \div per) * stride
      dot(k, x) ==
        CASE TiffBit < 16 ->
               LET each == 8 \div TiffBit
                   part == (x - 1) % each
               IN  screen[k + 1].px[x] =
                     <<from(k) + (x - 1) \div each,
                       IF TiffBit = 4 /\ TiffFill = 2 THEN 1 - part ELSE part>>
          [] TiffBit = 16 ->
               \A c \in Colour :
                 screen[k + 1].px[x][c][1] = from(k) + 2 * ((x - 1) \div per)
          [] OTHER ->
               /\ screen[k + 1].px[x].red[1] = from(k) + 3 * x - 3
               /\ screen[k + 1].px[x].green[1] = from(k) + 3 * x - 2
               /\ screen[k + 1].px[x].blue[1] = from(k) + 3 * x - 1
  IN  pc \in {"row", "keys", "end"} =>
        /\ \A k \in 0 .. Len(screen) - 1 :
             /\ screen[k + 1].x = 0 /\ screen[k + 1].y = k
             /\ Len(screen[k + 1].px) = per * TiffWidth
             /\ from(k) + stride <= rd.len => \A x \in 1 .. per * TiffWidth : dot(k, x)
        /\ Len(screen) > 0 => from(Len(screen) - 1) + stride - rd.len < BuffSize
        /\ pc = "keys" => (Len(screen) = per * TiffYsize \/ from(Len(screen)) + stride > rd.len)
=============================================================================
