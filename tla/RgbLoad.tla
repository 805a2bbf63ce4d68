------------------------------ MODULE RgbLoad -------------------------------
(***************************************************************************)
(* ga/sample/rgbload.c and rgbld16.c: a file of red, green and blue bytes  *)
(* on the screen, in 216 colours by error diffusion or in 65536.           *)
(*                                                                         *)
(* A dot shown in 216 colours is, for each colour, the place of its byte   *)
(* in the file and the level, 0 to 5, that it was given.                   *)
(***************************************************************************)
EXTENDS GaScreen, FiniteSetsExt

CONSTANTS
  LineBytes       \* elements of buff2 (1024 in rgbload, twice that in rgbld16)

\* The longest line of rgbld16 fits the buffer.
ASSUME RgbAssumption == LineBytes \in Nat /\ 6 * LineBytes <= BuffSize

VARIABLES
  av1,            \* the light of this line's dots, by colour
  av2, av3,       \* that of the next two lines
  line            \* buff2: the dots of this line that are done

rgbVars == <<av1, av2, av3, line>>

Colour == {"red", "green", "blue"}

\* Every dot of a line, and the one past its end, has no light.
Dark(w) == [c \in Colour |-> [x \in 1 .. w + 1 |-> 0]]

RgbRest == av1 = Dark(0) /\ av2 = Dark(0) /\ av3 = Dark(0) /\ line = <<>>

IsRgbFile(f) == f.w \in Nat /\ f.h \in Nat /\ f.data \in Seq(0 .. 255)

RgbStart(name, file) ==
  /\ prog = name /\ pc = "main" /\ in = file
  /\ gmode = 1 /\ pal = "default" /\ row = 0 /\ screen = <<>>
  /\ rd = Opened(Len(file.data))

\* A byte of the buffer.
Byte(b, k) == IF b[k] = Never THEN 0 ELSE in.data[b[k] + 1]

\* Any key but 'C' ends the program; 'Q' leaves the palette.
KeyEnd ==
  /\ pc = "keys"
  /\ pc' = "end"
  /\ pal' \in {pal, "default"}
  /\ UNCHANGED <<in, gmode, rd, row, screen>>

---------------------------------------------------------------------------
(* rgbload.c                                                               *)

\* The size is that of -X and -Y, which nothing limits.
RgbMain ==
  /\ pc = "main"
  /\ gmode' = 1
  /\ pc' = IF in.opens THEN "ginit" ELSE "error"
  /\ UNCHANGED <<in, pal, rd, row, screen, rgbVars>>

\* Without the driver it ends.
RgbGinit ==
  /\ pc = "ginit"
  /\ \/ pc' = "error" /\ UNCHANGED <<pal, screen, rgbVars>>
     \/ /\ pc' = "row" /\ pal' = "picture" /\ screen' = <<>>
        /\ av1' = Dark(in.w) /\ av2' = Dark(in.w) /\ av3' = Dark(in.w) /\ line' = <<>>
  /\ UNCHANGED <<in, gmode, rd, row>>

\* A line, value[c][x], is added to what the lines above left for it.
RgbAdd(value) ==
  /\ av1' = [c \in Colour |->
               [x \in 1 .. in.w + 1 |->
                  IF x <= in.w THEN av2[c][x] + value[c][x] ELSE av1[c][x]]]
  /\ av2' = av3
  /\ av3' = Dark(in.w)

RgbFreadline(size) == FreadLine(rd, size)

\* Three bytes a dot; a width of nothing divides by zero, and one above the
\* size of buff2 writes past its end.
RgbLine ==
  /\ pc = "row"
  /\ LET r == RgbFreadline(3 * in.w)
         place(c, x) == r.idx + 3 * (x - 1) + (CASE c = "red" -> 0 [] c = "green" -> 1 [] OTHER -> 2)
         value == [c \in Colour |-> [x \in 1 .. in.w |-> Byte(r.buff, place(c, x))]]
     IN  \/ row >= in.h /\ pc' = "keys" /\ UNCHANGED <<rd, rgbVars>>
         \/ /\ row < in.h /\ (in.w = 0 \/ in.w > LineBytes)
            /\ pc' = "fault" /\ UNCHANGED <<rd, rgbVars>>
         \/ /\ row < in.h /\ in.w \in 1 .. LineBytes
            /\ rd' = r
            /\ IF r.ret = 0
               THEN pc' = "keys" /\ UNCHANGED rgbVars
               ELSE pc' = "dot" /\ line' = <<>> /\ RgbAdd(value)
  /\ UNCHANGED <<in, gmode, pal, row, screen>>

\* The colours of a dot: the level each reaches ...
Step == 51
Level(v) == Least(5, v \div Step)

\* ... and what is left over, divided between the dots to the right and below.
ShareRight(left, rand) ==
  CASE rand \in {0, 1} -> left \div 2
    [] rand = 2 -> (left \div 4) * 3
    [] rand = 3 -> left \div 4
\* Slip: three quarters both ways.
ShareDownTooMuch(left, rand) ==
  IF rand \in {0, 1} THEN left \div 2 ELSE (left \div 4) * 3
ShareDown(left, rand) ==
  CASE rand \in {0, 1} -> left \div 2
    [] rand = 2 -> left \div 4
    [] rand = 3 -> (left \div 4) * 3

\* The dots of a line, from left to right; place[c][x] is where their bytes are.
Diffuse(place) ==
  /\ pc = "dot" /\ Len(line) < in.w
  /\ LET x == Len(line) + 1
         left(c) == av1[c][x] - Step * Level(av1[c][x])
     IN  \E rand \in 0 .. 3 :
           /\ av1' = [c \in Colour |->
                        [av1[c] EXCEPT ![x] = left(c), ![x + 1] = @ + ShareRight(left(c), rand)]]
           /\ av2' = [c \in Colour |-> [av2[c] EXCEPT ![x] = @ + ShareDown(left(c), rand)]]
           /\ line' = Append(line, [c \in Colour |->
                                      <<rd.buff[place[c][x]], Level(av1[c][x])>>])
  /\ UNCHANGED <<pc, in, gmode, pal, rd, row, screen, av3>>

RgbPlace(c, x) ==
  rd.idx + 3 * (x - 1) + (CASE c = "red" -> 0 [] c = "green" -> 1 [] OTHER -> 2)

RgbDot == Diffuse([c \in Colour |-> [x \in 1 .. in.w |-> RgbPlace(c, x)]])

\* The line is shown.
RgbShow ==
  /\ pc = "dot" /\ Len(line) = in.w
  /\ Draw(0, row, line)
  /\ row' = row + 1
  /\ pc' = "row"
  /\ UNCHANGED <<in, gmode, pal, rd, rgbVars>>

RgbKeyC ==
  /\ pc = "keys"
  /\ gmode' = OtherResolution(gmode) /\ pal' = "picture"
  /\ UNCHANGED <<pc, in, rd, row, screen, rgbVars>>

RgbNext ==
  \/ RgbMain \/ RgbGinit \/ RgbLine \/ RgbDot \/ RgbShow \/ RgbKeyC
  \/ KeyEnd /\ UNCHANGED rgbVars

---------------------------------------------------------------------------
(* rgbld16.c                                                               *)

Rgb16Main ==
  /\ pc = "main"
  /\ gmode' = IF in.opens THEN 15 ELSE gmode
  /\ pc' = IF in.opens THEN "ginit" ELSE "error"
  /\ UNCHANGED <<in, pal, rd, row, screen>>

Rgb16Ginit ==
  /\ pc = "ginit"
  /\ pc' \in {"error", "row"}
  /\ screen' = IF pc' = "row" THEN <<>> ELSE screen
  /\ UNCHANGED <<in, gmode, pal, rd, row>>

Rgb16Freadline(size) == FreadLine(rd, size)

\* A dot has the first five, six and five bits of its bytes, red uppermost.
Rgb16Line ==
  /\ pc = "row"
  /\ LET r == Rgb16Freadline(3 * in.w)
         dot(x) == [red |-> r.buff[r.idx + 3 * (x - 1)],
                    green |-> r.buff[r.idx + 3 * (x - 1) + 1],
                    blue |-> r.buff[r.idx + 3 * (x - 1) + 2]]
     IN  \/ row >= in.h /\ pc' = "keys" /\ UNCHANGED <<rd, row, screen>>
         \/ /\ row < in.h /\ (in.w = 0 \/ in.w > 2 * LineBytes)
            /\ pc' = "fault" /\ UNCHANGED <<rd, row, screen>>
         \/ /\ row < in.h /\ in.w \in 1 .. 2 * LineBytes
            /\ rd' = r
            /\ IF r.ret = 0
               THEN pc' = "keys" /\ UNCHANGED <<row, screen>>
               ELSE /\ Draw(0, row, [x \in 1 .. in.w |-> dot(x)])
                    /\ row' = row + 1
                    /\ UNCHANGED pc
  /\ UNCHANGED <<in, gmode, pal>>

\* There is no palette, and the modes of 65536 colours are 13 and 15.
Rgb16KeyC ==
  /\ pc = "keys"
  /\ GAinit(IF gmode = 15 THEN 13 ELSE gmode + 2)
  /\ UNCHANGED <<pc, in, rd, row, screen>>

Rgb16Next == Rgb16Main \/ Rgb16Ginit \/ Rgb16Line \/ Rgb16KeyC \/ KeyEnd

---------------------------------------------------------------------------
\* Light of a colour: in the file's dots that were shown, value(c, off) for one
\* at off, in the dots on the screen, and kept for dots right of them or below.
LightIn(c, value(_, _)) ==
  SumFunction([k \in 1 .. Len(screen) |->
    SumFunction([x \in 1 .. in.w |->
      LET off == screen[k].px[x][c][1] IN IF off = Never THEN 0 ELSE value(c, off)])])
LightShown(c) ==
  SumFunction([k \in 1 .. Len(screen) |->
    SumFunction([x \in 1 .. in.w |-> Step * screen[k].px[x][c][2]])])
LightKept(c) ==
  SumFunction([x \in 1 .. in.w |-> av2[c][x] + av3[c][x]]) + av1[c][in.w + 1]

\* Diffusion makes no light, and loses less than four parts for every dot.
LightBalance(value(_, _)) ==
  pc \in {"row", "keys", "end"} /\ Len(screen) > 0 =>
    \A c \in Colour :
      LightIn(c, value) - LightShown(c) - LightKept(c) \in 0 .. 3 * in.w * Len(screen)

RgbLightBalance == LightBalance(LAMBDA c, off : in.data[off + 1])

\* Line k is line k of the file when the file has it.
RgbRowsInPlace(channel(_)) ==
  /\ \A k \in 0 .. Len(screen) - 1 :
       /\ screen[k + 1].x = 0 /\ screen[k + 1].y = k
       /\ (k + 1) * 3 * in.w <= rd.len =>
            \A x \in 1 .. in.w :
              /\ channel(screen[k + 1].px[x].red) = k * 3 * in.w + 3 * x - 3
              /\ channel(screen[k + 1].px[x].green) = k * 3 * in.w + 3 * x - 2
              /\ channel(screen[k + 1].px[x].blue) = k * 3 * in.w + 3 * x - 1
  /\ Len(screen) * 3 * in.w - rd.len < BuffSize
  /\ pc = "keys" /\ in.w > 0 => Len(screen) >= Least(in.h, rd.len \div (3 * in.w))

RgbLoadRowsInPlace == RgbRowsInPlace(LAMBDA v : v[1])
Rgb16RowsInPlace == RgbRowsInPlace(LAMBDA v : v)

RgbTypeOK ==
  /\ pc \in {"main", "ginit", "row", "dot", "keys", "end", "error", "fault"}
  /\ \A c \in Colour : \A x \in DOMAIN av1[c] :
       av1[c][x] \in Nat /\ av2[c][x] \in Nat /\ av3[c][x] = 0
  /\ Len(line) <= in.w
=============================================================================
