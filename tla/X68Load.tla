------------------------------ MODULE X68Load -------------------------------
(***************************************************************************)
(* ga/sample/x68load.c: a picture of an X68000, 16 bits a dot, on the      *)
(* screen by error diffusion, or with four dots for each of the file's.    *)
(* Before every four lines the program passes one by.                      *)
(***************************************************************************)
EXTENDS RgbLoad

CONSTANTS
  X68Width, X68Height     \* x_wid and y_wid, xsize and ysize (512, 384)

\* Of the lines of a full buffer (16) every fifth is passed by.  Were their number
\* a multiple of five, the line passed by would be the first of every buffer, and
\* the end of the file never be seen.
ASSUME X68Assumption ==
  /\ X68Width \in Nat \ {0} /\ X68Height \in Nat
  /\ 2 * X68Width <= BuffSize /\ (BuffSize \div (2 * X68Width)) % 5 # 0

X68Start(file) ==
  /\ RgbStart("x68load", file)
  /\ file.w = X68Width /\ file.h = X68Height

\* -D takes the four dots.
X68Main ==
  /\ pc = "main"
  /\ gmode' = 1
  /\ pc' = IF in.opens THEN "ginit" ELSE "error"
  /\ UNCHANGED <<in, pal, rd, row, screen, rgbVars>>

X68Ginit ==
  /\ pc = "ginit"
  /\ \/ pc' = "error" /\ UNCHANGED <<pal, screen, rgbVars>>
     \/ /\ pc' = "row" /\ pal' = "picture" /\ screen' = <<>>
        /\ av1' = Dark(in.w) /\ av2' = Dark(in.w) /\ av3' = Dark(in.w) /\ line' = <<>>
  /\ UNCHANGED <<in, gmode, rd, row>>

X68Freadline(r, size) == FreadLine(r, size)

\* The line for row: whether there was one to pass by is not looked at.
X68Read ==
  LET passed == IF row % 4 = 0 THEN X68Freadline(rd, 2 * in.w) ELSE rd
  IN  X68Freadline(passed, 2 * in.w)

\* The five bits of a colour in two bytes, high one first.
Field(c, word) ==
  CASE c = "red" -> (word \div 64) % 32
    [] c = "green" -> word \div 2048
    [] OTHER -> (word \div 2) % 32

\* The two bytes of dot d of the line read.
X68Word(d) ==
  LET k == X68Read.idx + 2 * (d - 1)
  IN  256 * Byte(X68Read.buff, k) + Byte(X68Read.buff, k + 1)

X68Line ==
  /\ pc = "row" /\ ~in.dither
  /\ LET value == [c \in Colour |-> [x \in 1 .. in.w |-> 8 * Field(c, X68Word(x))]]
     IN  IF row >= in.h
         THEN pc' = "keys" /\ UNCHANGED <<rd, rgbVars>>
         ELSE /\ rd' = X68Read
              /\ IF X68Read.ret = 0
                 THEN pc' = "keys" /\ UNCHANGED rgbVars
                 ELSE pc' = "dot" /\ line' = <<>> /\ RgbAdd(value)
  /\ UNCHANGED <<in, gmode, pal, row, screen>>

X68Place(c, x) == rd.idx + 2 * (x - 1)

X68Dot == Diffuse([c \in Colour |-> [x \in 1 .. in.w |-> X68Place(c, x)]])

X68Show ==
  /\ pc = "dot" /\ Len(line) = in.w
  /\ Draw(0, row, line)
  /\ row' = row + 1
  /\ pc' = "row"
  /\ UNCHANGED <<in, gmode, pal, rd, rgbVars>>

---------------------------------------------------------------------------
(* The dither of two by two dots.                                          *)

\* dh1 to dh4: the level of each of the four dots for a colour from 0 to 20.
DitherLevel ==
  << <<0, 1, 1, 1, 1, 2, 2, 2, 2, 3, 3, 3, 3, 4, 4, 4, 4, 5, 5, 5, 5>>,
     <<0, 0, 0, 1, 1, 1, 1, 2, 2, 2, 2, 3, 3, 3, 3, 4, 4, 4, 4, 5, 5>>,
     <<0, 0, 0, 0, 1, 1, 1, 1, 2, 2, 2, 2, 3, 3, 3, 3, 4, 4, 4, 4, 5>>,
     <<0, 0, 1, 1, 1, 1, 2, 2, 2, 2, 3, 3, 3, 3, 4, 4, 4, 4, 5, 5, 5>> >>

\* A colour of 0 to 31 for the tables.
DitherIndex(v) == (2 * v) \div 3

\* The upper or the lower line of dots, from the file's w dots: where each is,
\* place[d], and the value of its colours, value[c][d].
DitherLine(w, upper, place, value) ==
  [x \in 1 .. 2 * w |->
     LET d == (x + 1) \div 2
         table == (IF upper THEN 1 ELSE 3) + (1 - (x % 2))
     IN  [c \in Colour |->
            <<place[d], DitherLevel[table][DitherIndex(value[c][d]) + 1]>>]]

X68Dither4 ==
  /\ pc = "row" /\ in.dither
  /\ LET place == [d \in 1 .. in.w |-> X68Read.buff[X68Read.idx + 2 * (d - 1)]]
         value == [c \in Colour |-> [d \in 1 .. in.w |-> Field(c, X68Word(d))]]
     IN  IF row >= in.h
         THEN pc' = "keys" /\ UNCHANGED <<rd, row, screen>>
         ELSE /\ rd' = X68Read
              /\ IF X68Read.ret = 0
                 THEN pc' = "keys" /\ UNCHANGED <<row, screen>>
                 ELSE /\ screen' = screen \o
                           <<[x |-> 0, y |-> 2 * row,
                              px |-> DitherLine(in.w, TRUE, place, value)],
                             [x |-> 0, y |-> 2 * row + 1,
                              px |-> DitherLine(in.w, FALSE, place, value)]>>
                      /\ row' = row + 1
                      /\ UNCHANGED pc
  /\ UNCHANGED <<in, gmode, pal, rgbVars>>

X68KeyC ==
  /\ pc = "keys"
  /\ gmode' = OtherResolution(gmode) /\ pal' = "picture"
  /\ UNCHANGED <<pc, in, rd, row, screen, rgbVars>>

X68Next ==
  \/ X68Main \/ X68Ginit \/ X68Line \/ X68Dot \/ X68Show \/ X68Dither4 \/ X68KeyC
  \/ KeyEnd /\ UNCHANGED rgbVars

---------------------------------------------------------------------------
X68Value(c, off) == Field(c, 256 * in.data[off + 1] + in.data[off + 2])

\* A dot of two bytes that the file has both of.
WholeDot(off) == off # Never /\ off + 1 < rd.len

\* The four dots of each of the file's have between them the light it has.
DitherBalance(value(_, _)) ==
  \A k \in 1 .. Len(screen) \div 2 : \A x \in 1 .. Len(screen[2 * k].px) \div 2 : \A c \in Colour :
    LET four == {screen[2 * k - 1].px[2 * x - 1][c], screen[2 * k - 1].px[2 * x][c],
                 screen[2 * k].px[2 * x - 1][c], screen[2 * k].px[2 * x][c]}
        total == screen[2 * k - 1].px[2 * x - 1][c][2] + screen[2 * k - 1].px[2 * x][c][2]
                 + screen[2 * k].px[2 * x - 1][c][2] + screen[2 * k].px[2 * x][c][2]
    IN  /\ \A d, e \in four : d[1] = e[1] /\ d[2] - e[2] <= 1
        /\ \A d \in four : WholeDot(d[1]) => total = DitherIndex(value(c, d[1]))

\* The diffusion is of files that do not end in the middle of a dot.
X68LightBalance ==
  IF in.dither THEN DitherBalance(X68Value)
  ELSE Len(in.data) % 2 = 0 => LightBalance(LAMBDA c, off : 8 * X68Value(c, off))

\* Line k of the screen is line k of the file, not counting the lines passed by
\* before every four; what is shown past the end of the file is old and less
\* than two buffers of it, since the line passed by may be the one that finds
\* the end.
X68RowsInPlace ==
  LET per == IF in.dither THEN 2 ELSE 1
      from(k) == (k \div per + (k \div per) \div 4 + 1) * 2 * in.w
  IN  /\ \A k \in 0 .. Len(screen) - 1 :
           /\ screen[k + 1].x = 0 /\ screen[k + 1].y = k
           /\ from(k) + 2 * in.w <= rd.len =>
                \A x \in 1 .. in.w * per : \A c \in Colour :
                  screen[k + 1].px[x][c][1] = from(k) + 2 * ((x - 1) \div per)
      /\ Len(screen) > 0 => from(Len(screen) - 1) + 2 * in.w - rd.len < 2 * BuffSize
      /\ pc = "keys" => (Len(screen) \div per = in.h \/ from(Len(screen)) + 2 * in.w > rd.len)
=============================================================================
