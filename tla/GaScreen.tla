------------------------------ MODULE GaScreen ------------------------------
(***************************************************************************)
(* What the picture programs of src/ga/sample have in common: the graphics *)
(* board as they use it, and freadline(), the reader of lines each of them *)
(* carries a copy of.                                                      *)
(*                                                                         *)
(* The bytes of a file are known by where they are in it, counted from the *)
(* end of the headers: a buffer holds such places, and so do the pixels on *)
(* the screen.                                                             *)
(***************************************************************************)
EXTENDS Integers, Sequences

CONSTANTS
  BuffSize        \* BUFF_SIZE, SIZE_OF_BUFF (16 * 1024)

ASSUME GaAssumption == BuffSize \in Nat \ {0}

VARIABLES
  prog,           \* the program that runs
  pc,             \* where it is
  in,             \* its command line and its file
  gmode,          \* the screen mode last set (gagraph.h: 1 to 15)
  pal,            \* the palette on the board: "default", or that of the picture
  rd,             \* the file and its buffer
  row,            \* the line that comes next
  screen          \* the lines drawn: where they start, and their pixels

gaVars == <<prog, pc, in, gmode, pal, rd, row, screen>>

\* Palettes: tiffload has some of its own making.
Palette == {"default", "picture", "two", "grey16", "towns16", "grey256", "towns256",
            "colours216"}

Least(a, b) == IF a < b THEN a ELSE b

\* A place of the buffer that nothing was read to.
Never == -1

\* A file of len bytes, opened.
Opened(len) ==
  [len |-> len, at |-> 0, fp |-> 0, remain |-> 0, idx |-> 0, ret |-> 0,
   buff |-> [k \in 0 .. BuffSize - 1 |-> Never]]

\* read() of n bytes to the start of the buffer: what it does not bring stays.
ReadTo(r, n) ==
  LET got == IF r.at > r.len THEN 0 ELSE Least(n, r.len - r.at)
  IN  [r EXCEPT !.at = @ + got, !.ret = got,
                !.buff = [k \in DOMAIN @ |-> IF k < got THEN r.at + k ELSE @[k]]]

\* Slip: the place in the buffer is not set back when it is filled again.
FreadLineKeepsPlace(r, size) ==
  LET room == (BuffSize \div size) * size
      full == IF r.remain < size
              THEN [ReadTo(r, room) EXCEPT !.fp = Least(@, BuffSize - size), !.remain = room]
              ELSE [r EXCEPT !.ret = size]
  IN  [full EXCEPT !.idx = full.fp, !.fp = @ + size, !.remain = @ - size]

\* As many whole lines as fit are read at once and then given out one by one.
FreadLine(r, size) ==
  LET room == (BuffSize \div size) * size
      full == IF r.remain < size
              THEN [ReadTo(r, room) EXCEPT !.fp = 0, !.remain = room]
              ELSE [r EXCEPT !.ret = size]
  IN  [full EXCEPT !.idx = full.fp, !.fp = @ + size, !.remain = @ - size]

\* GArestoreImage of one line.
Draw(x, y, px) == screen' = Append(screen, [x |-> x, y |-> y, px |-> px])

\* GAinit of a mode: the palette is that of the board again.
GAinit(mode) == gmode' = mode /\ pal' = "default"

\* 'C' changes between the two resolutions of a number of colours.
OtherResolution(mode) == IF mode % 2 = 1 THEN mode + 1 ELSE mode - 1

GaTypeOK ==
  /\ gmode \in 0 .. 15 /\ pal \in Palette
  /\ row \in Int
  /\ rd.at \in Nat /\ rd.fp \in 0 .. BuffSize /\ rd.remain \in 0 .. BuffSize
  /\ \A k \in DOMAIN rd.buff : rd.buff[k] < rd.len
=============================================================================
