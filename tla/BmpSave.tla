------------------------------ MODULE BmpSave -------------------------------
(***************************************************************************)
(* ga/sample/bmpsave.c: the user marks a part of the screen with the mouse *)
(* and it is written to a BMP file.  The box that marks it is drawn by     *)
(* inverting, so a second drawing takes it away.                           *)
(***************************************************************************)
EXTENDS BmpLoad

CONSTANTS
  MouseX, MouseY, \* bound: where the mouse gets to (0 .. 1023, 0 .. 767)
  DefaultWidth, DefaultHeight,     \* x_wid and y_wid to begin with (320, 240)
  LutSize         \* bytes of a palette in a file (1024)

ASSUME SaveAssumption ==
  /\ MouseX \subseteq Nat /\ MouseY \subseteq Nat
  /\ DefaultWidth \in Nat \ {0} /\ DefaultHeight \in 1 .. MaxHeight
  /\ LutSize \in 1 .. BuffSize - 1
  /\ \A x \in MouseX : Mask4(x + 4) <= BuffSize
  /\ Mask4(DefaultWidth + 3) <= BuffSize /\ 4 <= BuffSize
  /\ \A y \in MouseY : y < MaxHeight

VARIABLES
  mouse,          \* the locals of main: sx, sy, ox, oy and on
  cursor,         \* the mouse's cursor is on the screen
  boxes,          \* the boxes on the screen
  sel,            \* x_start, y_start, x_wid, y_wid
  by,             \* what asked for the file: "button", "key" or "none"
  file            \* the file: for every byte of its lines the dot it is of

saveVars == <<mouse, cursor, boxes, sel, by, file>>

SaveRest ==
  /\ mouse = [sx |-> 0, sy |-> 0, ox |-> 0, oy |-> 0, on |-> 0]
  /\ cursor = FALSE /\ boxes = {} /\ by = "none" /\ file = <<>>
  /\ sel = [x |-> 0, y |-> 0, w |-> DefaultWidth, h |-> DefaultHeight]

SaveStart ==
  /\ prog = "bmpsave" /\ pc = "main" /\ in = [args |-> 2]
  /\ gmode = 0 /\ pal = "default" /\ row = 0 /\ screen = <<>>
  /\ rd = Opened(0)

\* A box is the same from whichever corner it is drawn.
Box(x1, y1, x2, y2) == <<Least(x1, x2), Least(y1, y2), x1 + x2, y1 + y2>>

\* GAbox with the colour -1.
Inverted(bs, b) == (bs \ {b}) \cup ({b} \ bs)

---------------------------------------------------------------------------
\* The board keeps its picture and its palette, which is read; without the
\* driver or the mouse the program ends.
SaveGinit ==
  /\ pc = "main"
  /\ pc' \in {"mouse", "error"}
  /\ pal' = "picture"
  /\ gmode' = IF pc' = "mouse" THEN 1 ELSE gmode
  /\ UNCHANGED <<in, rd, row, screen, saveVars>>

\* 'C': the box stays where it is.
SaveKeyC ==
  /\ pc = "mouse"
  /\ gmode' = OtherResolution(gmode) /\ pal' = "picture"
  /\ UNCHANGED <<pc, in, rd, row, screen, saveVars>>

\* 'S' saves, with the button pressed or not; the part marked is set only
\* when the button is let go.
SaveKeyS ==
  /\ pc = "mouse"
  /\ pc' = "save"
  /\ cursor' = FALSE
  /\ by' = "key"
  /\ UNCHANGED <<in, gmode, pal, rd, row, screen, mouse, boxes, sel, file>>

SaveKeyOther ==
  /\ pc = "mouse"
  /\ pc' = "error"
  /\ UNCHANGED <<in, gmode, pal, rd, row, screen, saveVars>>

\* The right button takes the box away.
SaveCancel(x, y) ==
  /\ boxes' = Inverted(boxes, Box(mouse.sx, mouse.sy, mouse.ox, mouse.oy))
  /\ cursor' = TRUE
  /\ mouse' = [mouse EXCEPT !.on = 0, !.ox = x, !.oy = y]
  /\ UNCHANGED <<pc, sel, by>>

\* Slip: the box is drawn anew and the old one left.
SaveDragLeavesBox(x, y) ==
  LET moved == x # mouse.ox \/ y # mouse.oy
  IN  /\ boxes' = IF moved THEN Inverted(boxes, Box(mouse.sx, mouse.sy, x, y)) ELSE boxes
      /\ cursor' = (cursor \/ moved)
      /\ mouse' = [mouse EXCEPT !.ox = x, !.oy = y]
      /\ UNCHANGED <<pc, sel, by>>

\* The box follows the mouse.
SaveDrag(x, y) ==
  LET moved == x # mouse.ox \/ y # mouse.oy
      erased == Inverted(boxes, Box(mouse.sx, mouse.sy, mouse.ox, mouse.oy))
  IN  /\ boxes' = IF moved THEN Inverted(erased, Box(mouse.sx, mouse.sy, x, y)) ELSE boxes
      /\ cursor' = (cursor \/ moved)
      /\ mouse' = [mouse EXCEPT !.ox = x, !.oy = y]
      /\ UNCHANGED <<pc, sel, by>>

\* The button is let go: what is marked, up to where the mouse was last seen
\* with it pressed.
SaveRelease(x, y) ==
  LET left == Least(mouse.sx, mouse.ox)    right == mouse.sx + mouse.ox - left
      top == Least(mouse.sy, mouse.oy)     bottom == mouse.sy + mouse.oy - top
  IN  /\ sel' = [x |-> left, y |-> top, w |-> right - left + 1, h |-> bottom - top + 1]
      /\ boxes' = Inverted(boxes, Box(left, top, right, bottom))
      /\ mouse' = [mouse EXCEPT !.sx = left, !.sy = top, !.ox = right, !.oy = bottom]
      /\ cursor' = FALSE
      /\ by' = "button"
      /\ pc' = "save"

\* The left button: a box of one dot.
SavePress(x, y) ==
  /\ mouse' = [sx |-> x, sy |-> y, ox |-> x, oy |-> y, on |-> 1]
  /\ boxes' = Inverted(boxes, Box(x, y, x, y))
  /\ cursor' = FALSE
  /\ UNCHANGED <<pc, sel, by>>

SaveIdle(x, y) ==
  /\ mouse' = [mouse EXCEPT !.ox = x, !.oy = y]
  /\ cursor' = (cursor \/ x # mouse.ox \/ y # mouse.oy)
  /\ UNCHANGED <<pc, boxes, sel, by>>

\* A look at the mouse.
SaveMouse ==
  /\ pc = "mouse"
  /\ \E x \in MouseX, y \in MouseY, left, right \in BOOLEAN :
       \/ mouse.on = 1 /\ right /\ SaveCancel(x, y)
       \/ mouse.on = 1 /\ ~right /\ left /\ SaveDrag(x, y)
       \/ mouse.on = 1 /\ ~right /\ ~left /\ SaveRelease(x, y)
       \/ mouse.on = 0 /\ left /\ SavePress(x, y)
       \/ mouse.on = 0 /\ ~left /\ SaveIdle(x, y)
  /\ UNCHANGED <<in, gmode, pal, rd, row, screen, file>>

\* The bytes of a line, filled up to four, from the dots right of the part.
\* Slip: the lines are not filled up.
SaveScanBare(w) == w
SaveScan(w) == Mask4(w + 3)

\* The header's fields that bmpload reads.
SavedHeader ==
  [opt |-> "8", opens |-> TRUE, type |-> "BM", w |-> sel.w, h |-> sel.h, bit |-> 8,
   comp |-> 0, lut |-> LutSize, len |-> LutSize + SaveScan(sel.w) * sel.h,
   data |-> <<>>, codes |-> <<>>, whole |-> TRUE]

\* The lines, from the bottom up; a file that cannot be made is an error.
SaveWrite ==
  /\ pc = "save"
  /\ \/ LET scan == SaveScan(sel.w)
        IN  /\ file' = [k \in 1 .. scan * sel.h |->
                          <<sel.x + ((k - 1) % scan), sel.y + sel.h - 1 - ((k - 1) \div scan)>>]
            /\ in' = SavedHeader
            /\ pc' = "end"
     \/ pc' = "error" /\ UNCHANGED <<file, in>>
  /\ UNCHANGED <<gmode, pal, rd, row, screen, mouse, cursor, boxes, sel, by>>

SaveNext ==
  \/ SaveGinit \/ SaveKeyC \/ SaveKeyS \/ SaveKeyOther \/ SaveMouse \/ SaveWrite

---------------------------------------------------------------------------
(* While the mouse is looked at, the one box on the screen is that from    *)
(* where the button was pressed to where the mouse was last seen, and there *)
(* is none when it is not pressed.  When the button has been let go the box *)
(* and the cursor are off the screen, and what is saved is what the box     *)
(* last went around.  (With 'S', bmpsave.c:127, a box that is being drawn   *)
(* stays and is saved, and the part saved is the one to begin with.)        *)
BoxErased ==
  prog = "bmpsave" =>
    LET last == Box(mouse.sx, mouse.sy, mouse.ox, mouse.oy)
    IN  /\ pc = "mouse" => boxes = {b \in {last} : mouse.on = 1}
        /\ pc \in {"save", "end"} => ~cursor
        /\ pc \in {"save", "end"} /\ by = "button" =>
             boxes = {} /\ last = Box(sel.x, sel.y, sel.x + sel.w - 1, sel.y + sel.h - 1)

(* A file that bmpsave wrote is one that bmpload shows as it was: every dot *)
(* of the part marked, in its place, except the top line, which nomal()     *)
(* never draws (bmpload.c:422).                                             *)
SavedReloads ==
  (prog = "bmpload" /\ file # <<>> /\ pc = "keys") =>
    /\ {screen[k].y : k \in 1 .. Len(screen)} = 1 .. sel.h - 1
    /\ \A k \in 1 .. Len(screen) :
         /\ Len(screen[k].px) = sel.w
         /\ \A x \in 1 .. sel.w :
              LET place == screen[k].px[x][1] - LutSize + 1
              IN  /\ place \in DOMAIN file
                  /\ file[place] = <<sel.x + x - 1, sel.y + screen[k].y>>

SaveTypeOK ==
  /\ pc \in {"main", "mouse", "save", "end", "error"}
  /\ mouse.on \in {0, 1}
  /\ mouse.sx \in MouseX \cup {0} /\ mouse.ox \in MouseX \cup {0}
  /\ mouse.sy \in MouseY \cup {0} /\ mouse.oy \in MouseY \cup {0}
  /\ sel.w > 0 /\ sel.h > 0
=============================================================================
