----------------------------- MODULE MCGaTools ------------------------------
(***************************************************************************)
(* Small files for the picture programs.                                   *)
(***************************************************************************)
EXTENDS GaTools

Bmp(opt, type, w, h, bit, comp, lut, len) ==
  [opt |-> opt, opens |-> TRUE, type |-> type, w |-> w, h |-> h, bit |-> bit, comp |-> comp,
   lut |-> lut, len |-> len, data |-> <<>>, codes |-> <<>>, whole |-> TRUE]

\* Plain files of every number of bits, whole or cut, lines that fill their
\* four bytes and lines that do not, more lines than the screen has.
PlainFiles ==
  {Bmp(opt, "BM", w, h, bit, 0, lut, len) :
     opt \in {"8", "16"}, w \in {1, 3, 5}, h \in {1, 4, 5}, bit \in {1, 4, 8, 24},
     lut \in {0, 4}, len \in {0, 4, 7, 20, 36}}

OddFiles ==
  {Bmp("bad", "BM", 1, 1, 8, 0, 4, 8), Bmp("8", "other", 1, 1, 8, 0, 4, 8),
   Bmp("8", "BM", 1, 1, 8, 3, 4, 8),
   [Bmp("8", "BM", 1, 1, 8, 0, 4, 8) EXCEPT !.opens = FALSE]}

Code(op, n, px) == [op |-> op, n |-> n, px |-> px]

Codes8 ==
  {Code("run", 1, <<7>>), Code("run", 15, <<2>>), Code("abs", 0, <<3, 4, 5>>),
   Code("abs", 0, <<1, 0, 1, 2>>), Code("abs", 0, [k \in 1 .. 15 |-> k]),
   Code("eol", 0, <<>>), Code("eob", 0, <<>>), Code("delta", 0, <<2>>),
   Code("delta", 1, <<2>>)}

Codes4 ==
  {Code("run", 3, <<1, 2>>), Code("run", 4, <<3, 0>>), Code("run", 15, <<1, 2>>),
   Code("abs", 0, <<3, 2, 1>>), Code("abs", 0, <<1, 0, 3, 2, 1>>),
   Code("abs", 0, <<1, 2, 3, 1, 2, 3, 0>>),
   Code("eol", 0, <<>>), Code("eob", 0, <<>>), Code("delta", 0, <<2>>)}

Padded(b) == IF Len(b) % 2 = 1 THEN Append(b, 9) ELSE b

Halves(px) ==
  [k \in 1 .. (Len(px) + 1) \div 2 |->
     NibbleMod * px[2 * k - 1] + (IF 2 * k <= Len(px) THEN px[2 * k] ELSE 0)]

\* The bytes of a code.
Bytes(bit, c) ==
  CASE c.op = "run"   -> <<c.n, IF bit = 8 THEN c.px[1] ELSE NibbleMod * c.px[1] + c.px[2]>>
    [] c.op = "abs"   -> <<0, Len(c.px)>> \o Padded(IF bit = 8 THEN c.px ELSE Halves(c.px))
    [] c.op = "eol"   -> <<0, 0>>
    [] c.op = "eob"   -> <<0, 1>>
    [] c.op = "delta" -> <<0, 2, c.px[1], c.n>>

Coding(bit, codes, cut) ==
  LET all == FoldLeft(LAMBDA b, c : b \o Bytes(bit, c), <<>>, codes)
      data == SubSeq(all, 1, Len(all) - cut)
  IN  [Bmp("8", "BM", 4, 3, bit, IF bit = 8 THEN 1 ELSE 2, 4, 4) EXCEPT
         !.data = data, !.codes = codes, !.whole = cut = 0]

RleFiles ==
  {Coding(8, codes, cut) : codes \in UNION {[1 .. n -> Codes8] : n \in 1 .. 3}, cut \in 0 .. 1}
  \cup
  {Coding(4, codes, cut) : codes \in UNION {[1 .. n -> Codes4] : n \in 1 .. 3}, cut \in 0 .. 1}

MCBmpFiles == PlainFiles \cup OddFiles \cup RleFiles

Rgb(w, h, data) == [opens |-> TRUE, w |-> w, h |-> h, data |-> data, dither |-> FALSE]

\* Two bright lines of two dots; six lines that leave little to pass on.
RgbBright == <<255, 40, 77, 100, 255, 0,  3, 255, 99, 0, 0, 0>>
RgbLong ==
  [k \in 1 .. 36 |-> CASE k = 2 -> 255 [] k = 9 -> 102 [] k = 17 -> 51 [] k = 27 -> 60 [] OTHER -> 0]

\* Files whole or cut, and widths that rgbload is not made for.
MCRgbFiles ==
  {Rgb(2, 3, SubSeq(RgbBright, 1, n)) : n \in {0, 5, 6, 12}}
  \cup {Rgb(2, 6, SubSeq(RgbLong, 1, n)) : n \in {13, 30, 36}}
  \cup {Rgb(w, 1, [k \in 1 .. 27 |-> k]) : w \in {0, 4, 5, 9}}
  \cup {[Rgb(1, 1, <<0, 0, 0>>) EXCEPT !.opens = FALSE]}

X68(dither, data) ==
  [opens |-> TRUE, w |-> X68Width, h |-> X68Height, data |-> data, dither |-> dither]

\* Seven lines of four bytes, of which the first and the sixth are passed by.
X68Data ==
  <<255, 255, 255, 255,  0, 0, 200, 170,  7, 192, 0, 0,  0, 0, 0, 0,
    0, 62, 0, 0,  255, 255, 3, 4,  100, 0, 0, 60>>

MCX68Files ==
  {X68(d, SubSeq(X68Data, 1, n)) : d \in BOOLEAN, n \in {0, 8, 14, 23, 24, 28}}
  \cup {[X68(FALSE, <<>>) EXCEPT !.opens = FALSE]}

Tag(tag, val) == [tag |-> tag, val |-> val]

Tiff(dither, magic, tags, len) ==
  [opens |-> TRUE, dither |-> dither, magic |-> magic, dir |-> 2, tags |-> tags,
   data |-> [k \in 1 .. len |-> (k * 83) % 256]]

\* Strips behind a directory, some of them shorter than the lines need, and
\* directories with an entry beyond the bytes read.
MCTiffFiles ==
  {Tiff(dither, "II",
        <<Tag("xsize", w), Tag("ysize", h), Tag("bits", bits[1]), Tag("samples", bits[2]),
          Tag("photometric", ph), Tag("offset", 14), Tag("fillorder", fill),
          Tag("colormap", 3)>>, len) :
     dither \in BOOLEAN, w \in {2, 3, 5}, h \in {3}, bits \in {<<1, 1>>, <<4, 1>>, <<8, 1>>, <<16, 1>>, <<8, 3>>},
     ph \in {2, 3}, fill \in {1, 2}, len \in {14, 21, 60}}
  \cup {Tiff(FALSE, "II", <<Tag("xsize", 2), Tag("ysize", 1), Tag("bits", 8), Tag(t, v)>>, 20) :
          t \in {"photometric", "newsubfile", "compression"}, v \in {0, 1, 5}}
  \cup {Tiff(FALSE, "II", <<Tag("ysize", 1), Tag("bits", 2)>>, 20),
        Tiff(FALSE, "II", <<Tag("ysize", 1)>>, 20), Tiff(FALSE, "MM", <<>>, 20),
        Tiff(FALSE, "II", <<>>, 0),
        Tiff(FALSE, "II", [k \in 1 .. 9 |-> IF k < 9 THEN Tag("other", k) ELSE Tag("ysize", 3)], 20),
        [Tiff(FALSE, "II", <<>>, 20) EXCEPT !.opens = FALSE]}
=============================================================================
