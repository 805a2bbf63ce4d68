------------------------------ MODULE GaTools -------------------------------
(***************************************************************************)
(* The picture programs of src/ga/sample: the user runs one of them, and   *)
(* may load with bmpload what bmpsave saved.                               *)
(***************************************************************************)
EXTENDS BmpSave, TiffLoad

CONSTANTS
  BmpFiles, RgbFiles, X68Files, TiffFiles    \* what each is run with

ASSUME GaFilesAssumption ==
  /\ \A f \in BmpFiles : IsBmpFile(f)
  /\ \A f \in RgbFiles : IsRgbFile(f)
  /\ \A f \in X68Files : IsRgbFile(f) /\ f.dither \in BOOLEAN
  /\ \A f \in TiffFiles : IsTiffFile(f) /\ f.dither \in BOOLEAN

vars == <<gaVars, bmpVars, saveVars, rgbVars>>

Init ==
  /\ BmpRest /\ SaveRest /\ RgbRest
  /\ \/ \E f \in BmpFiles : BmpStart(f)
     \/ SaveStart
     \/ \E f \in RgbFiles : RgbStart("rgbload", f) \/ RgbStart("rgbld16", f)
     \/ \E f \in X68Files : X68Start(f)
     \/ \E f \in TiffFiles : TiffStart(f)

\* bmpload of the file bmpsave wrote.
LoadSaved ==
  /\ prog = "bmpsave" /\ pc = "end"
  /\ prog' = "bmpload" /\ pc' = "main"
  /\ gmode' = 1 /\ pal' = "default"
  /\ rd' = Opened(in.len)
  /\ UNCHANGED <<in, row, screen, bmpVars, saveVars, rgbVars>>

RunBmpLoad == prog = "bmpload" /\ BmpNext /\ UNCHANGED <<prog, saveVars, rgbVars>>
RunBmpSave == prog = "bmpsave" /\ SaveNext /\ UNCHANGED <<prog, bmpVars, rgbVars>>
RunRgbLoad == prog = "rgbload" /\ RgbNext /\ UNCHANGED <<prog, bmpVars, saveVars>>
RunRgbld16 == prog = "rgbld16" /\ Rgb16Next /\ UNCHANGED <<prog, bmpVars, saveVars, rgbVars>>
RunX68Load == prog = "x68load" /\ X68Next /\ UNCHANGED <<prog, bmpVars, saveVars>>
RunTiffLoad == prog = "tiffload" /\ TiffNext /\ UNCHANGED <<prog, bmpVars, saveVars, rgbVars>>

Next ==
  \/ RunBmpLoad \/ RunBmpSave \/ RunRgbLoad \/ RunRgbld16 \/ RunX68Load \/ RunTiffLoad
  \/ LoadSaved

Spec == Init /\ [][Next]_vars

\* A program that computes goes on: the decoders of bmpload wait for nobody.
DecodeStep ==
  prog = "bmpload" /\ (BmpGaload \/ BmpRle8 \/ BmpRle4) /\ UNCHANGED <<prog, saveVars, rgbVars>>

FairSpec == Spec /\ WF_vars(DecodeStep)

---------------------------------------------------------------------------
TypeOK ==
  /\ GaTypeOK
  /\ prog = "bmpload" => BmpTypeOK
  /\ prog = "bmpsave" => SaveTypeOK
  /\ prog \in {"rgbload", "x68load"} => RgbTypeOK

(* Every dot on the screen is the dot of the file that belongs there: the  *)
(* lines come one after another from a buffer filled many lines at a time, *)
(* each padded or not as its format says, the colours in their order.      *)
(* When the file ends early what is shown past its end is less than a      *)
(* buffer of old bytes; and nothing the file has is left out, except the   *)
(* top line of a BMP file (bmpload.c:422).  BMP files of 24 bits are taken *)
(* to have their lines right after the header (bmpload.c:266).             *)
RowsInPlace ==
  CASE prog = "bmpload" -> BmpRowsInPlace
    [] prog = "rgbload" -> RgbLoadRowsInPlace
    [] prog = "rgbld16" -> Rgb16RowsInPlace
    [] prog = "x68load" -> X68RowsInPlace
    [] prog = "tiffload" -> TiffRowsInPlace
    [] OTHER -> TRUE

(* Fewer colours, but the same light: what the dots of a picture have      *)
(* together, with what is still to be passed to the right and down, is     *)
(* never more than the file's, and less only by what the divisions drop.   *)
(* A dither gives four dots just the light of the one they stand for.      *)
NoLightCreated ==
  CASE prog = "rgbload" -> RgbLightBalance
    [] prog = "x68load" -> X68LightBalance
    [] prog = "tiffload" -> TiffLightBalance
    [] OTHER -> TRUE
=============================================================================
