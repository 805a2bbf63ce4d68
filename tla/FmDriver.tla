------------------------------ MODULE FmDriver ------------------------------
(***************************************************************************)
(* fm_opl3/fm.c: a driver that plays tones on the nine channels of an FM   *)
(* chip, called by fmtest.c or by a program that keeps to fm.h.            *)
(***************************************************************************)
EXTENDS Integers, Sequences

CONSTANTS
  FmChannels,     \* bound: channels a program uses, of 0 to 8
  FmTones,        \* bound: frequencies it plays
  FmTestTones,    \* bound: tones fmtest plays (19999)
  MaxCalls        \* bound: calls of another program

ASSUME FmAssumption ==
  /\ FmChannels \subseteq 0 .. 8 /\ 0 \in FmChannels /\ FmTones \subseteq Nat
  /\ FmTestTones \in Nat /\ MaxCalls \in Nat

VARIABLES
  caller,         \* "fmtest" or "any"
  fpc,            \* "detect", "reset", "calls" or "end"
  calls,          \* calls made
  freg,           \* the registers of the chip
  layout,         \* whether the shadow arrays lie one behind the other
  shadow,         \* fm_car_ksl, fm_mod_chars, fm_car_chars, fm_rB0
  patches,        \* what the caller asked for: the patch of each channel ...
  tones           \* ... and its tone: frequency, volume, and whether it sounds

fmVars == <<caller, fpc, calls, freg, layout, shadow, patches, tones>>

\* Pairs are the modulator's and the carrier's.
Sine == [chars |-> <<0, 33>>, ksl_lev |-> <<63, 0>>, att_dec |-> <<0, 255>>,
         sus_rel |-> <<0, 15>>, wav_sel |-> <<0, 0>>, fb_conn |-> 0]
Piano == [chars |-> <<17, 33>>, ksl_lev |-> <<144, 0>>, att_dec |-> <<130, 242>>,
          sus_rel |-> <<2, 115>>, wav_sel |-> <<0, 0>>, fb_conn |-> 10]
\* One of the caller's own, whose carrier has four times the base frequency.
Bell == [chars |-> <<2, 36>>, ksl_lev |-> <<16, 64>>, att_dec |-> <<240, 241>>,
         sus_rel |-> <<5, 6>>, wav_sel |-> <<1, 2>>, fb_conn |-> 4]

NoPatch == [fb_conn |-> -1]
Silent == [freq |-> 0, vol |-> 0, on |-> FALSE]

FmInit ==
  /\ caller \in {"fmtest", "any"} /\ fpc = "detect" /\ calls = 0
  /\ freg = [r \in 1 .. 245 |-> 0] /\ layout \in {"packed", "apart"}
  /\ shadow = [c \in {"car_ksl", "mod_chars", "car_chars", "rB0"} \X (0 .. 8) |-> 0]
  /\ patches = [ch \in FmChannels |-> NoPatch]
  /\ tones = [ch \in FmChannels |-> Silent]

---------------------------------------------------------------------------
(* The registers.                                                          *)

\* Slip: the second gap between the registers of the operators is forgotten.
OpRegOneGap(base, ch, op) == base + ch + (IF ch > 2 THEN 5 ELSE 0) + 3 * op

\* fm_set_op_reg: where an operator of a channel has its register.
OpReg(base, ch, op) ==
  base + ch + (IF ch > 2 THEN 5 ELSE 0) + (IF ch > 5 THEN 5 ELSE 0) + 3 * op

\* fm_set_ch_reg
ChReg(base, ch) == base + ch

\* fm_set_reg: registers set one after another, each <<number, value>>.
SetRegs(writes) ==
  [r \in 1 .. 245 |->
     LET last == {k \in 1 .. Len(writes) :
                    writes[k][1] = r /\ \A j \in k + 1 .. Len(writes) : writes[j][1] # r}
     IN  IF last = {} THEN freg[r] ELSE writes[CHOOSE k \in last : TRUE][2]]

\* The arrays have eight elements: that of channel 8 is where the next begins.
Cell(array, ch) ==
  IF ch < 8 \/ layout = "apart" THEN <<array, ch>>
  ELSE CASE array = "car_ksl" -> <<"mod_chars", 0>>
         [] array = "mod_chars" -> <<"car_chars", 0>>
         [] array = "car_chars" -> <<"rB0", 0>>
         [] array = "rB0" -> <<"rB0", 8>>

---------------------------------------------------------------------------
(* The calls.                                                              *)

\* fm_detect: the chip's timer answers, or there is no chip.
FmDetect ==
  /\ fpc = "detect"
  /\ freg' = SetRegs(<< <<4, 96>>, <<4, 128>>, <<2, 255>>, <<4, 33>>, <<4, 96>>, <<4, 128>> >>)
  /\ fpc' \in {"reset", "end"}
  /\ UNCHANGED <<caller, calls, layout, shadow, patches, tones>>

\* fm_reset
FmReset ==
  /\ fpc = "reset"
  /\ freg' = [r \in 1 .. 245 |-> IF r = 1 THEN 32 ELSE 0]
  /\ fpc' = "calls"
  /\ UNCHANGED <<caller, calls, layout, shadow, patches, tones>>

\* fm_load_patch
LoadPatch(ch, p) ==
  /\ freg' = SetRegs(
       << <<OpReg(32, ch, 0), p.chars[1]>>,    <<OpReg(32, ch, 1), p.chars[2]>>,
          <<OpReg(64, ch, 0), p.ksl_lev[1]>>,  <<OpReg(64, ch, 1), p.ksl_lev[2]>>,
          <<OpReg(96, ch, 0), p.att_dec[1]>>,  <<OpReg(96, ch, 1), p.att_dec[2]>>,
          <<OpReg(128, ch, 0), p.sus_rel[1]>>, <<OpReg(128, ch, 1), p.sus_rel[2]>>,
          <<OpReg(224, ch, 0), p.wav_sel[1]>>, <<OpReg(224, ch, 1), p.wav_sel[2]>>,
          <<ChReg(192, ch), p.fb_conn>> >>)
  /\ shadow' = [shadow EXCEPT ![Cell("car_ksl", ch)] = p.ksl_lev[2],
                              ![Cell("mod_chars", ch)] = p.chars[1],
                              ![Cell("car_chars", ch)] = p.chars[2]]
  /\ patches' = [patches EXCEPT ![ch] = p]
  /\ tones' = [tones EXCEPT ![ch].freq = 0]

\* fm_get_block_fnum: the number of a base frequency ...
FreqNum(freq, mult) == (65536 * (freq \div mult)) \div 3125

\* ... halved into ten bits; 8 when the block has no room for it.
Halvings(n) ==
  LET fits == {b \in 0 .. 7 : n \div 2 ^ b <= 1023}
  IN  IF fits = {} THEN 8 ELSE CHOOSE b \in fits : \A c \in fits : b <= c

\* The first multiple whose base frequency can be played; 15 is never tried.
Mult(freq) ==
  LET fit == {m \in {1, 2, 4, 8} : Halvings(FreqNum(freq, m)) < 8}
  IN  IF fit = {} THEN 15 ELSE CHOOSE m \in fit : \A k \in fit : m <= k

\* fm_play_tone: nothing is done when the tone or its harmonics are too high.
PlayTone(ch, freq, vol) ==
  LET mult == Mult(freq)
      n == FreqNum(freq, mult)
      block == Halvings(n)
      fnum == n \div 2 ^ block
      mod == shadow[Cell("mod_chars", ch)]
      car == shadow[Cell("car_chars", ch)]
      ksl == shadow[Cell("car_ksl", ch)]
      rB0 == 32 + 4 * block + fnum \div 256
  IN  IF mult = 15 \/ (mod % 16) * mult > 15 \/ (car % 16) * mult > 15
      THEN UNCHANGED <<freg, shadow, tones>>
      ELSE /\ shadow' = [shadow EXCEPT ![Cell("rB0", ch)] = rB0]
           /\ freg' = SetRegs(
                << <<OpReg(32, ch, 0), mod - (mod % 16) + (mod % 16) * mult>>,
                   <<OpReg(32, ch, 1), car - (car % 16) + (car % 16) * mult>>,
                   <<OpReg(64, ch, 1), ksl - (ksl % 64) + 63 - vol>>,
                   <<ChReg(160, ch), fnum % 256>>,
                   <<ChReg(176, ch), rB0>> >>)
           /\ tones' = [tones EXCEPT ![ch] = [freq |-> freq, vol |-> vol, on |-> TRUE]]

\* fm_stop_tone: the key-on bit goes, the pitch stays.
StopTone(ch) ==
  LET rB0 == shadow[Cell("rB0", ch)]
  IN  /\ freg' = SetRegs(<< <<ChReg(176, ch), rB0 - 32 * ((rB0 \div 32) % 2)>> >>)
      /\ tones' = [tones EXCEPT ![ch].on = FALSE]
      /\ UNCHANGED shadow

---------------------------------------------------------------------------
(* The callers.                                                            *)

\* fmtest: the sine on channel 0, tones from 1 up until a key is pressed.
FmTest ==
  /\ caller = "fmtest" /\ fpc = "calls"
  /\ calls' = calls + 1
  /\ \/ /\ calls = 0
        /\ LoadPatch(0, Sine)
        /\ UNCHANGED fpc
     \/ /\ calls \in 1 .. FmTestTones
        /\ PlayTone(0, calls, 63)
        /\ UNCHANGED <<fpc, patches>>
     \/ /\ calls > 1
        /\ StopTone(0)
        /\ fpc' = "end"
        /\ UNCHANGED patches
  /\ UNCHANGED <<caller, layout>>

\* Any other: a patch for a channel comes before its tones.
FmCall ==
  /\ caller = "any" /\ fpc = "calls" /\ calls < MaxCalls
  /\ calls' = calls + 1
  /\ \E ch \in FmChannels :
       \/ \E p \in {Sine, Piano, Bell} : LoadPatch(ch, p)
       \/ /\ patches[ch] # NoPatch
          /\ \/ \E freq \in FmTones, vol \in {0, 63} : PlayTone(ch, freq, vol)
             \/ StopTone(ch)
          /\ UNCHANGED patches
  /\ UNCHANGED <<caller, fpc, layout>>

FmNext == FmDetect \/ FmReset \/ FmTest \/ FmCall

---------------------------------------------------------------------------
(* What the chip plays on a channel, by the layout of its registers.       *)

ModulatorAt(ch) == <<0, 1, 2, 8, 9, 10, 16, 17, 18>>[ch + 1]
CarrierAt(ch) == ModulatorAt(ch) + 3

FixedAsLoaded(ch) ==
  LET p == patches[ch]  m == ModulatorAt(ch)  c == CarrierAt(ch)
  IN  /\ freg[96 + m] = p.att_dec[1] /\ freg[96 + c] = p.att_dec[2]
      /\ freg[128 + m] = p.sus_rel[1] /\ freg[128 + c] = p.sus_rel[2]
      /\ freg[224 + m] = p.wav_sel[1] /\ freg[224 + c] = p.wav_sel[2]
      /\ freg[64 + m] = p.ksl_lev[1] /\ freg[192 + ch] = p.fb_conn

\* The base frequency in the registers, by its number and block, times the
\* multiple, is less than a step of the number below the tone's.
Pitch(ch) == (freg[160 + ch] + 256 * (freg[176 + ch] % 4))
Block(ch) == (freg[176 + ch] \div 4) % 8
PitchOf(ch, freq, mult) ==
  LET n == (65536 * (freq \div mult)) \div 3125
  IN  Pitch(ch) * 2 ^ Block(ch) <= n /\ n < (Pitch(ch) + 1) * 2 ^ Block(ch)

Played(ch) ==
  LET p == patches[ch]  t == tones[ch]  c == 32 + CarrierAt(ch)  m == 32 + ModulatorAt(ch)
  IN  \E mult \in {1, 2, 4, 8} :
        /\ freg[c] = p.chars[2] + (p.chars[2] % 16) * (mult - 1)
        /\ freg[m] = p.chars[1] + (p.chars[1] % 16) * (mult - 1)
        /\ freg[64 + CarrierAt(ch)] = p.ksl_lev[2] - (p.ksl_lev[2] % 64) + 63 - t.vol
        /\ PitchOf(ch, t.freq, mult)

(* Whatever is called for the other channels, a channel has on the chip    *)
(* the patch last loaded for it and the tone last played that could be, at *)
(* its pitch and volume, sounding until it is stopped, at the same pitch   *)
(* after; and a tone too high to be played changes nothing.  The exception *)
(* is channel 8, which fm.h allows, when the arrays lie one behind the     *)
(* other (fm.c:37).                                                        *)
ChannelsIndependent ==
  (fpc \in {"calls", "end"} /\ ~(layout = "packed" /\ 8 \in FmChannels /\ patches[8] # NoPatch)) =>
    \A ch \in FmChannels : patches[ch] # NoPatch =>
      /\ FixedAsLoaded(ch)
      /\ tones[ch].freq > 0 => Played(ch)
      /\ freg[176 + ch] >= 32 <=> tones[ch].on

FmTypeOK ==
  /\ \A r \in 1 .. 245 : freg[r] \in 0 .. 255
  /\ \A c \in DOMAIN shadow : shadow[c] \in 0 .. 255
  /\ fpc \in {"detect", "reset", "calls", "end"}
=============================================================================
