------------------------------ MODULE EsenetJis ------------------------------
(***************************************************************************)
(* output_jis() of teen/esenet/esenet.c: the JIS to Shift JIS conversion   *)
(* of what the telnet client receives, a machine over bytes that keeps its *)
(* context from one piece of the stream to the next.                       *)
(*                                                                         *)
(* A call gets a piece of at most RecvBufLen bytes, cut wherever TCP, the  *)
(* telnet commands and the zero bytes cut the stream, and writes what it   *)
(* converts to an array of RecvBufLen + 3 bytes with no check.  One action *)
(* is one pass of its loop; EndPiece is the call of loutput and the next   *)
(* call of output_jis.  The host sends JIS text, piece by piece, and may   *)
(* send junk.                                                              *)
(***************************************************************************)
EXTENDS Integers, Sequences, SequencesExt

CONSTANTS
  RecvBufLen,     \* RECVBUFLEN: bytes of the longest piece (160 in the program)
  KanjiBytes,     \* jistojms converts a pair of these, and gives 0 for others
  TextBytes,      \* printable bytes the host sends outside kanji
  JunkBytes,      \* bytes it sends against the rules
  MaxItems        \* bound: items the host sends

ASSUME RecvBufLenAssumption == RecvBufLen \in Nat \ {0}
ASSUME BytesAssumption ==
  /\ KanjiBytes \subseteq 33..126 /\ TextBytes \subseteq 32..255
  /\ JunkBytes \subseteq 0..255
ASSUME MaxItemsAssumption == MaxItems \in Nat

VARIABLES
  context,        \* static: where in an escape sequence or a kanji the stream is
  firstbyte,      \* static: the first byte of a kanji whose second is to come
  sjisbuf,        \* what this call has converted
  used,           \* bytes of the piece this call has read
  todo,           \* bytes of the current item still to come
  shown,          \* what loutput was given by the calls before
  want,           \* what the items so far mean
  kanji,          \* the host has shifted to kanji
  clean,          \* the host has sent no junk
  items           \* items sent so far

machineVars == <<context, firstbyte, sjisbuf, used>>
hostVars == <<todo, want, kanji, clean, items>>
vars == <<machineVars, hostVars, shown>>

Contexts == {"ascii", "jis1", "jis2", "esc", "esc_kakko", "esc_dollar"}

ESC == 27

\* The two bytes of the Shift JIS character of a JIS pair, kept apart from
\* single bytes and from each other.
Sjis(hi, lo) == <<256 + hi, 512 + lo>>

Init ==
  /\ context = "ascii" /\ firstbyte = 0 /\ sjisbuf = <<>> /\ used = 0
  /\ todo = <<>> /\ shown = <<>> /\ want = <<>>
  /\ kanji = FALSE /\ clean = TRUE /\ items = 0

----------------------------------------------------------------------------
(* The host.                                                              *)

\* It sends the bytes of the next item, which mean what is given.
Send(bytes, meaning) ==
  /\ todo = <<>> /\ items < MaxItems
  /\ todo' = bytes
  /\ want' = want \o meaning
  /\ items' = items + 1

HostSends ==
  /\ \/ \E c \in TextBytes :
          ~kanji /\ Send(<<c>>, <<c>>) /\ UNCHANGED <<kanji, clean>>
     \/ \E h, l \in KanjiBytes :
          kanji /\ Send(<<h, l>>, Sjis(h, l)) /\ UNCHANGED <<kanji, clean>>
     \/ Send(<<10>>, <<10>>) /\ kanji' = FALSE /\ UNCHANGED clean
     \/ Send(<<ESC, 36, 66>>, <<>>) /\ kanji' = TRUE /\ UNCHANGED clean
     \/ \E c \in {66, 74} :
          Send(<<ESC, 40, c>>, <<>>) /\ kanji' = FALSE /\ UNCHANGED clean
     \/ \E c \in JunkBytes :
          Send(<<c>>, <<>>) /\ clean' = FALSE /\ UNCHANGED kanji
  /\ UNCHANGED <<machineVars, shown>>

----------------------------------------------------------------------------
(* The machine, context by context, reading byte c.                       *)

Goto(next, bytes) ==
  /\ context' = next
  /\ sjisbuf' = sjisbuf \o bytes

\* A slip: the context of an unfinished escape sequence is kept.
AfterBadEscapeStays == context

\* An unknown escape sequence ends at its first wrong byte.
AfterBadEscape == "ascii"

InAscii(c) ==
  /\ context = "ascii"
  /\ IF c = ESC THEN Goto("esc", <<>>) ELSE Goto("ascii", <<c>>)
  /\ UNCHANGED firstbyte

InJis1(c) ==
  /\ context = "jis1"
  /\ \/ c = ESC /\ Goto("esc", <<>>) /\ UNCHANGED firstbyte
     \/ c # ESC /\ c < 33 /\ Goto("ascii", <<c>>) /\ UNCHANGED firstbyte
     \/ c >= 33 /\ Goto("jis2", <<>>) /\ firstbyte' = c

\* The branch for ESC has no `else` behind it: ESC runs into the branch for
\* control characters as well, which writes firstbyte again and leaves ESC to
\* the screen.
InJis2(c) ==
  /\ context = "jis2"
  /\ \/ c = ESC /\ Goto("ascii", <<firstbyte, firstbyte, ESC>>)
     \/ c # ESC /\ c < 33 /\ Goto("ascii", <<firstbyte, c>>)
     \/ c >= 33 /\ {firstbyte, c} \subseteq KanjiBytes
        /\ Goto("jis1", Sjis(firstbyte, c))
     \/ c >= 33 /\ ~({firstbyte, c} \subseteq KanjiBytes)
        /\ Goto("jis1", <<>>)
  /\ UNCHANGED firstbyte

InEsc(c) ==
  /\ context = "esc"
  /\ \/ c = 40 /\ Goto("esc_kakko", <<>>)
     \/ c = 36 /\ Goto("esc_dollar", <<>>)
     \/ c \notin {36, 40} /\ Goto(AfterBadEscape, <<ESC, c>>)
  /\ UNCHANGED firstbyte

InEscKakko(c) ==
  /\ context = "esc_kakko"
  /\ IF c \in {66, 74} THEN Goto("ascii", <<>>)
     ELSE Goto(AfterBadEscape, <<ESC, 40, c>>)
  /\ UNCHANGED firstbyte

InEscDollar(c) ==
  /\ context = "esc_dollar"
  /\ IF c = 66 THEN Goto("jis1", <<>>)
     ELSE Goto(AfterBadEscape, <<ESC, 36, c>>)
  /\ UNCHANGED firstbyte

\* A slip: the piece is one byte longer than tcp_recv was asked for.
PieceMaxPlusOne == RecvBufLen + 1

\* What mainloop asks tcp_recv for, and the longest piece with it.
PieceMax == RecvBufLen

\* One pass of the loop of output_jis.
Convert ==
  /\ todo # <<>> /\ used < PieceMax
  /\ \/ InAscii(Head(todo)) \/ InJis1(Head(todo)) \/ InJis2(Head(todo))
     \/ InEsc(Head(todo)) \/ InEscKakko(Head(todo)) \/ InEscDollar(Head(todo))
  /\ used' = used + 1
  /\ todo' = Tail(todo)
  /\ UNCHANGED <<shown, want, kanji, clean, items>>

\* A slip: the context is a variable of the call.
ContextLost == "ascii"

\* The context is static.
ContextKept == context

\* The piece ends: loutput, and the next call.
EndPiece ==
  /\ used > 0
  /\ shown' = shown \o sjisbuf
  /\ sjisbuf' = <<>>
  /\ used' = 0
  /\ context' = ContextKept
  /\ UNCHANGED <<firstbyte, hostVars>>

\* The host has sent its items and all are converted.
Done == items = MaxItems /\ todo = <<>> /\ used = 0 /\ UNCHANGED vars

Next == HostSends \/ Convert \/ EndPiece \/ Done

Spec == Init /\ [][Next]_vars

----------------------------------------------------------------------------
(* Properties.                                                            *)

TypeOK ==
  /\ context \in Contexts
  /\ firstbyte \in Nat
  /\ sjisbuf \in Seq(Nat)
  /\ used \in 0..RecvBufLen
  /\ todo \in Seq(Nat)
  /\ shown \in Seq(Nat) /\ want \in Seq(Nat)
  /\ kanji \in BOOLEAN /\ clean \in BOOLEAN
  /\ items \in 0..MaxItems

\* The array holds what a call converts, whatever the bytes and wherever the
\* pieces are cut: a call writes at most two bytes more than it reads (the 2 of its
\* declaration is "for ESC+?"), though a context from the call before may make
\* one byte read three bytes written, and ESC after half a kanji writes three.
SjisbufBound == Len(sjisbuf) <= used + 2

\* Text is converted the same however it is cut: what was written is what the
\* items mean, up to the item still on its way.
CutsDoNotMatter ==
  clean => /\ IsPrefix(shown \o sjisbuf, want)
           /\ todo = <<>> => shown \o sjisbuf = want
=============================================================================
