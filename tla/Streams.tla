------------------------------ MODULE Streams ------------------------------
(***************************************************************************)
(* Streams of bytes, blocks and keys: what the properties of the programs  *)
(* say about them.                                                         *)
(***************************************************************************)
EXTENDS Integers, Sequences, FiniteSets

\* What is left of s without its first k bytes.
Rest(s, k) == SubSeq(s, k + 1, Len(s))

\* How many of the first n of s are in S.
CountIn(s, S, n) == Cardinality({i \in 1..n : s[i] \in S})

\* t is what is left of s when everything outside S is taken out.
IsSelection(t, s, S) ==
  /\ Len(t) = CountIn(s, S, Len(s))
  /\ \A i \in 1..Len(s) : s[i] \in S => t[CountIn(s, S, i)] = s[i]
=============================================================================
