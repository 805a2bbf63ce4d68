----------------------------- MODULE FileFetch -----------------------------
(***************************************************************************)
(* What a file transfer promises, whatever carries it: the receiver stores *)
(* a block only after every block before it, and calls the transfer        *)
(* complete only when it has stored them all.  Blocks may be stored more   *)
(* than once; the promise is about which blocks are there.                 *)
(***************************************************************************)
EXTENDS Integers

CONSTANT NBlocks            \* blocks of the file, the short last one included

VARIABLES
  have,                     \* the set of blocks stored
  status                    \* "running", "complete" or "failed"

Statuses == {"running", "complete", "failed"}

FetchInit ==
  /\ have = {}
  /\ status = "running"

\* Block b is stored; with the last block the transfer is complete.
Store(b) ==
  /\ status = "running"
  /\ \A a \in 1..(b - 1) : a \in have
  /\ have' = have \cup {b}
  /\ status' = IF b = NBlocks THEN "complete" ELSE "running"

\* The transfer ends with what it has.
Fail ==
  /\ status = "running"
  /\ status' = "failed"
  /\ UNCHANGED have

FetchNext == (\E b \in 1..NBlocks : Store(b)) \/ Fail

FetchSpec == FetchInit /\ [][FetchNext]_<<have, status>>
=============================================================================
