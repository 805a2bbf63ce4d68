-------------------------------- MODULE Md5 ---------------------------------
(***************************************************************************)
(* md5sum/md5.c: how the bytes of a message are put into blocks, however   *)
(* they come.  MD5Transform is not modelled: a context keeps the blocks it *)
(* was given, and a digest is the blocks it was made from.                 *)
(***************************************************************************)
EXTENDS Integers, Sequences

CONSTANTS
  BlockBytes,     \* bytes of a block (64)
  LengthBytes,    \* bytes of the length at the end of the last (8)
  WordMod         \* values of a word of the bit count (2^32)

ASSUME Md5Assumption ==
  /\ BlockBytes \in Nat \ {0} /\ LengthBytes \in 2 .. BlockBytes - 1 /\ LengthBytes % 2 = 0
  /\ WordMod \in Nat \ {0} /\ WordMod % (8 * BlockBytes) = 0

Data(v) == <<"data", v>>
Mark == <<"mark", 128>>
Zero == <<"zero", 0>>
Low(n) == <<"low", n>>
High(n) == <<"high", n>>

\* memcpy and memset into the block.
Copied(in, at, bytes) ==
  [k \in 1 .. BlockBytes |->
     IF k > at /\ k <= at + Len(bytes) THEN bytes[k - at] ELSE in[k]]
Zeros(n) == [k \in 1 .. n |-> Zero]

MD5Init ==
  [low |-> 0, high |-> 0, in |-> Zeros(BlockBytes), blocks |-> <<>>]

MD5Transform(ctx) == [ctx EXCEPT !.blocks = Append(@, ctx.in)]

\* The bit count, in two words, after len bytes more.
Counted(ctx, len) ==
  LET low == (ctx.low + 8 * len) % WordMod
  IN  [ctx EXCEPT !.low = low,
                  !.high = @ + (IF low < ctx.low THEN 1 ELSE 0) + (8 * len) \div WordMod]

\* Whole blocks are transformed where they are; what is left waits in the block.
WholeBlocks(ctx, bytes) ==
  LET n == Len(bytes) \div BlockBytes
      block(k) == SubSeq(bytes, (k - 1) * BlockBytes + 1, k * BlockBytes)
      last == IF n = 0 THEN ctx.in ELSE block(n)
  IN  [ctx EXCEPT !.blocks = @ \o [k \in 1 .. n |-> block(k)],
                  !.in = Copied(last, 0, SubSeq(bytes, n * BlockBytes + 1, Len(bytes)))]

\* Bytes that wait are filled up to a block first.
MD5Update(ctx, bytes) ==
  LET t == (ctx.low \div 8) % BlockBytes
      room == BlockBytes - t
      counted == Counted(ctx, Len(bytes))
      filled == [counted EXCEPT !.in = Copied(@, t, SubSeq(bytes, 1, room))]
  IN  IF t = 0 THEN WholeBlocks(counted, bytes)
      ELSE IF Len(bytes) < room THEN [counted EXCEPT !.in = Copied(@, t, bytes)]
      ELSE WholeBlocks(MD5Transform(filled), SubSeq(bytes, room + 1, Len(bytes)))

\* Slip: one byte of room less than the length needs is taken for enough.
NoRoomLate(room) == room < LengthBytes - 1
NoRoom(room) == room < LengthBytes

\* A mark, zeros as far as the length, and the length, in one block or in two.
MD5Final(ctx) ==
  LET t == (ctx.low \div 8) % BlockBytes
      room == BlockBytes - 1 - t
      marked == [ctx EXCEPT !.in = Copied(@, t, <<Mark>>)]
      padded ==
        IF NoRoom(room)
        THEN [MD5Transform([marked EXCEPT !.in = Copied(@, t + 1, Zeros(room))])
                EXCEPT !.in = Copied(@, 0, Zeros(BlockBytes - LengthBytes))]
        ELSE [marked EXCEPT !.in = Copied(@, t + 1, Zeros(room - LengthBytes))]
      half == LengthBytes \div 2
      words == [k \in 1 .. LengthBytes |->
                  IF k <= half THEN Low(ctx.low) ELSE High(ctx.high)]
  IN  MD5Transform([padded EXCEPT !.in = Copied(@, BlockBytes - LengthBytes, words)]).blocks

---------------------------------------------------------------------------
\* What the blocks of a message are, whatever its length.
Blocks(message) ==
  LET n == Len(message)
      total == ((n + 1 + LengthBytes + BlockBytes - 1) \div BlockBytes) * BlockBytes
      byte(k) == IF k <= n THEN message[k]
                 ELSE IF k = n + 1 THEN Mark
                 ELSE IF k <= total - LengthBytes THEN Zero
                 ELSE IF k <= total - LengthBytes \div 2 THEN Low((8 * n) % WordMod)
                 ELSE High((8 * n) \div WordMod)
  IN  [b \in 1 .. total \div BlockBytes |->
         [k \in 1 .. BlockBytes |-> byte((b - 1) * BlockBytes + k)]]
=============================================================================
