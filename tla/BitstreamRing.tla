--------------------------- MODULE BitstreamRing ---------------------------
(***************************************************************************)
(* The ring buffer in which the host hands compressed video to the VPU     *)
(* (WriteBsBufFromBufHelper, VPU_DecGetBitstreamBuffer,                    *)
(* VPU_DecUpdateBitstreamBuffer).  Addresses are offsets from the start of *)
(* the buffer.  A ring is the part of an instance that the host keeps:     *)
(*   rd     - streamRdPtr, where the VPU was when the host last asked,     *)
(*   wr     - streamWrPtr, where the host writes next,                     *)
(*   stored - history: the bytes really kept between the two, which the    *)
(*            pointers alone cannot tell once the ring is exactly full.    *)
(***************************************************************************)
EXTENDS Integers

CONSTANTS RingSize,     \* vbStream.size
          Gbu,          \* VPU_GBU_SIZE, the unit in which the VPU reads
          Grain         \* 512: the room is told in multiples of it

ASSUME RingAssumption == /\ Gbu \in Nat \ {0}
                         /\ Grain \in Nat \ {0}
                         /\ RingSize \in Nat
                         /\ RingSize > 2 * Gbu + 1

Offsets == 0 .. RingSize - 1

EmptyRing == [rd |-> 0, wr |-> 0, stored |-> 0]

(* The offset n bytes further round the ring. *)
AfterUnwrapped(p, n) == p + n
After(p, n) == IF p + n >= RingSize THEN p + n - RingSize ELSE p + n

(* The bytes from one offset to another; none if they are equal. *)
Between(p, q) == IF p <= q THEN q - p ELSE RingSize - p + q

(* What the writer may use: everything up to the reader, less a margin. *)
Free(at, wr) == IF wr < at THEN at - wr ELSE RingSize - wr + at
SpareToTheBrim(at, wr) == Free(at, wr)
Spare(at, wr) == Free(at, wr) - 2 * Gbu - 1
RoundedDown(n) == n - (n % Grain)
Room(at, wr) == RoundedDown(Spare(at, wr))

(* The host looks where the VPU is: the bytes before that are done with. *)
ReadUpTo(r, at) == [r EXCEPT !.rd = at, !.stored = @ - Between(r.rd, at)]

(* VPU_DecUpdateBitstreamBuffer refuses to run over the reader. *)
Refuses(at, wr, size) == wr < at /\ at <= wr + size

(* One piece is written whole, the reader being at that offset. *)
Put(r, at, size) ==
  LET seen == ReadUpTo(r, at)
  IN [seen EXCEPT !.wr = After(r.wr, size), !.stored = @ + size]
============================================================================
