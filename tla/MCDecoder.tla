----------------------------- MODULE MCDecoder -----------------------------
EXTENDS VpuDecoder, TLC

(* A piece of less than a unit, a picture header with its chunk, and a chunk
   that is larger than the whole ring. *)
AnyPackets == {<<1>>, <<1, 2>>, <<RingSize + 1>>}
OnePacket == {<<1>>}
AnySlot == Permutations(Instances)
============================================================================
