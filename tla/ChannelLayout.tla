----------------------------- MODULE ChannelLayout -----------------------------
(***************************************************************************)
(* The unsigned arithmetic with which configuration resolution lays out    *)
(* the delays of a stage's Channels (src/config/ResolveConfig.cpp), on     *)
(* words of WordSize values: 2^64 in the code.  Only the two checked       *)
(* operations refuse to wrap.                                              *)
(***************************************************************************)
EXTENDS Integers

CONSTANT WordSize

ASSUME WordSizeAssumption == WordSize \in Nat /\ WordSize > 4

Word == 0 .. WordSize - 1

Wrap(n) == n % WordSize

----------------------------------------------------------------------------
(* std::optional<std::uint64_t> without a value.                           *)
Overflow == -1

(* Mutant: the product wraps instead of being refused.                     *)
WrappedMul(a, b) ==
  IF Overflow \in {a, b} THEN Overflow ELSE Wrap(a * b)

CheckedMul(a, b) ==
  IF \/ Overflow \in {a, b}
     \/ a # 0 /\ b > (WordSize - 1) \div a
  THEN Overflow ELSE a * b

CheckedAdd(a, b) ==
  IF Overflow \in {a, b} \/ a > WordSize - 1 - b THEN Overflow ELSE a + b

----------------------------------------------------------------------------
(* Mutant: the positions left over by the division are dropped.            *)
TruncatedBoundary(positions, channels, index) ==
  Wrap((positions \div channels) * index)

(* The first of the positions that segment `index` of `channels` segments  *)
(* holds.                                                                  *)
PartitionBoundary(positions, channels, index) ==
  Wrap(Wrap((positions \div channels) * index)
         + Wrap(index * (positions % channels)) \div channels)

(* Channel 0 at position 0, the last Channel at the last position.         *)
EvenDelay(lastPosition, channels, channel) ==
  IF channels = 1 THEN 0
  ELSE Wrap(Wrap((lastPosition \div (channels - 1)) * channel)
              + Wrap((lastPosition % (channels - 1)) * channel) \div (channels - 1))

(* Mutant: nothing is rejected.                                            *)
NoThreshold(bound) == 0

(* boundedRandom rejects what lies below (0 - bound) % bound ...           *)
Threshold(bound) == Wrap(0 - bound) % bound

(* ... so that these raw draws remain.                                     *)
RawDraws(bound) == Threshold(bound) .. WordSize - 1

(* Mutant: the bound itself may be drawn.                                  *)
DrawsInclusive(bound) == {raw % (bound + 1) : raw \in RawDraws(bound)}

(* What boundedRandom may return.                                          *)
Draws(bound) == {raw % bound : raw \in RawDraws(bound)}

(* One step of the Fisher-Yates shuffle: std::swap.                        *)
Swapped(permutation, i, j) ==
  [permutation EXCEPT ![i] = permutation[j], ![j] = permutation[i]]

=============================================================================
