--------------------------- MODULE DelayRing_proofs ---------------------------
(***************************************************************************)
(* Lemmas about the ring arithmetic of DelayRing, for every ring length,   *)
(* position, delay, lookback and chunk.  Each relates a cell to its age,   *)
(* the number of frames since it was written.                              *)
(***************************************************************************)
EXTENDS DelayRing, TLAPS

LEMMA ModBelow ==
  ASSUME NEW r \in Nat \ {0}, NEW x \in Nat, x < r
  PROVE  x % r = x
  BY SMT

LEMMA ModAbove ==
  ASSUME NEW r \in Nat \ {0}, NEW x \in Nat, r <= x, x < r + r
  PROVE  x % r = x - r
  BY SMT

LEMMA ModRange ==
  ASSUME NEW r \in Nat \ {0}, NEW x \in Nat
  PROVE  x % r \in 0 .. r - 1
  BY SMT

(* A cell's age is between one frame and the length of the ring.           *)
LEMMA CellAgeRange ==
  ASSUME NEW ring \in Nat \ {0}, NEW position \in 0 .. ring - 1,
         NEW i \in 0 .. ring - 1
  PROVE  CellAge(ring, position, i) \in 1 .. ring
  BY SMT DEF CellAge

(* write() moves the position to the next cell, around the end.            *)
LEMMA NextPositionValue ==
  ASSUME NEW ring \in Nat \ {0}, NEW position \in 0 .. ring - 1
  PROVE  NextPosition(ring, position) =
           IF position + 1 = ring THEN 0 ELSE position + 1
  <1>1. CASE position + 1 = ring
    <2>1. position + 1 \in Nat /\ ring <= position + 1 /\ position + 1 < ring + ring
      BY <1>1
    <2> QED
      BY <1>1, <2>1, ModAbove DEF NextPosition
  <1>2. CASE position + 1 # ring
    <2>1. position + 1 \in Nat /\ position + 1 < ring
      BY <1>2
    <2> QED
      BY <1>2, <2>1, ModBelow DEF NextPosition
  <1> QED
    BY <1>1, <1>2

(* After write() the written cell is one frame old, the others one older.  *)
LEMMA WriteAges ==
  ASSUME NEW ring \in Nat \ {0}, NEW position \in 0 .. ring - 1,
         NEW i \in 0 .. ring - 1
  PROVE  /\ NextPosition(ring, position) \in 0 .. ring - 1
         /\ i = position => CellAge(ring, NextPosition(ring, position), i) = 1
         /\ i # position =>
              CellAge(ring, NextPosition(ring, position), i) =
                CellAge(ring, position, i) + 1
  BY NextPositionValue, SMT DEF CellAge

(* Where writeBlock() starts and ends is a cell of the ring.               *)
LEMMA BlockPositionValue ==
  ASSUME NEW ring \in Nat \ {0}, NEW position \in 0 .. ring - 1, NEW frames \in Nat
  PROVE  LET from == BlockStart(ring, position, frames)
             kept == KeptFrames(ring, frames)
         IN  /\ from \in 0 .. ring - 1
             /\ kept \in 0 .. ring
             /\ BlockPosition(ring, position, frames) =
                  IF from + kept < ring THEN from + kept ELSE from + kept - ring
             /\ BlockPosition(ring, position, frames) \in 0 .. ring - 1
  <1> DEFINE from == BlockStart(ring, position, frames)
             kept == KeptFrames(ring, frames)
  <1>1. from \in 0 .. ring - 1
    BY ModRange, SMT DEF BlockStart
  <1>2. kept \in 0 .. ring
    BY SMT DEF KeptFrames, Minimum
  <1>3. BlockPosition(ring, position, frames) = (from + kept) % ring
    BY DEF BlockPosition
  <1> HIDE DEF from, kept
  <1>4. CASE from + kept < ring
    <2>1. from + kept \in Nat /\ from + kept < ring
      BY <1>1, <1>2, <1>4
    <2>2. (from + kept) % ring = from + kept
      BY <2>1, ModBelow
    <2> QED
      BY <1>1, <1>2, <1>3, <1>4, <2>1, <2>2 DEF from, kept
  <1>5. CASE ~(from + kept < ring)
    <2>1. from + kept \in Nat /\ ring <= from + kept /\ from + kept < ring + ring
      BY <1>1, <1>2, <1>5
    <2>2. (from + kept) % ring = from + kept - ring
      BY <1>1, <1>2, <2>1, SMT
    <2> QED
      BY <1>1, <1>2, <1>3, <1>5, <2>1, <2>2 DEF from, kept
  <1> QED
    BY <1>4, <1>5

(* After writeBlock() the cells at most `frames` old hold the chunk, by    *)
(* age; every other cell is untouched and `frames` frames older.           *)
LEMMA BlockWriteAges ==
  ASSUME NEW ring \in Nat \ {0}, NEW position \in 0 .. ring - 1, NEW frames \in Nat,
         NEW cells, NEW values, NEW i \in 0 .. ring - 1
  PROVE  LET age == CellAge(ring, BlockPosition(ring, position, frames), i)
             new == BlockCells(ring, cells, position, values, frames)
         IN  IF age <= frames
             THEN new[i] = values[frames - age]
             ELSE /\ new[i] = cells[i]
                  /\ age = CellAge(ring, position, i) + frames
  <1> DEFINE from == BlockStart(ring, position, frames)
             kept == KeptFrames(ring, frames)
             skip == frames - kept
             first == Minimum(kept, ring - from)
             to == BlockPosition(ring, position, frames)
             age == CellAge(ring, to, i)
             new == BlockCells(ring, cells, position, values, frames)
  <1>1. /\ from \in 0 .. ring - 1
        /\ kept \in 0 .. ring
        /\ to = IF from + kept < ring THEN from + kept ELSE from + kept - ring
    BY BlockPositionValue
  <1>2. kept = IF frames <= ring THEN frames ELSE ring
    BY DEF KeptFrames, Minimum
  <1>3. frames < ring => from = position
    BY DEF BlockStart
  <1>4. first = IF kept <= ring - from THEN kept ELSE ring - from
    BY DEF Minimum
  <1>5. new[i] = IF i >= from /\ i < from + first THEN values[skip + (i - from)]
                 ELSE IF i < kept - first THEN values[skip + first + i]
                 ELSE cells[i]
    BY DEF BlockCells
  <1>6. age = IF i < to THEN to - i ELSE to + ring - i
    BY DEF CellAge
  <1>6a. age \in Nat
    BY <1>1, <1>6
  <1>7. CellAge(ring, position, i) =
          IF i < position THEN position - i ELSE position + ring - i
    BY DEF CellAge
  <1> HIDE DEF from, kept, first, to, age, new
  <1>8. CASE i >= from /\ i < from + first
    <2>1. frames - age = skip + (i - from) /\ age <= frames
      BY <1>1, <1>2, <1>4, <1>6, <1>8
    <2>2. new[i] = values[skip + (i - from)]
      BY <1>5, <1>8
    <2> QED
      BY <2>1, <2>2 DEF age, new, to
  <1>9. CASE ~(i >= from /\ i < from + first) /\ i < kept - first
    <2>1. frames - age = skip + first + i /\ age <= frames
      BY <1>1, <1>2, <1>4, <1>6, <1>9
    <2>2. new[i] = values[skip + first + i]
      BY <1>5, <1>9
    <2> QED
      BY <2>1, <2>2 DEF age, new, to
  <1>10. CASE ~(i >= from /\ i < from + first) /\ ~(i < kept - first)
    <2>1. new[i] = cells[i]
      BY <1>5, <1>10
    <2>2. frames < ring
      BY <1>1, <1>2, <1>4, <1>10
    <2>3. age = CellAge(ring, position, i) + frames /\ age > frames
      BY <1>1, <1>2, <1>3, <1>4, <1>6, <1>7, <1>10, <2>2
    <2> QED
      BY <2>1, <2>3, <1>6a DEF age, new, to
  <1> QED
    BY <1>8, <1>9, <1>10

(* The same with the ring after the block and the cell's age given names.  *)
LEMMA BlockWriteShows ==
  ASSUME NEW ring \in Nat \ {0}, NEW position \in 0 .. ring - 1, NEW frames \in Nat,
         NEW cells, NEW values, NEW i \in 0 .. ring - 1, NEW new, NEW age \in Int,
         new = BlockCells(ring, cells, position, values, frames),
         age = CellAge(ring, BlockPosition(ring, position, frames), i)
  PROVE  IF age <= frames
         THEN new[i] = values[frames - age]
         ELSE new[i] = cells[i] /\ age = CellAge(ring, position, i) + frames
  BY BlockWriteAges

(* A lookback into the ring, `offset` frames ahead of the writes, finds    *)
(* the cell of that age less the offset.                                   *)
LEMMA RingPositionAge ==
  ASSUME NEW ring \in Nat \ {0}, NEW position \in 0 .. ring - 1,
         NEW offset \in Nat, NEW lookback \in Nat,
         offset < lookback, lookback <= ring
  PROVE  LET at == RingPosition(position + offset, ring, lookback)
         IN  /\ at \in 0 .. ring - 1
             /\ CellAge(ring, position, at) = lookback - offset
  <1>1. CASE lookback < ring
    BY <1>1, SMT DEF RingPosition, Unwrapped, CellAge
  <1>2. CASE lookback = ring
    <2>1. lookback % ring = 0
      <3>1. ring < ring + ring /\ ring - ring = 0
        OBVIOUS
      <3> QED
        BY <1>2, <3>1, ModAbove
    <2>2. RingPosition(position + offset, ring, lookback) =
            (position + offset + ring) % ring
      BY <1>2, <2>1 DEF RingPosition
    <2>3. (position + offset + ring) % ring =
            IF position + offset < ring THEN position + offset
                                        ELSE position + offset - ring
      BY <1>2, SMT
    <2> QED
      BY <1>2, <2>2, <2>3 DEF CellAge
  <1> QED
    BY <1>1, <1>2

LEMMA OlderPositionAge ==
  ASSUME NEW ring \in Nat \ {0}, NEW position \in 0 .. ring - 1,
         NEW at \in 0 .. ring - 1, CellAge(ring, position, at) < ring
  PROVE  /\ OlderPosition(at, ring) \in 0 .. ring - 1
         /\ CellAge(ring, position, OlderPosition(at, ring)) =
              CellAge(ring, position, at) + 1
  BY SMT DEF CellAge, OlderPosition

LEMMA NewerPositionAge ==
  ASSUME NEW ring \in Nat \ {0}, NEW position \in 0 .. ring - 1,
         NEW at \in 0 .. ring - 1, CellAge(ring, position, at) > 1
  PROVE  /\ NewerPosition(at, ring) \in 0 .. ring - 1
         /\ CellAge(ring, position, NewerPosition(at, ring)) =
              CellAge(ring, position, at) - 1
  BY SMT DEF CellAge, NewerPosition

(* The four points of a cubic read are those base-1 .. base+2 frames old,  *)
(* provided the newest is already written and the oldest not overwritten.  *)
LEMMA LagrangeCellsAge ==
  ASSUME NEW ring \in Nat \ {0}, NEW position \in 0 .. ring - 1,
         NEW offset \in Nat, NEW base \in Nat,
         offset < base - 1, base + 2 <= ring
  PROVE  \A j \in 0 .. 3 :
           LET x == LagrangeCells(ring, position + offset, base)[j]
           IN  /\ x \in 0 .. ring - 1
               /\ CellAge(ring, position, x) = base - 1 + j - offset
  <1> DEFINE at1 == RingPosition(position + offset, ring, base)
             at2 == OlderPosition(at1, ring)
             at0 == NewerPosition(at1, ring)
             at3 == OlderPosition(at2, ring)
  <1>1. at1 \in 0 .. ring - 1 /\ CellAge(ring, position, at1) = base - offset
    <2>1. offset < base /\ base <= ring
      OBVIOUS
    <2> QED
      BY <2>1, RingPositionAge
  <1> TAKE j \in 0 .. 3
  <1>2. LagrangeCells(ring, position + offset, base)[j] =
          IF j = 0 THEN at0 ELSE IF j = 1 THEN at1 ELSE IF j = 2 THEN at2 ELSE at3
    BY DEF LagrangeCells
  <1> HIDE DEF at1
  <1>3. at2 \in 0 .. ring - 1 /\ CellAge(ring, position, at2) = base - offset + 1
    BY <1>1, OlderPositionAge
  <1>4. at0 \in 0 .. ring - 1 /\ CellAge(ring, position, at0) = base - offset - 1
    BY <1>1, NewerPositionAge
  <1> HIDE DEF at0, at2
  <1>5. at3 \in 0 .. ring - 1 /\ CellAge(ring, position, at3) = base - offset + 2
    BY <1>3, OlderPositionAge
  <1> HIDE DEF at3
  <1>6. j = 0 \/ j = 1 \/ j = 2 \/ j = 3
    OBVIOUS
  <1> QED
    BY <1>1, <1>2, <1>3, <1>4, <1>5, <1>6

(* The two points of a linear or allpass read.                             *)
LEMMA AdjacentCellsAge ==
  ASSUME NEW ring \in Nat \ {0}, NEW position \in 0 .. ring - 1,
         NEW offset \in Nat, NEW base \in Nat,
         offset < base, base + 1 <= ring
  PROVE  \A j \in 0 .. 1 :
           LET x == AdjacentCells(ring, position + offset, base)[j]
           IN  /\ x \in 0 .. ring - 1
               /\ CellAge(ring, position, x) = base + j - offset
  <1> DEFINE at == RingPosition(position + offset, ring, base)
  <1>1. at \in 0 .. ring - 1 /\ CellAge(ring, position, at) = base - offset
    <2>1. base <= ring
      OBVIOUS
    <2> QED
      BY <2>1, RingPositionAge
  <1> TAKE j \in 0 .. 1
  <1>2. AdjacentCells(ring, position + offset, base)[j] =
          IF j = 0 THEN at ELSE OlderPosition(at, ring)
    BY DEF AdjacentCells
  <1> HIDE DEF at
  <1>3. /\ OlderPosition(at, ring) \in 0 .. ring - 1
        /\ CellAge(ring, position, OlderPosition(at, ring)) = base - offset + 1
    BY <1>1, OlderPositionAge
  <1>4. j = 0 \/ j = 1
    OBVIOUS
  <1> QED
    BY <1>1, <1>2, <1>3, <1>4

(* read() finds the cell exactly `delay` frames old.                       *)
LEMMA ReadPositionAge ==
  ASSUME NEW ring \in Nat \ {0}, NEW position \in 0 .. ring - 1,
         NEW delay \in 1 .. ring
  PROVE  /\ ReadPosition(ring, position, delay) \in 0 .. ring - 1
         /\ CellAge(ring, position, ReadPosition(ring, position, delay)) = delay
  BY SMT DEF ReadPosition, CellAge

(* Frame f of readBlock() is the cell read() would find f frames later,    *)
(* as long as the chunk is no longer than the delay.                       *)
LEMMA ReadBlockCellsAge ==
  ASSUME NEW ring \in Nat \ {0}, NEW position \in 0 .. ring - 1,
         NEW delay \in 1 .. ring, NEW frames \in 0 .. delay,
         NEW f \in 0 .. frames - 1
  PROVE  LET x == ReadBlockCells(ring, position, delay, frames)[f]
         IN  /\ x \in 0 .. ring - 1
             /\ CellAge(ring, position, x) = delay - f
  <1> DEFINE from == ReadPosition(ring, position, delay)
             first == Minimum(frames, ring - from)
             x == IF f < first THEN from + f ELSE f - first
  <1>1. from = IF position >= delay THEN position - delay ELSE ring - (delay - position)
    BY DEF ReadPosition
  <1>2. first = IF frames <= ring - from THEN frames ELSE ring - from
    BY DEF Minimum
  <1>3. ReadBlockCells(ring, position, delay, frames)[f] = x
    BY DEF ReadBlockCells
  <1> HIDE DEF from, first
  <1>4. x \in 0 .. ring - 1 /\ CellAge(ring, position, x) = delay - f
    BY <1>1, <1>2 DEF CellAge
  <1> QED
    BY <1>3, <1>4

=============================================================================
