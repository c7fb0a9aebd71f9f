------------------------------ MODULE DelayRing ------------------------------
(***************************************************************************)
(* The ring arithmetic of include/rvrbotron/dsp/DelayLine.h, as operators. *)
(*                                                                         *)
(* One Channel of a DelayLine owns `ring` consecutive storage cells,       *)
(* indexed 0 .. ring-1, and a position: the cell the next write goes to.   *)
(* A chunk of `frames` samples is a function on 0 .. frames-1, as in C.    *)
(*                                                                         *)
(* Lookbacks are non-negative here.  Every resolved configuration keeps    *)
(* them above the Interpolation margin (modulationFitsDelay), so the       *)
(* two's-complement wrap of a negative lookback (DelayLine.h:215) is never *)
(* taken and is not modelled.                                              *)
(***************************************************************************)
EXTENDS Integers

Minimum(a, b) == IF a <= b THEN a ELSE b

(* How many frames ago cell i was written, in a ring written at every      *)
(* frame: the cell behind the position was written last.                   *)
CellAge(ring, position, i) ==
  IF i < position THEN position - i ELSE position + ring - i

----------------------------------------------------------------------------
(* Writing *)

(* The cells and the position after one write().                           *)
WrittenCells(cells, position, value) == [cells EXCEPT ![position] = value]

NextPosition(ring, position) == (position + 1) % ring

(* writeBlock(): a chunk of at least `ring` frames keeps only its last     *)
(* `ring` samples, the first of which lands where the position ends up.    *)
BlockStart(ring, position, frames) ==
  IF frames >= ring THEN (position + frames) % ring ELSE position

KeptFrames(ring, frames) == Minimum(frames, ring)

(* Mutant: the second segment of a wrapped chunk starts over at its first  *)
(* sample.                                                                 *)
BlockCellsRestarted(ring, cells, position, values, frames) ==
  LET from  == BlockStart(ring, position, frames)
      kept  == KeptFrames(ring, frames)
      skip  == frames - kept
      first == Minimum(kept, ring - from)
  IN  [i \in 0 .. ring - 1 |->
         IF i >= from /\ i < from + first THEN values[skip + (i - from)]
         ELSE IF i < kept - first THEN values[skip + i]
         ELSE cells[i]]

BlockCells(ring, cells, position, values, frames) ==
  LET from  == BlockStart(ring, position, frames)
      kept  == KeptFrames(ring, frames)
      skip  == frames - kept
      first == Minimum(kept, ring - from)
  IN  [i \in 0 .. ring - 1 |->
         IF i >= from /\ i < from + first THEN values[skip + (i - from)]
         ELSE IF i < kept - first THEN values[skip + first + i]
         ELSE cells[i]]

(* Mutant: the position runs past the end of the ring.                     *)
BlockPositionUnwrapped(ring, position, frames) ==
  BlockStart(ring, position, frames) + KeptFrames(ring, frames)

BlockPosition(ring, position, frames) ==
  (BlockStart(ring, position, frames) + KeptFrames(ring, frames)) % ring

----------------------------------------------------------------------------
(* Reading at the fixed delay *)

ReadPosition(ring, position, delay) ==
  IF position >= delay THEN position - delay ELSE ring - (delay - position)

(* readBlock()'s cells: at most one wrap, so it is the caller's duty to    *)
(* ask for no more frames than the delay.                                  *)
ReadBlockCells(ring, position, delay, frames) ==
  LET from  == ReadPosition(ring, position, delay)
      first == Minimum(frames, ring - from)
  IN  [f \in 0 .. frames - 1 |-> IF f < first THEN from + f ELSE f - first]

ReadBlock(ring, cells, position, delay, frames) ==
  [f \in 0 .. frames - 1 |-> cells[ReadBlockCells(ring, position, delay, frames)[f]]]

(* delayBlock()'s output: the frames older than the chunk come from the    *)
(* ring, the rest straight from the input.                                 *)
DelayedBlock(ring, cells, position, delay, input, frames) ==
  LET fromRing == Minimum(frames, delay)
      old      == ReadBlock(ring, cells, position, delay, fromRing)
  IN  [f \in 0 .. frames - 1 |->
         IF f < fromRing THEN old[f] ELSE input[f - delay]]

----------------------------------------------------------------------------
(* Reading at a lookback.  `position` is already advanced by the frame     *)
(* offset, so it may run past the end of the ring.                         *)

Unwrapped(ring, at) == IF at >= ring THEN at - ring ELSE at

RingPosition(position, ring, lookback) ==
  IF lookback < ring
  THEN LET at == Unwrapped(ring, Unwrapped(ring, position + ring - lookback))
       IN  IF at >= ring THEN at % ring ELSE at
  ELSE (position + ring - (lookback % ring)) % ring

OlderPosition(at, ring) == IF at = 0 THEN ring - 1 ELSE at - 1

NewerPosition(at, ring) == IF at + 1 = ring THEN 0 ELSE at + 1

(* The cells at lookbacks base-1 .. base+2, newest first, for base >= 1:   *)
(* every resolved lookback exceeds the Interpolation margin, so the branch *)
(* for smaller bases (DelayLine.h:233) is never taken.                     *)
LagrangeCells(ring, position, base) ==
  LET at1 == RingPosition(position, ring, base)
      at2 == OlderPosition(at1, ring)
  IN  [j \in 0 .. 3 |-> IF j = 0 THEN NewerPosition(at1, ring)
                        ELSE IF j = 1 THEN at1
                        ELSE IF j = 2 THEN at2
                        ELSE OlderPosition(at2, ring)]

LagrangePoints(ring, cells, position, base) ==
  [j \in 0 .. 3 |-> cells[LagrangeCells(ring, position, base)[j]]]

(* The cells at lookbacks base and base+1.                                 *)
AdjacentCells(ring, position, base) ==
  LET at == RingPosition(position, ring, base)
  IN  [j \in 0 .. 1 |-> IF j = 0 THEN at ELSE OlderPosition(at, ring)]

AdjacentPoints(ring, cells, position, base) ==
  [j \in 0 .. 1 |-> cells[AdjacentCells(ring, position, base)[j]]]

=============================================================================
