------------------------------ MODULE DelayLine ------------------------------
(***************************************************************************)
(* One Channel of include/rvrbotron/dsp/DelayLine.h under every call       *)
(* sequence its users make: read-then-write per frame (the Pre-delay and   *)
(* modulated Diffusion Steps), delayBlock() (fixed Diffusion Steps),       *)
(* readBlock() then writeBlock() and readFractionBlock() then writeBlock() *)
(* (the Feedback Loop).                                                    *)
(*                                                                         *)
(* The line's geometry is chosen in Init and never changes.  `written` is  *)
(* a history variable: every sample ever written.  `heard` holds what the  *)
(* last operation read, by absolute frame number.                          *)
(***************************************************************************)
EXTENDS DelayRing

CONSTANTS
  Sample,      (* The samples that may be written.                          *)
  Zero,        (* The silence every cell starts with.                       *)
  Lines,       (* The geometries: [delay, ring, interpolation, bases].      *)
  MaxChunk,    (* The longest chunk (kMaxChunkFrames).                      *)
  MaxFrames    (* Bound of the model: frames processed altogether.          *)

(* DelayLine's constructor refuses a buffer shorter than the delay; a line *)
(* with delay 0 is never read or written by its users.  The lookbacks of a *)
(* swaying line stay within its headroom.                                  *)
IsLine(l) ==
  /\ l = [delay |-> l.delay, ring |-> l.ring,
          interpolation |-> l.interpolation, bases |-> l.bases]
  /\ l.delay \in Nat \ {0}
  /\ l.ring \in Nat
  /\ l.ring >= l.delay
  /\ l.interpolation \in {"fixed", "adjacent", "lagrange3"}
  /\ l.interpolation # "fixed" =>
       \A base \in l.bases : base \in Nat /\ base >= 2 /\ base + 2 <= l.ring

ASSUME DelayLineAssumption ==
  /\ Zero \in Sample
  /\ MaxChunk \in Nat \ {0}
  /\ MaxFrames \in Nat
  /\ \A l \in Lines : IsLine(l)

VARIABLES line, cells, position, now, written, heard

vars == <<line, cells, position, now, written, heard>>

Ring == 0 .. line.ring - 1

(* The sample written at frame n; before the first frame, silence.         *)
Past(n) == IF n >= 0 THEN written[n] ELSE Zero

----------------------------------------------------------------------------
(* Mutant: a chunk's fractional reads forget the frames due before them.  *)
PointsWithoutOffset(base, offset) ==
  IF line.interpolation = "lagrange3"
  THEN LagrangePoints(line.ring, cells, position, base)
  ELSE AdjacentPoints(line.ring, cells, position, base)

----------------------------------------------------------------------------
Init ==
  /\ line \in Lines
  /\ cells = [i \in Ring |-> Zero]
  /\ position = 0
  /\ now = 0
  /\ written = [n \in {} |-> Zero]
  /\ heard = [n \in {} |-> Zero]

BlockWrite(frames, input) ==
  /\ cells' = BlockCells(line.ring, cells, position, input, frames)
  /\ position' = BlockPosition(line.ring, position, frames)

FrameWrite(value) ==
  /\ cells' = WrittenCells(cells, position, value)
  /\ position' = NextPosition(line.ring, position)

(* Bookkeeping of one operation: it wrote input[f] at frame now + f and    *)
(* read read[f] there, whose first point has lookback newest[f].           *)
Record(frames, input, newest, read) ==
  /\ now + frames <= MaxFrames
  /\ now' = now + frames
  /\ written' = [n \in 0 .. now + frames - 1 |->
                   IF n < now THEN written[n] ELSE input[n - now]]
  /\ heard' = [n \in now .. now + frames - 1 |->
                 [newest |-> newest[n - now], points |-> read[n - now]]]
  /\ UNCHANGED line

AsPoint(sample) == [j \in 0 .. 0 |-> sample]

FixedNewest(frames) == [f \in 0 .. frames - 1 |-> line.delay]

(* read() then write(), one frame.                                         *)
ReadThenWrite(value) ==
  /\ line.interpolation = "fixed"
  /\ FrameWrite(value)
  /\ Record(1, [f \in 0 .. 0 |-> value], FixedNewest(1),
            [f \in 0 .. 0 |-> AsPoint(cells[ReadPosition(line.ring, position, line.delay)])])

Delayed(frames, input) ==
  DelayedBlock(line.ring, cells, position, line.delay, input, frames)

(* delayBlock(), for chunks shorter or longer than the delay and the ring. *)
DelayBlock(frames, input) ==
  /\ line.interpolation = "fixed"
  /\ BlockWrite(frames, input)
  /\ Record(frames, input, FixedNewest(frames),
            [f \in 0 .. frames - 1 |-> AsPoint(Delayed(frames, input)[f])])

(* readBlock() of a whole chunk, then writeBlock(): exact for frames <=    *)
(* delay, as the declaration of readBlock() demands.                       *)
ReadBlockThenWrite(frames, input) ==
  /\ line.interpolation = "fixed"
  /\ frames <= line.delay
  /\ BlockWrite(frames, input)
  /\ Record(frames, input, FixedNewest(frames),
            [f \in 0 .. frames - 1 |->
               AsPoint(ReadBlock(line.ring, cells, position, line.delay, frames)[f])])

(* The points of one fractional read, as if `offset` more frames had been  *)
(* written, and the lookback of the first of them.                         *)
Points(base, offset) ==
  IF line.interpolation = "lagrange3"
  THEN LagrangePoints(line.ring, cells, position + offset, base)
  ELSE AdjacentPoints(line.ring, cells, position + offset, base)

NewestLookback(base) == IF line.interpolation = "lagrange3" THEN base - 1 ELSE base

(* readFraction...() then write(), one frame of a modulated Diffusion Step.*)
SwayThenWrite(value, base) ==
  /\ line.interpolation # "fixed"
  /\ FrameWrite(value)
  /\ Record(1, [f \in 0 .. 0 |-> value], [f \in 0 .. 0 |-> NewestLookback(base)],
            [f \in 0 .. 0 |-> Points(base, 0)])

(* The fractional reads of a whole chunk, then writeBlock(): exact while   *)
(* every sample read is already in the ring.                               *)
SwayBlockThenWrite(frames, input, bases) ==
  /\ line.interpolation # "fixed"
  /\ \A f \in 0 .. frames - 1 : f < NewestLookback(bases[f])
  /\ BlockWrite(frames, input)
  /\ Record(frames, input, [f \in 0 .. frames - 1 |-> NewestLookback(bases[f])],
            [f \in 0 .. frames - 1 |-> Points(bases[f], f)])

Next ==
  \/ \E value \in Sample : ReadThenWrite(value)
  \/ \E value \in Sample, base \in line.bases : SwayThenWrite(value, base)
  \/ \E frames \in 1 .. MaxChunk : \E input \in [0 .. frames - 1 -> Sample] :
       \/ DelayBlock(frames, input)
       \/ ReadBlockThenWrite(frames, input)
       \/ \E bases \in [0 .. frames - 1 -> line.bases] :
            SwayBlockThenWrite(frames, input, bases)

Spec == Init /\ [][Next]_vars

----------------------------------------------------------------------------
(* Properties *)

(* The line's state has its types: the position is a cell of the ring and  *)
(* the histories have the lengths the frame count says.                    *)
TypeOK ==
  /\ line \in Lines
  /\ cells \in [Ring -> Sample]
  /\ position \in Ring
  /\ now \in Nat
  /\ written \in [0 .. now - 1 -> Sample]
  /\ DOMAIN heard \subseteq 0 .. now - 1

(* The ring always holds exactly the last `ring` samples written, each at  *)
(* the cell its age says, whatever mix of write(), writeBlock() and        *)
(* over-long chunks put them there.                                        *)
RingHoldsHistory == \A i \in Ring : cells[i] = Past(now - CellAge(line.ring, position, i))

(* Every read is exact: frame n heard the samples written newest, newest+1,*)
(* ... frames before n, as if the line had been run frame by frame -- for  *)
(* chunks longer than the delay, chunks longer than the ring and           *)
(* fractional reads ahead of the writes alike (ADR-0008).                  *)
HeardExact ==
  \A n \in DOMAIN heard : \A j \in DOMAIN heard[n].points :
    heard[n].points[j] = Past(n - (heard[n].newest + j))

=============================================================================
