-------------------------- MODULE FeedbackLoop_proofs --------------------------
(***************************************************************************)
(* Proofs about FeedbackLoop, for every configuration that satisfies       *)
(* FeedbackConfigAssumption, every arithmetic of samples and every way of  *)
(* cutting the frames into calls and chunks.                               *)
(***************************************************************************)
EXTENDS FeedbackLoop, DelayRing_proofs

Inv == TypeOK /\ RingsHoldHistory /\ ChunkInFlight

----------------------------------------------------------------------------
(* The configuration *)

LEMMA BufferFacts ==
  ASSUME NEW c \in Channels
  PROVE  /\ BufferSize(c) \in Nat \ {0}
         /\ Delay[c] \in 1 .. BufferSize(c)
  BY FeedbackConfigAssumption DEF BufferSize, InterpolationMargin

(* The Block-size bound is at most every Channel's shortest lookback.      *)
LEMMA BoundBelowLookbacks ==
  /\ BlockSizeBound \in Int
  /\ \A c \in Channels : ShortestLookback(c) \in Int /\ BlockSizeBound <= ShortestLookback(c)
  <1> DEFINE Least(b) == \A c \in Channels : b <= ShortestLookback(c)
             lookbacks == {ShortestLookback(c) : c \in Channels}
  <1>1. ASSUME NEW c \in Channels
        PROVE  ShortestLookback(c) \in Int
    <2>1. Delay[c] \in Nat /\ ExcursionCeil \in Nat
      BY FeedbackConfigAssumption
    <2> QED
      BY <2>1 DEF ShortestLookback
  <1>2. \E b \in lookbacks : Least(b)
    <2>1. PICK c \in Channels : \A d \in Channels : ShortestLookback(c) <= ShortestLookback(d)
      BY FeedbackConfigAssumption
    <2> WITNESS ShortestLookback(c) \in lookbacks
    <2> QED
      BY <2>1
  <1>3. BlockSizeBound \in lookbacks /\ Least(BlockSizeBound)
    <2>1. BlockSizeBound = CHOOSE b \in lookbacks : Least(b)
      BY DEF BlockSizeBound
    <2> HIDE DEF Least, lookbacks
    <2> QED
      BY <1>2, <2>1
  <1> QED
    BY <1>1, <1>3

LEMMA ChunkFramesFacts ==
  /\ ChunkFrames \in Nat \ {0}
  /\ ChunkFrames = 1 \/ ChunkFrames <= BlockSizeBound - 1
  BY FeedbackConfigAssumption, BoundBelowLookbacks DEF ChunkFrames

(* What keeping a chunk below the bound buys: no fixed tap is shorter than *)
(* the chunk, ...                                                          *)
LEMMA FixedReach ==
  ASSUME NEW c \in Channels, c \notin Modulated
  PROVE  ChunkFrames <= Delay[c]
  <1>1. Delay[c] \in Nat \ {0} /\ ShortestLookback(c) = Delay[c]
    BY FeedbackConfigAssumption DEF ShortestLookback
  <1>2. BlockSizeBound \in Int /\ BlockSizeBound <= Delay[c]
    BY <1>1, BoundBelowLookbacks
  <1> QED
    BY <1>1, <1>2, ChunkFramesFacts

(* ... and every swaying tap stays between the chunk and the ring's end.   *)
LEMMA SwayingReach ==
  ASSUME NEW c \in Modulated, NEW t \in Trajectories, NEW n \in 0 .. MaxFrames - 1,
         NEW f \in 0 .. ChunkFrames - 1
  PROVE  /\ t[c][n] \in Nat
         /\ f < t[c][n] - 1
         /\ t[c][n] + 2 <= BufferSize(c)
  <1>1. c \in Channels /\ t[c][n] \in ShortestLookback(c) .. LongestLookback(c)
    BY FeedbackConfigAssumption
  <1>2. /\ ShortestLookback(c) = Delay[c] - ExcursionCeil
        /\ LongestLookback(c) = Delay[c] + ExcursionFloor
        /\ BufferSize(c) = Delay[c] + ExcursionCeil + 3
    BY <1>1 DEF ShortestLookback, LongestLookback, BufferSize, InterpolationMargin
  <1>3. /\ Delay[c] \in Nat /\ ExcursionFloor \in Nat /\ ExcursionCeil \in Nat
        /\ ExcursionFloor <= ExcursionCeil /\ ExcursionCeil <= ExcursionFloor + 1
        /\ Delay[c] - ExcursionFloor > 3
    BY <1>1, FeedbackConfigAssumption DEF InterpolationMargin
  <1>4. BlockSizeBound \in Int /\ BlockSizeBound <= ShortestLookback(c)
    BY <1>1, BoundBelowLookbacks
  <1>5. PICK base \in Int : base = t[c][n]
    BY <1>1, <1>2, <1>3
  <1>6. ShortestLookback(c) <= base /\ base <= LongestLookback(c)
    BY <1>1, <1>2, <1>3, <1>5
  <1>7. base \in Nat /\ f < base - 1 /\ base + 2 <= BufferSize(c)
    BY <1>2, <1>3, <1>4, <1>6, ChunkFramesFacts
  <1> QED
    BY <1>5, <1>7

----------------------------------------------------------------------------
(* The instance of the network sees the same configuration.                *)
LEMMA NetworkConfig ==
  ASSUME NEW c \in Channels, NEW base
  PROVE  /\ Network!TapCount(c) = TapCount(c)
         /\ Network!NewestLookback(c, base) = NewestLookback(c, base)
         /\ \A x, v : Network!Fed(c, x, v) = Fed(c, x, v)
  BY DEF Network!TapCount, TapCount, Network!NewestLookback, NewestLookback,
         Network!Fed, Fed

(* What a Channel's ring shows at a cell of a given age.                   *)
LEMMA CellShows ==
  ASSUME RingsHoldHistory, NEW c \in Channels, NEW x \in 0 .. BufferSize(c) - 1
  PROVE  cells[c][x] = Network!Past(c, played - CellAge(BufferSize(c), position[c], x))
  BY DEF RingsHoldHistory, Ring

LEMMA LineFacts ==
  ASSUME TypeOK, NEW c \in Channels
  PROVE  /\ position[c] \in 0 .. BufferSize(c) - 1
         /\ played \in Nat
  BY DEF TypeOK, Ring

(* A frame index within the chunk about to be read is one the Modulation   *)
(* has a lookback for.                                                     *)
LEMMA FrameIndexInChunk ==
  ASSUME TypeOK, phase = "chunk", NEW n \in Nat, n <= frameCount - start,
         NEW f \in 0 .. n - 1, Modulated # {}
  PROVE  frameIndex + f = played + f /\ played + f \in 0 .. MaxFrames - 1
  BY FeedbackConfigAssumption DEF TypeOK

(* Reading a whole chunk before writing any of it reads, at every frame,   *)
(* the samples the network looks back to at that frame.                    *)
LEMMA ReadPointsExact ==
  ASSUME TypeOK, RingsHoldHistory, phase = "chunk", NEW c \in Channels,
         NEW n \in 1 .. ChunkFrames, n <= frameCount - start, NEW f \in 0 .. n - 1
  PROVE  ReadPoints(c, n, f) = Network!TapPoints(c, played + f)
  <1>1. PICK ring \in Nat \ {0} : ring = BufferSize(c)
    BY BufferFacts
  <1>2. PICK at \in 0 .. ring - 1 : at = position[c]
    BY <1>1, LineFacts
  <1>3. n \in Nat \ {0} /\ n <= ChunkFrames /\ f \in 0 .. ChunkFrames - 1 /\ ChunkFrames \in Nat
    BY ChunkFramesFacts
  <1>4. played \in Nat
    BY LineFacts
  <1>5. Network!TapPoints(c, played + f) =
          [j \in 0 .. Network!TapCount(c) - 1 |->
             Network!Past(c, (played + f) - (Network!Newest(c, played + f) + j))]
    BY DEF Network!TapPoints
  <1>6. CASE c \notin Modulated
    <2>1. PICK delay \in 1 .. ring : delay = Delay[c]
      BY <1>1, BufferFacts
    <2>2. PICK chunk \in 0 .. delay : chunk = n
      BY <1>3, <1>6, <2>1, FixedReach
    <2> DEFINE x == ReadBlockCells(ring, at, delay, chunk)[f]
    <2>3. x \in 0 .. ring - 1 /\ CellAge(ring, at, x) = delay - f
      BY <2>2, ReadBlockCellsAge
    <2>4. ReadPoints(c, n, f) = [j \in 0 .. 0 |-> cells[c][x]]
      BY <1>1, <1>2, <1>6, <2>1, <2>2 DEF ReadPoints, ReadBlock
    <2> HIDE DEF x
    <2>5. cells[c][x] = Network!Past(c, played - (delay - f))
      BY <1>1, <1>2, <2>3, CellShows
    <2>6. Network!TapCount(c) = 1 /\ Network!Newest(c, played + f) = delay
      BY <1>6, <2>1, NetworkConfig DEF TapCount, Network!Newest, NewestLookback
    <2>7. \A j \in 0 .. 0 : (played + f) - (delay + j) = played - (delay - f)
      BY <1>4
    <2> QED
      BY <1>5, <2>4, <2>5, <2>6, <2>7
  <1>7. CASE c \in Modulated
    <2>1. frameIndex + f = played + f /\ played + f \in 0 .. MaxFrames - 1
      BY <1>3, <1>7, FrameIndexInChunk
    <2>2. PICK b \in Nat : b = trajectory[c][played + f] /\ f < b - 1 /\ b + 2 <= ring
      <3>1. trajectory \in Trajectories
        BY DEF TypeOK
      <3> QED
        BY <1>1, <1>3, <1>7, <2>1, <3>1, SwayingReach
    <2>3. CASE Interpolation = "lagrange3"
      <3> DEFINE cell == LagrangeCells(ring, at + f, b)
      <3>1. f < b - 1 /\ b + 2 <= ring /\ f \in Nat
        BY <2>2
      <3>2. \A i \in 0 .. 3 : /\ cell[i] \in 0 .. ring - 1
                              /\ CellAge(ring, at, cell[i]) = b - 1 + i - f
        BY <3>1, LagrangeCellsAge
      <3>3. ReadPoints(c, n, f) = [j \in 0 .. 3 |-> cells[c][cell[j]]]
        BY <1>1, <1>2, <1>7, <2>1, <2>2, <2>3 DEF ReadPoints, LagrangePoints
      <3> HIDE DEF cell
      <3>4. \A i \in 0 .. 3 : cells[c][cell[i]] = Network!Past(c, played - (b - 1 + i - f))
        BY <1>1, <1>2, <3>2, CellShows
      <3>5. Network!TapCount(c) = 4 /\ Network!Newest(c, played + f) = b - 1
        BY <1>7, <2>2, <2>3, NetworkConfig DEF TapCount, Network!Newest, NewestLookback
      <3>6. \A j \in 0 .. 3 : (played + f) - (b - 1 + j) = played - (b - 1 + j - f)
        BY <1>4
      <3> QED
        BY <1>5, <3>3, <3>4, <3>5, <3>6
    <2>4. CASE Interpolation # "lagrange3"
      <3> DEFINE cell == AdjacentCells(ring, at + f, b)
      <3>1. f < b /\ b + 1 <= ring /\ f \in Nat
        BY <2>2
      <3>2. \A i \in 0 .. 1 : /\ cell[i] \in 0 .. ring - 1
                              /\ CellAge(ring, at, cell[i]) = b + i - f
        BY <3>1, AdjacentCellsAge
      <3>3. ReadPoints(c, n, f) = [j \in 0 .. 1 |-> cells[c][cell[j]]]
        BY <1>1, <1>2, <1>7, <2>1, <2>2, <2>4 DEF ReadPoints, AdjacentPoints
      <3> HIDE DEF cell
      <3>4. \A i \in 0 .. 1 : cells[c][cell[i]] = Network!Past(c, played - (b + i - f))
        BY <1>1, <1>2, <3>2, CellShows
      <3>5. Network!TapCount(c) = 2 /\ Network!Newest(c, played + f) = b
        BY <1>7, <2>2, <2>4, NetworkConfig DEF TapCount, Network!Newest, NewestLookback
      <3>6. \A j \in 0 .. 1 : (played + f) - (b + j) = played - (b + j - f)
        BY <1>4
      <3> QED
        BY <1>5, <3>3, <3>4, <3>5, <3>6
    <2> QED
      BY <2>3, <2>4
  <1> QED
    BY <1>6, <1>7

----------------------------------------------------------------------------
(* While neither the histories nor the inputs change, what the network     *)
(* looks back to does not change either.                                   *)
LEMMA TapPointsUnchanged ==
  ASSUME NEW c \in Channels, written' = written, trajectory' = trajectory, NEW m
  PROVE  /\ Network!TapPoints(c, m)' = Network!TapPoints(c, m)
         /\ Network!Past(c, m)' = Network!Past(c, m)
  BY DEF Network!TapPoints, Network!Past, Network!Newest, Network!NewestLookback,
         Network!TapCount

LEMMA RingsUnchanged ==
  ASSUME RingsHoldHistory, cells' = cells, position' = position, played' = played,
         written' = written
  PROVE  RingsHoldHistory'
  BY DEF RingsHoldHistory, Ring, Network!Past

LEMMA ProcessHolds ==
  ASSUME Inv, NEW count \in 1 .. BlockSizeBound, Process(count)
  PROVE  Inv'
  <1>1. /\ phase = "idle" /\ phase' = "chunk"
        /\ frameCount' = count /\ start' = 0
        /\ played + count <= MaxFrames
        /\ signal' = signal /\ trajectory' = trajectory
        /\ cells' = cells /\ position' = position /\ frameIndex' = frameIndex
        /\ memory' = memory /\ frames' = frames /\ frame' = frame
        /\ played' = played /\ written' = written /\ remembered' = remembered
    BY DEF Process, rigidVars, lineVars, historyVars
  <1>2. count \in Nat \ {0}
    BY BoundBelowLookbacks
  <1>3. TypeOK'
    BY <1>1, <1>2 DEF Inv, TypeOK, Ring
  <1>4. RingsHoldHistory'
    BY <1>1, RingsUnchanged DEF Inv
  <1>5. ChunkInFlight'
    BY <1>1 DEF Inv, ChunkInFlight
  <1> QED
    BY <1>3, <1>4, <1>5 DEF Inv

LEMMA ReadChunkHolds ==
  ASSUME Inv, ReadChunk
  PROVE  Inv'
  <1> DEFINE n == Minimum(ChunkFrames, frameCount - start)
  <1>1. /\ phase = "chunk" /\ phase' = "frames"
        /\ frames' = n /\ frame' = 0
        /\ points' = [c \in Channels |-> [f \in 0 .. n - 1 |-> ReadPoints(c, n, f)]]
        /\ trail' = [c \in Channels |-> [f \in 0 .. 0 |-> memory[c]]]
        /\ signal' = signal /\ trajectory' = trajectory
        /\ cells' = cells /\ position' = position /\ frameIndex' = frameIndex
        /\ memory' = memory /\ frameCount' = frameCount /\ start' = start
        /\ played' = played /\ written' = written /\ remembered' = remembered
    BY DEF ReadChunk, rigidVars, lineVars, historyVars
  <1>2. TypeOK
    BY DEF Inv
  <1>3. n \in 1 .. ChunkFrames /\ n <= frameCount - start /\ n \in Nat
    BY <1>1, <1>2, ChunkFramesFacts DEF TypeOK, Minimum
  <1> HIDE DEF n
  <1>4. TypeOK'
    BY <1>1, <1>2, <1>3 DEF TypeOK, Ring
  <1>5. RingsHoldHistory'
    BY <1>1, RingsUnchanged DEF Inv
  <1>6. ChunkInFlight'
    <2> SUFFICES ASSUME NEW c \in Channels
                 PROVE  /\ \A f \in 0 .. n - 1 :
                             points'[c][f] = Network!TapPoints(c, played + f)
                        /\ trail'[c][0] = remembered[c][played]
                        /\ memory[c] = trail'[c][0]
      <3>1. ASSUME NEW c \in Channels, NEW f \in 0 .. n - 1
            PROVE  Network!TapPoints(c, played + f)' = Network!TapPoints(c, played + f)
        BY <1>1, TapPointsUnchanged DEF Network!TapPoints, Network!Past, Network!Newest,
             Network!NewestLookback, Network!TapCount
      <3> QED
        BY <1>1, <3>1 DEF ChunkInFlight
    <2>1. \A f \in 0 .. n - 1 : points'[c][f] = Network!TapPoints(c, played + f)
      BY <1>1, <1>2, <1>3, ReadPointsExact DEF Inv
    <2>2. trail'[c][0] = memory[c]
      BY <1>1
    <2> QED
      BY <1>1, <2>1, <2>2 DEF Inv, ChunkInFlight
  <1> QED
    BY <1>4, <1>5, <1>6 DEF Inv

LEMMA ExtendedValues ==
  ASSUME NEW f \in Nat, NEW values, NEW value
  PROVE  /\ Extended(values, f, value)[f] = value
         /\ \A i \in 0 .. f - 1 : Extended(values, f, value)[i] = values[i]
  BY DEF Extended

LEMMA StepFrameHolds ==
  ASSUME Inv, StepFrame
  PROVE  Inv'
  <1>1. /\ phase = "frames"
        /\ frame' = frame + 1
        /\ phase' = IF frame + 1 = frames THEN "write" ELSE "frames"
        /\ signal' = signal /\ trajectory' = trajectory
        /\ cells' = cells /\ position' = position /\ frameIndex' = frameIndex
        /\ frameCount' = frameCount /\ start' = start
        /\ frames' = frames /\ points' = points
        /\ played' = played /\ written' = written /\ remembered' = remembered
    BY DEF StepFrame, rigidVars, lineVars, historyVars
  <1>2. \A c \in Channels :
          /\ delayed'[c] = Extended(delayed[c], frame, Tapped(c, points[c][frame], memory[c]))
          /\ fedBack'[c] = Extended(fedBack[c], frame, Returned(c, points[c][frame], memory[c]))
          /\ memory'[c] = Remembered(c, points[c][frame], memory[c])
          /\ trail'[c] = Extended(trail[c], frame + 1,
                                  Remembered(c, points[c][frame], memory[c]))
    BY DEF StepFrame
  <1>3. frame \in Nat /\ frames \in Nat /\ frame < frames
    BY <1>1, ChunkFramesFacts DEF Inv, TypeOK
  <1>4. TypeOK'
    BY <1>1, <1>3 DEF Inv, TypeOK, Ring
  <1>5. RingsHoldHistory'
    BY <1>1, RingsUnchanged DEF Inv
  <1>6. ASSUME NEW c \in Channels
        PROVE  /\ \A f \in 0 .. frames - 1 :
                    points[c][f] = Network!TapPoints(c, played + f)
               /\ trail[c][0] = remembered[c][played]
               /\ memory[c] = trail[c][frame]
               /\ \A f \in 0 .. frame - 1 :
                    /\ delayed[c][f] = Tapped(c, points[c][f], trail[c][f])
                    /\ fedBack[c][f] = Returned(c, points[c][f], trail[c][f])
                    /\ trail[c][f + 1] = Remembered(c, points[c][f], trail[c][f])
    BY <1>1 DEF Inv, ChunkInFlight
  <1>7. ASSUME NEW c \in Channels
        PROVE  /\ trail'[c][0] = remembered[c][played]
               /\ memory'[c] = trail'[c][frame + 1]
               /\ \A f \in 0 .. frame :
                    /\ delayed'[c][f] = Tapped(c, points[c][f], trail'[c][f])
                    /\ fedBack'[c][f] = Returned(c, points[c][f], trail'[c][f])
                    /\ trail'[c][f + 1] = Remembered(c, points[c][f], trail'[c][f])
    <2>1. \A f \in 0 .. frame : trail'[c][f] = trail[c][f]
      BY <1>2, <1>3, ExtendedValues
    <2>2. trail'[c][frame + 1] = Remembered(c, points[c][frame], memory[c])
      BY <1>2, <1>3, ExtendedValues
    <2>3. /\ delayed'[c][frame] = Tapped(c, points[c][frame], memory[c])
          /\ fedBack'[c][frame] = Returned(c, points[c][frame], memory[c])
      BY <1>2, <1>3, ExtendedValues
    <2>4. \A f \in 0 .. frame - 1 : /\ delayed'[c][f] = delayed[c][f]
                                    /\ fedBack'[c][f] = fedBack[c][f]
      BY <1>2, <1>3, ExtendedValues
    <2>5. trail'[c][0] = remembered[c][played]
      BY <1>3, <1>6, <2>1
    <2>6. memory'[c] = trail'[c][frame + 1]
      BY <1>2, <2>2
    <2>7. ASSUME NEW f \in 0 .. frame
          PROVE  /\ delayed'[c][f] = Tapped(c, points[c][f], trail'[c][f])
                 /\ fedBack'[c][f] = Returned(c, points[c][f], trail'[c][f])
                 /\ trail'[c][f + 1] = Remembered(c, points[c][f], trail'[c][f])
      <3>1. CASE f = frame
        BY <1>6, <2>1, <2>2, <2>3, <3>1
      <3>2. CASE f # frame
        <4>1. f \in 0 .. frame - 1 /\ f + 1 \in 0 .. frame
          BY <1>3, <3>2
        <4> QED
          BY <1>6, <2>1, <2>4, <4>1
      <3> QED
        BY <3>1, <3>2
    <2> QED
      BY <2>5, <2>6, <2>7
  <1>8. ASSUME NEW c \in Channels, NEW f \in 0 .. frames - 1
        PROVE  points'[c][f] = Network!TapPoints(c, played + f)'
    <2>1. points[c][f] = Network!TapPoints(c, played + f)
      BY <1>6
    <2> QED
      BY <1>1, <2>1 DEF Network!TapPoints, Network!Past, Network!Newest,
           Network!NewestLookback, Network!TapCount
  <1>9. ChunkInFlight'
    <2>1. phase' \notin {"idle", "chunk"}
      BY <1>1
    <2>2. frame' - 1 = frame
      BY <1>1, <1>3
    <2> QED
      BY <1>1, <1>7, <1>8, <2>1, <2>2 DEF ChunkInFlight
  <1> QED
    BY <1>4, <1>5, <1>9 DEF Inv

LEMMA JoinedValues ==
  ASSUME NEW from \in Nat, NEW n \in Nat, NEW history, NEW chunk
  PROVE  /\ \A i \in 0 .. from - 1 : Joined(history, from, chunk, n)[i] = history[i]
         /\ \A i \in from .. from + n - 1 :
              Joined(history, from, chunk, n)[i] = chunk[i - from]
  BY DEF Joined

LEMMA WriteFacts ==
  ASSUME TypeOK, phase = "write"
  PROVE  /\ played \in Nat /\ start \in Nat /\ frameCount \in Nat
         /\ frames \in Nat \ {0} /\ frame = frames
         /\ start + frames <= frameCount
         /\ played + (frameCount - start) <= MaxFrames
         /\ frameIndex = IF Modulated = {} THEN 0 ELSE played
  BY ChunkFramesFacts DEF TypeOK

(* Writing a chunk back appends it to the histories and leaves what came   *)
(* before alone.                                                           *)
LEMMA WriteChunkHistory ==
  ASSUME TypeOK, WriteChunk, NEW c \in Channels
  PROVE  /\ \A n \in 0 .. played - 1 : /\ written'[c][n] = written[c][n]
                                       /\ heard'[c][n] = heard[c][n]
                                       /\ remembered'[c][n] = remembered[c][n]
         /\ \A n \in played .. played + frames - 1 :
              /\ written'[c][n] = ReturnedChunk(c)[n - played]
              /\ heard'[c][n] = delayed[c][n - played]
         /\ \A n \in played .. played + frames : remembered'[c][n] = trail[c][n - played]
  <1>1. /\ written'[c] = Joined(written[c], played, ReturnedChunk(c), frames)
        /\ heard'[c] = Joined(heard[c], played, delayed[c], frames)
        /\ remembered'[c] = Joined(remembered[c], played, trail[c], frames + 1)
    BY DEF WriteChunk
  <1>2. played \in Nat /\ frames \in Nat /\ frames + 1 \in Nat
    BY WriteFacts DEF WriteChunk
  <1>3. /\ \A n \in 0 .. played - 1 : written'[c][n] = written[c][n]
        /\ \A n \in played .. played + frames - 1 :
             written'[c][n] = ReturnedChunk(c)[n - played]
    <2>1. PICK chunk : chunk = ReturnedChunk(c)
      OBVIOUS
    <2>2. written'[c] = Joined(written[c], played, chunk, frames)
      BY <1>1, <2>1
    <2>3. /\ \A n \in 0 .. played - 1 : written'[c][n] = written[c][n]
          /\ \A n \in played .. played + frames - 1 : written'[c][n] = chunk[n - played]
      BY <1>2, <2>2, JoinedValues
    <2> QED
      BY <2>1, <2>3
  <1>4. /\ \A n \in 0 .. played - 1 : heard'[c][n] = heard[c][n]
        /\ \A n \in played .. played + frames - 1 : heard'[c][n] = delayed[c][n - played]
    BY <1>1, <1>2, JoinedValues
  <1>5. /\ \A n \in 0 .. played - 1 : remembered'[c][n] = remembered[c][n]
        /\ \A n \in played .. played + (frames + 1) - 1 :
             remembered'[c][n] = trail[c][n - played]
    BY <1>1, <1>2, JoinedValues
  <1>6. played + (frames + 1) - 1 = played + frames
    BY <1>2
  <1> QED
    BY <1>3, <1>4, <1>5, <1>6

LEMMA WriteChunkPast ==
  ASSUME TypeOK, WriteChunk, NEW c \in Channels, NEW n \in Int, n < played
  PROVE  Network!Past(c, n)' = Network!Past(c, n)
  <1>1. CASE n >= 0
    <2>1. n \in 0 .. played - 1
      BY <1>1, WriteFacts DEF WriteChunk
    <2> QED
      BY <1>1, <2>1, WriteChunkHistory DEF Network!Past
  <1>2. CASE ~(n >= 0)
    BY <1>2 DEF Network!Past
  <1> QED
    BY <1>1, <1>2

LEMMA WriteChunkHolds ==
  ASSUME Inv, WriteChunk
  PROVE  Inv'
  <1>1. /\ phase = "write"
        /\ phase' = IF start + frames < frameCount THEN "chunk" ELSE "idle"
        /\ frameIndex' = IF Modulated = {} THEN frameIndex ELSE frameIndex + frames
        /\ start' = start + frames /\ played' = played + frames
        /\ signal' = signal /\ trajectory' = trajectory /\ memory' = memory
        /\ frameCount' = frameCount /\ frames' = frames /\ frame' = frame
    BY DEF WriteChunk, rigidVars
  <1>2. TypeOK /\ RingsHoldHistory
    BY DEF Inv
  <1>3. /\ played \in Nat /\ start \in Nat /\ frameCount \in Nat
        /\ frames \in Nat \ {0} /\ frame = frames
        /\ start + frames <= frameCount
        /\ played + (frameCount - start) <= MaxFrames
        /\ frameIndex = IF Modulated = {} THEN 0 ELSE played
    BY <1>1, <1>2, WriteFacts
  <1>4. /\ DOMAIN cells' = Channels
        /\ position' = [c \in Channels |-> BlockPosition(BufferSize(c), position[c], frames)]
        /\ \A c \in Channels :
             cells'[c] = BlockCells(BufferSize(c), cells[c], position[c], ReturnedChunk(c), frames)
    BY DEF WriteChunk
  <1>5. ASSUME NEW c \in Channels
        PROVE  /\ position'[c] \in 0 .. BufferSize(c) - 1
               /\ position'[c] = BlockPosition(BufferSize(c), position[c], frames)
               /\ DOMAIN cells'[c] = 0 .. BufferSize(c) - 1
    <2>1. position[c] \in 0 .. BufferSize(c) - 1 /\ BufferSize(c) \in Nat \ {0}
      BY <1>2, LineFacts, BufferFacts
    <2>2. position'[c] = BlockPosition(BufferSize(c), position[c], frames)
      BY <1>4
    <2>3. BlockPosition(BufferSize(c), position[c], frames) \in 0 .. BufferSize(c) - 1
      BY <1>3, <2>1, BlockPositionValue
    <2>4. DOMAIN cells'[c] = 0 .. BufferSize(c) - 1
      BY <1>4 DEF BlockCells
    <2> QED
      BY <2>2, <2>3, <2>4
  <1>6. TypeOK'
    <2>1. position' \in [Channels -> Nat]
      <3>1. \A c \in Channels : position'[c] \in Nat
        BY <1>5, BufferFacts
      <3> QED
        BY <1>4, <3>1
    <2>2. /\ \A c \in Channels : DOMAIN cells'[c] = Ring(c)
          /\ \A c \in Channels : position'[c] \in Ring(c)
      BY <1>5 DEF Ring
    <2>3. frameIndex' = IF Modulated = {} THEN 0 ELSE played'
      BY <1>1, <1>3
    <2>4. played' + (IF phase' = "idle" THEN 0 ELSE frameCount' - start') <= MaxFrames
      BY <1>1, <1>3, FeedbackConfigAssumption
    <2>5. {frameCount', start', frames', frame', played'} \subseteq Nat
      BY <1>1, <1>3
    <2>6. /\ phase' # "idle" => start' < frameCount'
          /\ phase' \in {"idle", "chunk", "frames", "write"}
          /\ phase' \notin {"frames", "write"}
      BY <1>1
    <2>7. signal' \in Signals /\ trajectory' \in Trajectories
      BY <1>1, <1>2 DEF TypeOK
    <2> QED
      BY <1>4, <2>1, <2>2, <2>3, <2>4, <2>5, <2>6, <2>7 DEF TypeOK, Ring
  <1>7. ASSUME NEW c \in Channels, NEW i \in 0 .. BufferSize(c) - 1, NEW n \in Int,
               n = played' - CellAge(BufferSize(c), position'[c], i)
        PROVE  cells'[c][i] = Network!Past(c, n)'
    <2>1. PICK ring \in Nat \ {0} : ring = BufferSize(c)
      BY BufferFacts
    <2>2. PICK at \in 0 .. ring - 1 : at = position[c]
      BY <1>2, <2>1, LineFacts
    <2>3. PICK to \in 0 .. ring - 1 : to = position'[c] /\ to = BlockPosition(ring, at, frames)
      BY <1>5, <2>1, <2>2
    <2>4. PICK x \in 0 .. ring - 1 : x = i
      BY <2>1
    <2>5. PICK age \in 1 .. ring : age = CellAge(ring, to, x)
      BY CellAgeRange
    <2>6. n = played + frames - age
      BY <1>1, <1>3, <1>7, <2>1, <2>3, <2>4, <2>5
    <2>7. cells'[c] = BlockCells(ring, cells[c], at, ReturnedChunk(c), frames)
      BY <1>4, <2>1, <2>2
    <2>8. IF age <= frames
          THEN cells'[c][x] = ReturnedChunk(c)[frames - age]
          ELSE cells'[c][x] = cells[c][x] /\ age = CellAge(ring, at, x) + frames
      <3>1. frames \in Nat
        BY <1>3
      <3>2. age = CellAge(ring, BlockPosition(ring, at, frames), x)
        BY <2>3, <2>5
      <3> QED
        BY <3>1, <3>2, <2>7, BlockWriteShows
    <2>9. CASE age <= frames
      <3>1. /\ n \in played .. played + frames - 1
            /\ n - played = frames - age
            /\ n >= 0
        BY <1>3, <2>6, <2>9
      <3>2. written'[c][n] = ReturnedChunk(c)[n - played]
        BY <1>2, <3>1, WriteChunkHistory
      <3> QED
        BY <2>4, <2>8, <2>9, <3>1, <3>2 DEF Network!Past
    <2>10. CASE ~(age <= frames)
      <3>1. CellAge(ring, at, x) \in 1 .. ring
        BY CellAgeRange
      <3>2. n = played - CellAge(ring, at, x) /\ n < played
        <4>1. PICK old \in 1 .. ring : old = CellAge(ring, at, x)
          BY <3>1
        <4>2. age = old + frames
          BY <2>8, <2>10, <4>1
        <4>3. n = played - old /\ n < played
          BY <1>3, <2>6, <4>1, <4>2
        <4> QED
          BY <4>1, <4>3
      <3>3. cells[c][x] = Network!Past(c, n)
        BY <1>2, <2>1, <2>2, <3>2, CellShows
      <3> QED
        BY <1>2, <2>4, <2>8, <2>10, <3>2, <3>3, WriteChunkPast
    <2> QED
      BY <2>9, <2>10
  <1>8. RingsHoldHistory'
    <2> SUFFICES ASSUME NEW c \in Channels, NEW i \in 0 .. BufferSize(c) - 1
                 PROVE  (cells[c][i] =
                           Network!Past(c, played - CellAge(BufferSize(c), position[c], i)))'
      BY DEF RingsHoldHistory, Ring
    <2>1. played' \in Int /\ CellAge(BufferSize(c), position'[c], i) \in Int
      BY <1>1, <1>3, <1>5, BufferFacts, CellAgeRange
    <2>2. PICK n \in Int : n = played' - CellAge(BufferSize(c), position'[c], i)
      BY <2>1
    <2>3. cells'[c][i] = Network!Past(c, n)'
      BY <1>7, <2>2
    <2> QED
      BY <2>2, <2>3 DEF Network!Past
  <1>9. ChunkInFlight'
    <2>1. ASSUME NEW c \in Channels
          PROVE  memory'[c] = remembered'[c][played']
      <3>1. memory[c] = trail[c][frames]
        BY <1>1, <1>3 DEF Inv, ChunkInFlight
      <3>2. /\ played + frames \in played .. played + frames
            /\ (played + frames) - played = frames
        BY <1>3
      <3>3. remembered'[c][played + frames] = trail[c][frames]
        BY <1>2, <3>2, WriteChunkHistory
      <3> QED
        BY <1>1, <3>1, <3>3
    <2>2. phase' \notin {"frames", "write"}
      BY <1>1
    <2> QED
      BY <2>1, <2>2 DEF ChunkInFlight
  <1> QED
    BY <1>6, <1>8, <1>9 DEF Inv

----------------------------------------------------------------------------
(* No frame of a chunk looks back into the chunk itself, so writing the    *)
(* chunk does not change what the network hears at its frames.             *)
LEMMA TapPointsSurvive ==
  ASSUME TypeOK, WriteChunk, NEW c \in Channels, NEW n \in played .. played + frames - 1
  PROVE  Network!TapPoints(c, n)' = Network!TapPoints(c, n)
  <1>1. played \in Nat /\ frames \in 1 .. ChunkFrames /\ ChunkFrames \in Nat
    BY ChunkFramesFacts DEF TypeOK, WriteChunk
  <1>2. trajectory' = trajectory
    BY DEF WriteChunk, rigidVars
  <1>3. PICK f \in 0 .. ChunkFrames - 1 : f = n - played
    BY <1>1
  <1>4. Network!Newest(c, n) \in Nat /\ f < Network!Newest(c, n)
    <2>1. CASE c \notin Modulated
      <3>1. Network!Newest(c, n) = Delay[c]
        BY <2>1 DEF Network!Newest, Network!NewestLookback
      <3>2. Delay[c] \in Nat
        BY FeedbackConfigAssumption
      <3> QED
        BY <1>1, <2>1, <3>1, <3>2, FixedReach
    <2>2. CASE c \in Modulated
      <3>1. n \in 0 .. MaxFrames - 1
        BY <1>1, WriteFacts, FeedbackConfigAssumption DEF WriteChunk
      <3>2. trajectory \in Trajectories
        BY DEF TypeOK
      <3>3. trajectory[c][n] \in Nat /\ f < trajectory[c][n] - 1
        BY <2>2, <3>1, <3>2, SwayingReach
      <3>4. Network!Newest(c, n) = IF Interpolation = "lagrange3"
                                   THEN trajectory[c][n] - 1 ELSE trajectory[c][n]
        BY <2>2 DEF Network!Newest, Network!NewestLookback
      <3> QED
        BY <3>3, <3>4
    <2> QED
      BY <2>1, <2>2
  <1>5. Network!Newest(c, n)' = Network!Newest(c, n)
    BY <1>2 DEF Network!Newest, Network!NewestLookback
  <1>6. ASSUME NEW j \in 0 .. Network!TapCount(c) - 1
        PROVE  Network!Past(c, n - (Network!Newest(c, n) + j))' =
                 Network!Past(c, n - (Network!Newest(c, n) + j))
    <2>1. PICK m \in Int : m = n - (Network!Newest(c, n) + j)
      BY <1>4
    <2>2. m < played
      BY <1>1, <1>3, <1>4, <2>1
    <2>3. Network!Past(c, m)' = Network!Past(c, m)
      BY <2>2, WriteChunkPast
    <2> QED
      BY <1>5, <2>1, <2>3 DEF Network!Past
  <1> QED
    BY <1>5, <1>6 DEF Network!TapPoints, Network!TapCount

(* Completing a chunk extends the network's history by its frames, each of *)
(* which satisfies the network's equation.                                 *)
LEMMA WriteChunkExtends ==
  ASSUME Inv, WriteChunk
  PROVE  Network!Extend
  <1>1. TypeOK /\ phase = "write"
    BY DEF Inv, WriteChunk
  <1>2. /\ played \in Nat /\ frames \in Nat \ {0} /\ frame = frames
        /\ start \in Nat /\ frameCount \in Nat /\ start + frames <= frameCount
        /\ played + (frameCount - start) <= MaxFrames
    BY <1>1, WriteFacts
  <1>3. played' = played + frames /\ signal' = signal /\ trajectory' = trajectory
    BY DEF WriteChunk, rigidVars
  <1>4. \A c \in Channels :
          /\ \A f \in 0 .. frames - 1 :
               /\ points[c][f] = Network!TapPoints(c, played + f)
               /\ delayed[c][f] = Tapped(c, points[c][f], trail[c][f])
               /\ fedBack[c][f] = Returned(c, points[c][f], trail[c][f])
               /\ trail[c][f + 1] = Remembered(c, points[c][f], trail[c][f])
          /\ trail[c][0] = remembered[c][played]
    BY <1>1, <1>2 DEF Inv, ChunkInFlight
  <1>5. played' \in played + 1 .. MaxFrames
    BY <1>2, <1>3, FeedbackConfigAssumption
  <1>6. ASSUME NEW c \in Channels
        PROVE  /\ \A n \in 0 .. played - 1 :
                    written'[c][n] = written[c][n] /\ heard'[c][n] = heard[c][n]
               /\ \A n \in 0 .. played : remembered'[c][n] = remembered[c][n]
    <2>1. remembered'[c][played] = trail[c][0]
      <3>1. played \in played .. played + frames /\ played - played = 0
        BY <1>2
      <3> QED
        BY <1>1, <3>1, WriteChunkHistory
    <2>2. \A n \in 0 .. played : n \in 0 .. played - 1 \/ n = played
      BY <1>2
    <2> QED
      BY <1>1, <1>4, <2>1, <2>2, WriteChunkHistory
  <1>7. ASSUME NEW n \in played .. played + frames - 1
        PROVE  Network!FrameEquation(n)'
    <2>1. PICK f \in 0 .. frames - 1 : f = n - played /\ played + f = n
      BY <1>2
    <2>2. ASSUME NEW c \in Channels
          PROVE  /\ points[c][f] = Network!TapPoints(c, n)'
                 /\ remembered'[c][n] = trail[c][f]
                 /\ remembered'[c][n + 1] = trail[c][f + 1]
                 /\ heard'[c][n] = delayed[c][f]
                 /\ written'[c][n] = ReturnedChunk(c)[f]
      <3>1. points[c][f] = Network!TapPoints(c, n)'
        BY <1>1, <1>4, <2>1, TapPointsSurvive
      <3>2. /\ n \in played .. played + frames /\ n + 1 \in played .. played + frames
            /\ (n + 1) - played = f + 1
        BY <1>2, <2>1
      <3> QED
        BY <1>1, <2>1, <3>1, <3>2, WriteChunkHistory
    <2>3. ASSUME NEW c \in Channels
          PROVE  /\ heard'[c][n] = Tapped(c, Network!TapPoints(c, n)', remembered'[c][n])
                 /\ remembered'[c][n + 1] =
                      Remembered(c, Network!TapPoints(c, n)', remembered'[c][n])
      BY <1>4, <2>2
    <2>4. ASSUME NEW c \in Channels
          PROVE  written'[c][n] =
                   Network!Fed(c, signal'[n][c],
                     [d \in Channels |->
                        Returned(d, Network!TapPoints(d, n)', remembered'[d][n])])
      <3>1. ReturnedChunk(c)[f] = Fed(c, signal[played + f][c], [d \in Channels |-> fedBack[d][f]])
        BY DEF ReturnedChunk
      <3>2. \A d \in Channels :
              fedBack[d][f] = Returned(d, Network!TapPoints(d, n)', remembered'[d][n])
        BY <1>4, <2>2
      <3>3. [d \in Channels |-> fedBack[d][f]] =
              [d \in Channels |-> Returned(d, Network!TapPoints(d, n)', remembered'[d][n])]
        BY <3>2
      <3>4. \A x, v : Network!Fed(c, x, v) = Fed(c, x, v)
        BY DEF Network!Fed, Fed
      <3> QED
        BY <1>3, <2>1, <2>2, <3>1, <3>3, <3>4
    <2> QED
      BY <2>3, <2>4 DEF Network!FrameEquation
  <1>8. \A n \in played .. played' - 1 : Network!FrameEquation(n)'
    <2>1. played' - 1 = played + frames - 1
      BY <1>2, <1>3
    <2> QED
      BY <1>7, <2>1
  <1> QED
    BY <1>3, <1>5, <1>6, <1>8 DEF Network!Extend

----------------------------------------------------------------------------
LEMMA InitHolds == Init => Inv /\ Network!Init
  <1> SUFFICES ASSUME Init PROVE Inv /\ Network!Init
    OBVIOUS
  <1> USE DEF Init
  <1>1. TypeOK
    <2>1. ASSUME NEW c \in Channels
          PROVE  0 \in Ring(c)
      <3>1. BufferSize(c) \in Nat \ {0}
        BY BufferFacts
      <3> QED
        BY <3>1 DEF Ring
    <2>2. position \in [Channels -> Nat] /\ \A c \in Channels : position[c] \in Ring(c)
      BY <2>1
    <2> QED
      BY <2>2, FeedbackConfigAssumption DEF TypeOK
  <1>2. RingsHoldHistory
    <2> SUFFICES ASSUME NEW c \in Channels, NEW i \in 0 .. BufferSize(c) - 1
                 PROVE  Zero = Network!Past(c, played - CellAge(BufferSize(c), position[c], i))
      BY DEF RingsHoldHistory, Ring
    <2>1. CellAge(BufferSize(c), position[c], i) \in 1 .. BufferSize(c)
      BY <1>1, BufferFacts, LineFacts, CellAgeRange
    <2>2. ~(played - CellAge(BufferSize(c), position[c], i) >= 0)
      BY <2>1, BufferFacts
    <2> QED
      BY <2>2 DEF Network!Past
  <1>3. ChunkInFlight
    BY DEF ChunkInFlight
  <1>4. Network!Init
    BY DEF Network!Init, Silent
  <1> QED
    BY <1>1, <1>2, <1>3, <1>4 DEF Inv

LEMMA StutterHolds ==
  ASSUME Inv, UNCHANGED vars
  PROVE  Inv'
  <1>1. /\ signal' = signal /\ trajectory' = trajectory
        /\ cells' = cells /\ position' = position /\ frameIndex' = frameIndex
        /\ memory' = memory /\ phase' = phase
        /\ frameCount' = frameCount /\ start' = start /\ frames' = frames /\ frame' = frame
        /\ points' = points /\ delayed' = delayed /\ fedBack' = fedBack /\ trail' = trail
        /\ played' = played /\ written' = written /\ remembered' = remembered
    BY DEF vars, rigidVars, lineVars, callVars, bufferVars, historyVars
  <1>2. TypeOK'
    BY <1>1 DEF Inv, TypeOK, Ring
  <1>3. RingsHoldHistory'
    BY <1>1, RingsUnchanged DEF Inv
  <1>4. ASSUME NEW c \in Channels, NEW f \in 0 .. frames - 1
        PROVE  Network!TapPoints(c, played + f)' = Network!TapPoints(c, played + f)
    BY <1>1 DEF Network!TapPoints, Network!Past, Network!Newest,
         Network!NewestLookback, Network!TapCount
  <1>5. ChunkInFlight'
    BY <1>1, <1>4 DEF Inv, ChunkInFlight
  <1> QED
    BY <1>2, <1>3, <1>5 DEF Inv

LEMMA NextHolds == Inv /\ [Next]_vars => Inv'
  <1> SUFFICES ASSUME Inv, [Next]_vars PROVE Inv'
    OBVIOUS
  <1>1. CASE \E count \in 1 .. BlockSizeBound : Process(count)
    BY <1>1, ProcessHolds
  <1>2. CASE ReadChunk
    BY <1>2, ReadChunkHolds
  <1>3. CASE StepFrame
    BY <1>3, StepFrameHolds
  <1>4. CASE WriteChunk
    BY <1>4, WriteChunkHolds
  <1>5. CASE UNCHANGED vars
    BY <1>5, StutterHolds
  <1> QED
    BY <1>1, <1>2, <1>3, <1>4, <1>5 DEF Next

(* Every step is a step of the network, or one it does not see: calling,   *)
(* reading a chunk and running the recursion over it extend no history.    *)
LEMMA StepSimulates == Inv /\ [Next]_vars => [Network!Next]_(Network!vars)
  <1> SUFFICES ASSUME Inv, [Next]_vars PROVE [Network!Next]_(Network!vars)
    OBVIOUS
  <1>1. CASE WriteChunk
    BY <1>1, WriteChunkExtends DEF Network!Next
  <1>2. CASE UNCHANGED <<rigidVars, historyVars>>
    BY <1>2 DEF rigidVars, historyVars, Network!vars
  <1>3. CASE \E count \in 1 .. BlockSizeBound : Process(count)
    BY <1>2, <1>3 DEF Process
  <1>4. CASE ReadChunk
    BY <1>2, <1>4 DEF ReadChunk
  <1>5. CASE StepFrame
    BY <1>2, <1>5 DEF StepFrame
  <1>6. CASE UNCHANGED vars
    BY <1>2, <1>6 DEF vars
  <1> QED
    BY <1>1, <1>3, <1>4, <1>5, <1>6 DEF Next

(* Positions stay in their rings, chunks in their buffers, and the         *)
(* Modulation's frame counter is the number of frames played, for every    *)
(* configuration and every sequence of process() calls.                    *)
THEOREM TypeCorrect == Spec => []TypeOK
  <1>1. Inv => TypeOK
    BY DEF Inv
  <1> QED
    BY InitHolds, NextHolds, <1>1, PTL DEF Spec

(* Every Channel's ring holds exactly the last BufferSize(c) samples       *)
(* written to it.                                                          *)
THEOREM RingsCorrect == Spec => []RingsHoldHistory
  <1>1. Inv => RingsHoldHistory
    BY DEF Inv
  <1> QED
    BY InitHolds, NextHolds, <1>1, PTL DEF Spec

(* A chunk's points are read before any of the chunk is written, and are   *)
(* still the ones the frame-by-frame network looks back to.                *)
THEOREM InFlightCorrect == Spec => []ChunkInFlight
  <1>1. Inv => ChunkInFlight
    BY DEF Inv
  <1> QED
    BY InitHolds, NextHolds, <1>1, PTL DEF Spec

(* The chunked Feedback Loop implements the frame-by-frame feedback delay  *)
(* network: chunking below the Block-size bound is inaudible.              *)
THEOREM ChunkedLoopImplementsNetwork == Spec => ImplementsNetwork
  <1>1. Init => Network!Init
    BY InitHolds
  <1>2. Spec => []Inv
    BY InitHolds, NextHolds, PTL DEF Spec
  <1> QED
    BY <1>1, <1>2, StepSimulates, PTL DEF Spec, ImplementsNetwork, Network!Spec

=============================================================================
