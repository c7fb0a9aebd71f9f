--------------------------- MODULE DelayLine_proofs ---------------------------
(***************************************************************************)
(* Proofs about DelayLine, for every geometry, chunk length and sample     *)
(* set: whatever sequence of calls its users make, a Channel's ring holds  *)
(* the recent past and every read is exact.  TypeOK and RingHoldsHistory   *)
(* are inductive together; HeardExact follows step by step, because each   *)
(* operation replaces everything heard.                                    *)
(***************************************************************************)
EXTENDS DelayLine, DelayRing_proofs

Inv == TypeOK /\ RingHoldsHistory

LEMMA LineFacts ==
  ASSUME TypeOK
  PROVE  /\ line.ring \in Nat \ {0}
         /\ line.delay \in 1 .. line.ring
         /\ position \in 0 .. line.ring - 1
         /\ now \in Nat
         /\ line.interpolation # "fixed" =>
              \A base \in line.bases : base \in Nat /\ base >= 2 /\ base + 2 <= line.ring
  <1>1. IsLine(line)
    BY DelayLineAssumption DEF TypeOK
  <1> QED
    BY <1>1 DEF IsLine, TypeOK, Ring

(* Recording an operation appends its input to the history and leaves what *)
(* came before alone.                                                      *)
LEMMA RecordHistory ==
  ASSUME TypeOK, NEW frames \in Nat \ {0}, NEW input \in [0 .. frames - 1 -> Sample],
         NEW newest, NEW read, Record(frames, input, newest, read)
  PROVE  /\ line' = line
         /\ now' = now + frames
         /\ written' \in [0 .. now' - 1 -> Sample]
         /\ DOMAIN heard' \subseteq 0 .. now' - 1
         /\ \A n \in Int : n < now => Past(n)' = Past(n)
         /\ \A n \in now .. now + frames - 1 : Past(n)' = input[n - now]
  <1>1. now \in Nat /\ written \in [0 .. now - 1 -> Sample]
    BY DEF TypeOK
  <1>2. line' = line /\ now' = now + frames
    BY DEF Record
  <1>3. written' \in [0 .. now' - 1 -> Sample]
    <2> DEFINE Value(n) == IF n < now THEN written[n] ELSE input[n - now]
    <2>1. written' = [n \in 0 .. now + frames - 1 |-> Value(n)]
      BY DEF Record
    <2>2. ASSUME NEW n \in 0 .. now + frames - 1
          PROVE  Value(n) \in Sample
      <3>1. CASE n < now
        BY <1>1, <3>1
      <3>2. CASE ~(n < now)
        <4>1. n - now \in 0 .. frames - 1
          BY <1>1, <3>2
        <4> QED
          BY <3>2, <4>1
      <3> QED
        BY <3>1, <3>2
    <2> HIDE DEF Value
    <2>3. written' \in [0 .. now + frames - 1 -> Sample]
      BY <2>1, <2>2
    <2> QED
      BY <1>1, <1>2, <2>3
  <1>4. DOMAIN heard' \subseteq 0 .. now' - 1
    <2>1. DOMAIN heard' = now .. now + frames - 1
      BY DEF Record
    <2> QED
      BY <1>1, <1>2, <2>1
  <1>5. ASSUME NEW n \in Int, n < now
        PROVE  Past(n)' = Past(n)
    <2>1. CASE n >= 0
      <3>1. n \in 0 .. now + frames - 1
        BY <1>1, <1>5, <2>1
      <3> QED
        BY <1>5, <2>1, <3>1 DEF Past, Record
    <2>2. CASE ~(n >= 0)
      BY <2>2 DEF Past
    <2> QED
      BY <2>1, <2>2
  <1>6. ASSUME NEW n \in now .. now + frames - 1
        PROVE  Past(n)' = input[n - now]
    <2>1. n \in 0 .. now + frames - 1 /\ ~(n < now) /\ n >= 0
      BY <1>1
    <2> QED
      BY <2>1 DEF Past, Record
  <1> QED
    BY <1>2, <1>3, <1>4, <1>5, <1>6

(* write(), at any time, keeps the ring the recent past.                   *)
LEMMA FrameWriteHolds ==
  ASSUME Inv, NEW value \in Sample, FrameWrite(value),
         NEW newest, NEW read, Record(1, [f \in 0 .. 0 |-> value], newest, read)
  PROVE  Inv'
  <1> DEFINE input == [f \in 0 .. 0 |-> value]
             ring == line.ring
  <1>1. TypeOK /\ RingHoldsHistory
    BY DEF Inv
  <1>2. ring \in Nat \ {0} /\ position \in 0 .. ring - 1 /\ now \in Nat
    BY <1>1, LineFacts
  <1>3. cells \in [0 .. ring - 1 -> Sample] /\ line \in Lines
    BY <1>1 DEF TypeOK, Ring
  <1>4. PICK frames \in Nat \ {0} : frames = 1
    OBVIOUS
  <1>5. input \in [0 .. frames - 1 -> Sample] /\ Record(frames, input, newest, read)
    BY <1>4
  <1> HIDE DEF input
  <1>6. /\ line' = line /\ now' = now + frames
        /\ written' \in [0 .. now' - 1 -> Sample]
        /\ DOMAIN heard' \subseteq 0 .. now' - 1
        /\ \A n \in Int : n < now => Past(n)' = Past(n)
        /\ \A n \in now .. now + frames - 1 : Past(n)' = input[n - now]
    BY <1>1, <1>5, RecordHistory
  <1>7. /\ cells' = [cells EXCEPT ![position] = value]
        /\ position' = NextPosition(ring, position)
    BY DEF FrameWrite, WrittenCells
  <1>8. position' \in 0 .. ring - 1
    BY <1>2, <1>7, WriteAges
  <1>9. TypeOK'
    <2>1. cells' \in [0 .. ring - 1 -> Sample]
      BY <1>2, <1>3, <1>7
    <2>2. now' \in Nat
      BY <1>2, <1>4, <1>6
    <2> QED
      BY <1>3, <1>6, <1>8, <2>1, <2>2 DEF TypeOK, Ring
  <1>10. ASSUME NEW i \in 0 .. ring - 1, NEW n \in Int,
                n = now' - CellAge(ring, position', i)
         PROVE  cells'[i] = Past(n)'
    <2>1. CASE i = position
      <3>1. CellAge(ring, position', i) = 1
        BY <1>2, <1>7, <2>1, WriteAges
      <3>2. n = now /\ n \in now .. now + frames - 1 /\ n - now = 0
        BY <1>2, <1>4, <1>6, <1>10, <3>1
      <3>3. Past(n)' = value
        <4>1. Past(n)' = input[0]
          BY <1>6, <3>2
        <4> QED
          BY <4>1 DEF input
      <3>4. cells'[i] = value
        BY <1>2, <1>3, <1>7, <2>1
      <3> QED
        BY <3>3, <3>4
    <2>2. CASE i # position
      <3>1. CellAge(ring, position', i) = CellAge(ring, position, i) + 1
        BY <1>2, <1>7, <2>2, WriteAges
      <3>2. CellAge(ring, position, i) \in 1 .. ring
        BY <1>2, CellAgeRange
      <3>3. n = now - CellAge(ring, position, i)
        BY <1>2, <1>4, <1>6, <1>10, <3>1, <3>2
      <3>4. cells'[i] = cells[i]
        BY <1>3, <1>7, <2>2
      <3>5. cells[i] = Past(now - CellAge(ring, position, i))
        BY <1>1 DEF RingHoldsHistory, Ring
      <3>6. n < now
        BY <1>2, <3>2, <3>3
      <3> QED
        BY <1>6, <3>3, <3>4, <3>5, <3>6
    <2> QED
      BY <2>1, <2>2
  <1>11. RingHoldsHistory'
    <2> SUFFICES ASSUME NEW i \in 0 .. ring - 1
                 PROVE  (cells[i] = Past(now - CellAge(line.ring, position, i)))'
      BY <1>6 DEF RingHoldsHistory, Ring
    <2>1. now' \in Int /\ CellAge(ring, position', i) \in Int
      BY <1>2, <1>4, <1>6, <1>8, CellAgeRange
    <2>2. PICK n \in Int : n = now' - CellAge(ring, position', i)
      BY <2>1
    <2>3. cells'[i] = Past(n)'
      BY <1>10, <2>2
    <2> QED
      BY <1>6, <2>2, <2>3 DEF Past
  <1> QED
    BY <1>9, <1>11 DEF Inv

(* writeBlock() keeps it too, for chunks shorter or longer than the ring.  *)
LEMMA BlockWriteHolds ==
  ASSUME Inv, NEW frames \in Nat \ {0}, NEW input \in [0 .. frames - 1 -> Sample],
         BlockWrite(frames, input),
         NEW newest, NEW read, Record(frames, input, newest, read)
  PROVE  Inv'
  <1> DEFINE ring == line.ring
  <1>1. TypeOK /\ RingHoldsHistory
    BY DEF Inv
  <1>2. ring \in Nat \ {0} /\ position \in 0 .. ring - 1 /\ now \in Nat
    BY <1>1, LineFacts
  <1>3. cells \in [0 .. ring - 1 -> Sample] /\ line \in Lines
    BY <1>1 DEF TypeOK, Ring
  <1>4. /\ line' = line /\ now' = now + frames
        /\ written' \in [0 .. now' - 1 -> Sample]
        /\ DOMAIN heard' \subseteq 0 .. now' - 1
        /\ \A n \in Int : n < now => Past(n)' = Past(n)
        /\ \A n \in now .. now + frames - 1 : Past(n)' = input[n - now]
    BY <1>1, RecordHistory
  <1>5. /\ cells' = BlockCells(ring, cells, position, input, frames)
        /\ position' = BlockPosition(ring, position, frames)
    BY DEF BlockWrite
  <1> HIDE DEF ring
  <1>6. position' \in 0 .. ring - 1
    BY <1>2, <1>5, BlockPositionValue
  <1>7. \A i \in 0 .. ring - 1 :
          IF CellAge(ring, position', i) <= frames
          THEN cells'[i] = input[frames - CellAge(ring, position', i)]
          ELSE /\ cells'[i] = cells[i]
               /\ CellAge(ring, position', i) = CellAge(ring, position, i) + frames
    BY <1>2, <1>5, BlockWriteAges
  <1>8. \A i \in 0 .. ring - 1 : /\ CellAge(ring, position', i) \in 1 .. ring
                                 /\ CellAge(ring, position, i) \in 1 .. ring
    BY <1>2, <1>6, CellAgeRange
  <1>9. TypeOK'
    <2>1. DOMAIN cells' = 0 .. ring - 1 /\ cells' = [i \in DOMAIN cells' |-> cells'[i]]
      BY <1>5 DEF BlockCells
    <2>2. ASSUME NEW i \in 0 .. ring - 1 PROVE cells'[i] \in Sample
      <3>1. CASE CellAge(ring, position', i) <= frames
        <4>1. frames - CellAge(ring, position', i) \in 0 .. frames - 1
          BY <1>8, <3>1
        <4> QED
          BY <1>7, <3>1, <4>1
      <3>2. CASE ~(CellAge(ring, position', i) <= frames)
        BY <1>3, <1>7, <3>2
      <3> QED
        BY <3>1, <3>2
    <2>3. cells' \in [0 .. ring - 1 -> Sample]
      BY <2>1, <2>2
    <2>4. now' \in Nat
      BY <1>2, <1>4
    <2> QED
      BY <1>3, <1>4, <1>6, <2>3, <2>4 DEF TypeOK, Ring, ring
  <1>10. ASSUME NEW i \in 0 .. ring - 1, NEW n \in Int,
                n = now' - CellAge(ring, position', i)
         PROVE  cells'[i] = Past(n)'
    <2> DEFINE age == CellAge(ring, position', i)
    <2>1. now' = now + frames /\ age \in 1 .. ring /\ n = now' - age
      BY <1>4, <1>8, <1>10
    <2> HIDE DEF age
    <2>2. CASE CellAge(ring, position', i) <= frames
      <3>1. n \in now .. now + frames - 1 /\ n - now = frames - CellAge(ring, position', i)
        BY <1>2, <2>1, <2>2 DEF age
      <3>2. cells'[i] = input[n - now]
        BY <1>7, <2>2, <3>1
      <3> QED
        BY <1>4, <3>1, <3>2
    <2>3. CASE ~(CellAge(ring, position', i) <= frames)
      <3>1. cells'[i] = cells[i] /\ n = now - CellAge(ring, position, i)
        <4>1. /\ cells'[i] = cells[i]
              /\ CellAge(ring, position', i) = CellAge(ring, position, i) + frames
          BY <1>7, <2>3
        <4>2. PICK old \in 1 .. ring : old = CellAge(ring, position, i)
          BY <1>8
        <4>3. age = old + frames
          BY <4>1, <4>2 DEF age
        <4>4. now \in Int /\ frames \in Int /\ old \in Int
          BY <1>2, <4>2
        <4>5. n = now - old
          BY <2>1, <4>3, <4>4
        <4> QED
          BY <4>1, <4>2, <4>5
      <3>2. n \in Int /\ n < now
        BY <1>2, <1>8, <3>1
      <3>3. cells[i] = Past(n)
        BY <1>1, <3>1 DEF RingHoldsHistory, Ring, ring
      <3> QED
        BY <1>4, <3>1, <3>2, <3>3
    <2> QED
      BY <2>2, <2>3
  <1>11. RingHoldsHistory'
    <2> SUFFICES ASSUME NEW i \in 0 .. ring - 1
                 PROVE  (cells[i] = Past(now - CellAge(line.ring, position, i)))'
      BY <1>4 DEF RingHoldsHistory, Ring, ring
    <2>1. now' \in Int /\ CellAge(ring, position', i) \in Int
      BY <1>2, <1>4, <1>8
    <2>2. PICK n \in Int : n = now' - CellAge(ring, position', i)
      BY <2>1
    <2>3. cells'[i] = Past(n)'
      BY <1>10, <2>2
    <2> QED
      BY <1>4, <2>2, <2>3 DEF Past, ring
  <1> QED
    BY <1>9, <1>11 DEF Inv

----------------------------------------------------------------------------
(* Reading.  An operation's reads are exact if each point, at lookback a,  *)
(* is the operation's own input where a reaches into it, and the history   *)
(* where it does not.                                                      *)
ExactRead(frames, input, newest, read) ==
  \A f \in 0 .. frames - 1 : \A j \in DOMAIN read[f] :
    \E a \in Nat :
      /\ a = newest[f] + j
      /\ read[f][j] = IF a <= f THEN input[f - a] ELSE Past(now + f - a)

LEMMA HeardStep ==
  ASSUME TypeOK, NEW frames \in Nat \ {0}, NEW input \in [0 .. frames - 1 -> Sample],
         NEW newest, NEW read, Record(frames, input, newest, read),
         ExactRead(frames, input, newest, read)
  PROVE  HeardExact'
  <1>1. /\ now \in Nat
        /\ \A n \in Int : n < now => Past(n)' = Past(n)
        /\ \A n \in now .. now + frames - 1 : Past(n)' = input[n - now]
    BY LineFacts, RecordHistory
  <1>2. heard' = [n \in now .. now + frames - 1 |->
                    [newest |-> newest[n - now], points |-> read[n - now]]]
    BY DEF Record
  <1> SUFFICES ASSUME NEW n \in now .. now + frames - 1, NEW j \in DOMAIN read[n - now]
               PROVE  (heard[n].points[j] = Past(n - (heard[n].newest + j)))'
    BY <1>2 DEF HeardExact
  <1>3. PICK f \in 0 .. frames - 1 : f = n - now
    BY <1>1
  <1>4. heard'[n].points = read[f] /\ heard'[n].newest = newest[f]
    BY <1>2, <1>3
  <1>5. PICK a \in Nat :
          /\ a = newest[f] + j
          /\ read[f][j] = IF a <= f THEN input[f - a] ELSE Past(now + f - a)
    BY <1>3 DEF ExactRead
  <1>6. PICK m \in Int : m = n - a /\ m = now + f - a
    BY <1>1, <1>3
  <1>7. read[f][j] = Past(m)'
    <2>1. CASE a <= f
      <3>1. m \in now .. now + frames - 1 /\ m - now = f - a
        BY <1>1, <1>6, <2>1
      <3> QED
        BY <1>1, <1>5, <2>1, <3>1
    <2>2. CASE ~(a <= f)
      <3>1. m < now
        BY <1>1, <1>6, <2>2
      <3>2. read[f][j] = Past(m)
        BY <1>5, <1>6, <2>2
      <3> QED
        BY <1>1, <3>1, <3>2
    <2> QED
      BY <2>1, <2>2
  <1> QED
    BY <1>4, <1>5, <1>6, <1>7 DEF Past

(* What a ring that holds the history shows at a cell of a given age.      *)
LEMMA CellShows ==
  ASSUME RingHoldsHistory, NEW x \in 0 .. line.ring - 1
  PROVE  cells[x] = Past(now - CellAge(line.ring, position, x))
  BY DEF RingHoldsHistory, Ring

(* readBlock() of a chunk no longer than the delay shows, at frame f, the  *)
(* sample written `delay` frames before it.                                *)
LEMMA ReadBlockShows ==
  ASSUME Inv, NEW frames \in 0 .. line.delay, NEW f \in 0 .. frames - 1
  PROVE  ReadBlock(line.ring, cells, position, line.delay, frames)[f] =
           Past(now + f - line.delay)
  <1>1. PICK ring \in Nat \ {0} : ring = line.ring
    BY LineFacts DEF Inv
  <1>2. PICK delay \in 1 .. ring : delay = line.delay
    BY <1>1, LineFacts DEF Inv
  <1>3. PICK at \in 0 .. ring - 1 : at = position
    BY <1>1, LineFacts DEF Inv
  <1>4. frames \in 0 .. delay
    BY <1>2
  <1> DEFINE x == ReadBlockCells(ring, at, delay, frames)[f]
  <1>5. x \in 0 .. ring - 1 /\ CellAge(ring, at, x) = delay - f
    BY <1>4, ReadBlockCellsAge
  <1>6. ReadBlock(ring, cells, at, delay, frames)[f] = cells[x]
    BY DEF ReadBlock
  <1> HIDE DEF x
  <1>7. cells[x] = Past(now - (delay - f))
    BY <1>1, <1>3, <1>5, CellShows DEF Inv
  <1>8. now - (delay - f) = now + f - delay
    BY LineFacts DEF Inv
  <1> QED
    BY <1>1, <1>2, <1>3, <1>6, <1>7, <1>8

(* A fractional read `offset` frames ahead of the writes shows the samples *)
(* the interpolator would find at that frame.                              *)
LEMMA PointsShow ==
  ASSUME Inv, line.interpolation # "fixed", NEW base \in line.bases, NEW offset \in Nat,
         offset < NewestLookback(base), NEW j \in DOMAIN Points(base, offset)
  PROVE  /\ NewestLookback(base) \in Nat
         /\ j \in Nat
         /\ Points(base, offset)[j] = Past(now + offset - (NewestLookback(base) + j))
  <1>1. PICK ring \in Nat \ {0} : ring = line.ring
    BY LineFacts DEF Inv
  <1>2. PICK at \in 0 .. ring - 1 : at = position
    BY <1>1, LineFacts DEF Inv
  <1>3. PICK b \in Nat : b = base /\ b >= 2 /\ b + 2 <= ring
    BY <1>1, LineFacts DEF Inv
  <1>4. now \in Nat
    BY LineFacts DEF Inv
  <1>5. CASE line.interpolation = "lagrange3"
    <2>1. /\ NewestLookback(base) = b - 1
          /\ Points(base, offset) = LagrangePoints(ring, cells, at + offset, b)
      BY <1>1, <1>2, <1>3, <1>5 DEF NewestLookback, Points
    <2>2. j \in 0 .. 3
      BY <2>1 DEF LagrangePoints
    <2>3. PICK k \in 0 .. 3 : k = j
      BY <2>2
    <2>4. offset < b - 1 /\ b + 2 <= ring
      BY <1>3, <2>1
    <2> DEFINE cell == LagrangeCells(ring, at + offset, b)
               x == cell[k]
    <2>5. x \in 0 .. ring - 1 /\ CellAge(ring, at, x) = b - 1 + k - offset
      <3>1. \A i \in 0 .. 3 : /\ cell[i] \in 0 .. ring - 1
                             /\ CellAge(ring, at, cell[i]) = b - 1 + i - offset
        BY <2>4, LagrangeCellsAge
      <3> QED
        BY <3>1
    <2>6. LagrangePoints(ring, cells, at + offset, b)[k] = cells[x]
      BY DEF LagrangePoints
    <2> HIDE DEF x
    <2>7. cells[x] = Past(now - (b - 1 + k - offset))
      BY <1>1, <1>2, <2>5, CellShows DEF Inv
    <2>8. now - (b - 1 + k - offset) = now + offset - (b - 1 + k)
      BY <1>4
    <2> QED
      BY <1>3, <2>1, <2>3, <2>6, <2>7, <2>8
  <1>6. CASE line.interpolation # "lagrange3"
    <2>1. /\ NewestLookback(base) = b
          /\ Points(base, offset) = AdjacentPoints(ring, cells, at + offset, b)
      BY <1>1, <1>2, <1>3, <1>6 DEF NewestLookback, Points
    <2>2. j \in 0 .. 1
      BY <2>1 DEF AdjacentPoints
    <2>3. PICK k \in 0 .. 1 : k = j
      BY <2>2
    <2>4. offset < b /\ b + 1 <= ring
      BY <1>3, <2>1
    <2> DEFINE cell == AdjacentCells(ring, at + offset, b)
               x == cell[k]
    <2>5. x \in 0 .. ring - 1 /\ CellAge(ring, at, x) = b + k - offset
      <3>1. \A i \in 0 .. 1 : /\ cell[i] \in 0 .. ring - 1
                             /\ CellAge(ring, at, cell[i]) = b + i - offset
        BY <2>4, AdjacentCellsAge
      <3> QED
        BY <3>1
    <2>6. AdjacentPoints(ring, cells, at + offset, b)[k] = cells[x]
      BY DEF AdjacentPoints
    <2> HIDE DEF x
    <2>7. cells[x] = Past(now - (b + k - offset))
      BY <1>1, <1>2, <2>5, CellShows DEF Inv
    <2>8. now - (b + k - offset) = now + offset - (b + k)
      BY <1>4
    <2> QED
      BY <1>3, <2>1, <2>3, <2>6, <2>7, <2>8
  <1> QED
    BY <1>5, <1>6

----------------------------------------------------------------------------
(* Each operation keeps Inv and makes exactly the reads HeardExact demands.*)

LEMMA ReadThenWriteExact ==
  ASSUME Inv, NEW value \in Sample, ReadThenWrite(value)
  PROVE  Inv' /\ HeardExact'
  <1> DEFINE input == [f \in 0 .. 0 |-> value]
             sample == cells[ReadPosition(line.ring, position, line.delay)]
             read == [f \in 0 .. 0 |-> AsPoint(sample)]
  <1>1. FrameWrite(value) /\ Record(1, input, FixedNewest(1), read)
    BY DEF ReadThenWrite
  <1>2. Inv'
    BY <1>1, FrameWriteHolds
  <1>3. PICK frames \in Nat \ {0} : frames = 1
    OBVIOUS
  <1>4. input \in [0 .. frames - 1 -> Sample]
    BY <1>3
  <1>5. sample = Past(now - line.delay)
    <2>1. /\ line.ring \in Nat \ {0} /\ line.delay \in 1 .. line.ring
          /\ position \in 0 .. line.ring - 1
      BY LineFacts DEF Inv
    <2> DEFINE x == ReadPosition(line.ring, position, line.delay)
    <2>2. x \in 0 .. line.ring - 1 /\ CellAge(line.ring, position, x) = line.delay
      BY <2>1, ReadPositionAge
    <2> QED
      BY <2>2, CellShows DEF Inv
  <1>6. ExactRead(frames, input, FixedNewest(frames), read)
    <2> SUFFICES ASSUME NEW f \in 0 .. frames - 1, NEW j \in DOMAIN read[f]
                 PROVE  \E a \in Nat :
                          /\ a = FixedNewest(frames)[f] + j
                          /\ read[f][j] = IF a <= f THEN input[f - a] ELSE Past(now + f - a)
      BY DEF ExactRead
    <2>1. f = 0
      BY <1>3
    <2>2. j = 0 /\ read[f][j] = sample
      BY <2>1 DEF AsPoint
    <2>3. FixedNewest(frames)[f] = line.delay
      BY DEF FixedNewest
    <2>4. line.delay \in Nat /\ line.delay > 0 /\ now \in Nat
      BY LineFacts DEF Inv
    <2>5. now + f - line.delay = now - line.delay
      BY <2>1, <2>4
    <2> HIDE DEF read, sample, input
    <2> QED
      BY <1>5, <2>1, <2>2, <2>3, <2>4, <2>5
  <1>7. Record(frames, input, FixedNewest(frames), read)
    BY <1>1, <1>3
  <1> HIDE DEF input, read
  <1>8. HeardExact'
    BY <1>4, <1>6, <1>7, HeardStep DEF Inv
  <1> QED
    BY <1>2, <1>8

(* delayBlock() is exact for chunks of any length: older than the chunk    *)
(* comes from the ring, the rest from the input.                           *)
LEMMA DelayBlockExact ==
  ASSUME Inv, NEW frames \in Nat \ {0}, NEW input \in [0 .. frames - 1 -> Sample],
         DelayBlock(frames, input)
  PROVE  Inv' /\ HeardExact'
  <1> DEFINE read == [f \in 0 .. frames - 1 |-> AsPoint(Delayed(frames, input)[f])]
  <1>1. BlockWrite(frames, input) /\ Record(frames, input, FixedNewest(frames), read)
    BY DEF DelayBlock
  <1>2. Inv'
    BY <1>1, BlockWriteHolds
  <1>3. line.delay \in Nat /\ line.delay > 0 /\ now \in Nat
    BY LineFacts DEF Inv
  <1>4. ASSUME NEW f \in 0 .. frames - 1
        PROVE  Delayed(frames, input)[f] = IF line.delay <= f THEN input[f - line.delay]
                                           ELSE Past(now + f - line.delay)
    <2> DEFINE fromRing == Minimum(frames, line.delay)
    <2>1. Delayed(frames, input)[f] =
            IF f < fromRing
            THEN ReadBlock(line.ring, cells, position, line.delay, fromRing)[f]
            ELSE input[f - line.delay]
      BY DEF Delayed, DelayedBlock
    <2>2. fromRing = IF frames <= line.delay THEN frames ELSE line.delay
      BY DEF Minimum
    <2> HIDE DEF fromRing
    <2>3. CASE f < fromRing
      <3>1. fromRing \in 0 .. line.delay /\ f \in 0 .. fromRing - 1 /\ ~(line.delay <= f)
        BY <1>3, <2>2, <2>3
      <3> QED
        BY <2>1, <2>3, <3>1, ReadBlockShows
    <2>4. CASE ~(f < fromRing)
      <3>1. line.delay <= f
        BY <1>3, <2>2, <2>4
      <3> QED
        BY <2>1, <2>4, <3>1
    <2> QED
      BY <2>3, <2>4
  <1>5. ExactRead(frames, input, FixedNewest(frames), read)
    <2> SUFFICES ASSUME NEW f \in 0 .. frames - 1, NEW j \in DOMAIN read[f]
                 PROVE  \E a \in Nat :
                          /\ a = FixedNewest(frames)[f] + j
                          /\ read[f][j] = IF a <= f THEN input[f - a] ELSE Past(now + f - a)
      BY DEF ExactRead
    <2>1. j = 0 /\ read[f][j] = Delayed(frames, input)[f]
      BY DEF AsPoint
    <2>2. FixedNewest(frames)[f] = line.delay
      BY DEF FixedNewest
    <2> HIDE DEF read
    <2> QED
      BY <1>3, <1>4, <2>1, <2>2
  <1> HIDE DEF read
  <1>6. HeardExact'
    BY <1>1, <1>5, HeardStep DEF Inv
  <1> QED
    BY <1>2, <1>6

LEMMA ReadBlockThenWriteExact ==
  ASSUME Inv, NEW frames \in Nat \ {0}, NEW input \in [0 .. frames - 1 -> Sample],
         ReadBlockThenWrite(frames, input)
  PROVE  Inv' /\ HeardExact'
  <1> DEFINE shown == ReadBlock(line.ring, cells, position, line.delay, frames)
             read == [f \in 0 .. frames - 1 |-> AsPoint(shown[f])]
  <1>1. /\ BlockWrite(frames, input)
        /\ Record(frames, input, FixedNewest(frames), read)
        /\ frames <= line.delay
    BY DEF ReadBlockThenWrite
  <1>2. Inv'
    BY <1>1, BlockWriteHolds
  <1>3. line.delay \in Nat /\ now \in Nat /\ frames \in 0 .. line.delay
    BY <1>1, LineFacts DEF Inv
  <1>4. \A f \in 0 .. frames - 1 : shown[f] = Past(now + f - line.delay)
    BY <1>3, ReadBlockShows
  <1>5. ExactRead(frames, input, FixedNewest(frames), read)
    <2> SUFFICES ASSUME NEW f \in 0 .. frames - 1, NEW j \in DOMAIN read[f]
                 PROVE  \E a \in Nat :
                          /\ a = FixedNewest(frames)[f] + j
                          /\ read[f][j] = IF a <= f THEN input[f - a] ELSE Past(now + f - a)
      BY DEF ExactRead
    <2>1. j = 0 /\ read[f][j] = shown[f]
      BY DEF AsPoint
    <2>2. FixedNewest(frames)[f] = line.delay
      BY DEF FixedNewest
    <2>3. ~(line.delay <= f)
      BY <1>3
    <2> HIDE DEF read, shown
    <2> QED
      BY <1>3, <1>4, <2>1, <2>2, <2>3
  <1> HIDE DEF read
  <1>6. HeardExact'
    BY <1>1, <1>5, HeardStep DEF Inv
  <1> QED
    BY <1>2, <1>6

LEMMA SwayThenWriteExact ==
  ASSUME Inv, NEW value \in Sample, NEW base \in line.bases, SwayThenWrite(value, base)
  PROVE  Inv' /\ HeardExact'
  <1> DEFINE input == [f \in 0 .. 0 |-> value]
             newest == [f \in 0 .. 0 |-> NewestLookback(base)]
             read == [f \in 0 .. 0 |-> Points(base, 0)]
  <1>1. FrameWrite(value) /\ Record(1, input, newest, read) /\ line.interpolation # "fixed"
    BY DEF SwayThenWrite
  <1>2. Inv'
    BY <1>1, FrameWriteHolds
  <1>3. PICK frames \in Nat \ {0} : frames = 1
    OBVIOUS
  <1>4. input \in [0 .. frames - 1 -> Sample] /\ Record(frames, input, newest, read)
    BY <1>1, <1>3
  <1>5. 0 < NewestLookback(base) /\ now \in Nat
    BY <1>1, LineFacts DEF Inv, NewestLookback
  <1>6. ExactRead(frames, input, newest, read)
    <2> SUFFICES ASSUME NEW f \in 0 .. frames - 1, NEW j \in DOMAIN read[f]
                 PROVE  \E a \in Nat :
                          /\ a = newest[f] + j
                          /\ read[f][j] = IF a <= f THEN input[f - a] ELSE Past(now + f - a)
      BY DEF ExactRead
    <2>1. f = 0
      BY <1>3
    <2>2. /\ newest[f] = NewestLookback(base) /\ read[f] = Points(base, f)
      BY <2>1
    <2>3. /\ NewestLookback(base) \in Nat
          /\ j \in Nat
          /\ Points(base, f)[j] = Past(now + f - (NewestLookback(base) + j))
      BY <1>1, <1>5, <2>1, <2>2, PointsShow
    <2>4. ~(NewestLookback(base) + j <= f)
      BY <1>5, <2>1, <2>3
    <2> HIDE DEF read, newest, input
    <2> QED
      BY <2>2, <2>3, <2>4
  <1> HIDE DEF input, newest, read
  <1>7. HeardExact'
    BY <1>4, <1>6, HeardStep DEF Inv
  <1> QED
    BY <1>2, <1>7

(* Reading a whole chunk ahead of the writes is exact as long as no frame  *)
(* looks back into the chunk itself.                                       *)
LEMMA SwayBlockThenWriteExact ==
  ASSUME Inv, NEW frames \in Nat \ {0}, NEW input \in [0 .. frames - 1 -> Sample],
         NEW bases \in [0 .. frames - 1 -> line.bases],
         SwayBlockThenWrite(frames, input, bases)
  PROVE  Inv' /\ HeardExact'
  <1> DEFINE newest == [f \in 0 .. frames - 1 |-> NewestLookback(bases[f])]
             read == [f \in 0 .. frames - 1 |-> Points(bases[f], f)]
  <1>1. /\ BlockWrite(frames, input)
        /\ Record(frames, input, newest, read)
        /\ line.interpolation # "fixed"
        /\ \A f \in 0 .. frames - 1 : f < NewestLookback(bases[f])
    BY DEF SwayBlockThenWrite
  <1>2. Inv'
    BY <1>1, BlockWriteHolds
  <1>3. now \in Nat
    BY LineFacts DEF Inv
  <1>4. ExactRead(frames, input, newest, read)
    <2> SUFFICES ASSUME NEW f \in 0 .. frames - 1, NEW j \in DOMAIN read[f]
                 PROVE  \E a \in Nat :
                          /\ a = newest[f] + j
                          /\ read[f][j] = IF a <= f THEN input[f - a] ELSE Past(now + f - a)
      BY DEF ExactRead
    <2>1. PICK base \in line.bases : base = bases[f]
      OBVIOUS
    <2>2. newest[f] = NewestLookback(base) /\ read[f] = Points(base, f)
      BY <2>1
    <2>3. f < NewestLookback(base)
      BY <1>1, <2>1
    <2>4. /\ NewestLookback(base) \in Nat
          /\ j \in Nat
          /\ Points(base, f)[j] = Past(now + f - (NewestLookback(base) + j))
      BY <1>1, <2>2, <2>3, PointsShow
    <2>5. ~(NewestLookback(base) + j <= f)
      BY <2>3, <2>4
    <2> HIDE DEF read, newest
    <2> QED
      BY <2>2, <2>4, <2>5
  <1> HIDE DEF newest, read
  <1>5. HeardExact'
    BY <1>1, <1>4, HeardStep DEF Inv
  <1> QED
    BY <1>2, <1>5

----------------------------------------------------------------------------
LEMMA InitHolds == Init => Inv /\ HeardExact
  <1> SUFFICES ASSUME Init PROVE Inv /\ HeardExact
    OBVIOUS
  <1> USE DEF Init
  <1>1. IsLine(line) /\ Zero \in Sample
    BY DelayLineAssumption
  <1>2. line.ring \in Nat \ {0}
    BY <1>1 DEF IsLine
  <1>3. TypeOK
    <2>1. 0 \in 0 .. line.ring - 1
      BY <1>2
    <2>2. written \in [0 .. now - 1 -> Sample]
      <3>1. 0 .. now - 1 = {}
        OBVIOUS
      <3> QED
        BY <3>1
    <2> QED
      BY <1>1, <2>1, <2>2 DEF TypeOK, Ring
  <1>4. RingHoldsHistory
    <2> SUFFICES ASSUME NEW i \in 0 .. line.ring - 1
                 PROVE  Zero = Past(now - CellAge(line.ring, position, i))
      BY DEF RingHoldsHistory, Ring
    <2>1. CellAge(line.ring, position, i) \in 1 .. line.ring
      BY <1>2, CellAgeRange
    <2>2. ~(now - CellAge(line.ring, position, i) >= 0)
      BY <2>1
    <2> QED
      BY <2>2 DEF Past
  <1>5. HeardExact
    BY DEF HeardExact
  <1> QED
    BY <1>3, <1>4, <1>5 DEF Inv

LEMMA NextHolds == Inv /\ HeardExact /\ [Next]_vars => Inv' /\ HeardExact'
  <1> SUFFICES ASSUME Inv, HeardExact, [Next]_vars
               PROVE  Inv' /\ HeardExact'
    OBVIOUS
  <1>1. CASE \E value \in Sample : ReadThenWrite(value)
    BY <1>1, ReadThenWriteExact
  <1>2. CASE \E value \in Sample, base \in line.bases : SwayThenWrite(value, base)
    BY <1>2, SwayThenWriteExact
  <1>3. ASSUME NEW frames \in 1 .. MaxChunk, NEW input \in [0 .. frames - 1 -> Sample],
               \/ DelayBlock(frames, input)
               \/ ReadBlockThenWrite(frames, input)
               \/ \E bases \in [0 .. frames - 1 -> line.bases] :
                    SwayBlockThenWrite(frames, input, bases)
        PROVE  Inv' /\ HeardExact'
    <2>1. frames \in Nat \ {0}
      BY DelayLineAssumption
    <2>2. CASE DelayBlock(frames, input)
      BY <2>1, <2>2, DelayBlockExact
    <2>3. CASE ReadBlockThenWrite(frames, input)
      BY <2>1, <2>3, ReadBlockThenWriteExact
    <2>4. CASE \E bases \in [0 .. frames - 1 -> line.bases] :
                 SwayBlockThenWrite(frames, input, bases)
      BY <2>1, <2>4, SwayBlockThenWriteExact
    <2> QED
      BY <1>3, <2>2, <2>3, <2>4
  <1>4. CASE UNCHANGED vars
    <2>1. /\ line' = line /\ cells' = cells /\ position' = position /\ now' = now
          /\ written' = written /\ heard' = heard
      BY <1>4 DEF vars
    <2>2. TypeOK'
      BY <2>1 DEF Inv, TypeOK, Ring
    <2>3. RingHoldsHistory'
      BY <2>1 DEF Inv, RingHoldsHistory, Ring, Past
    <2>4. HeardExact'
      BY <2>1 DEF HeardExact, Past
    <2> QED
      BY <2>2, <2>3, <2>4 DEF Inv
  <1> QED
    BY <1>1, <1>2, <1>3, <1>4 DEF Next

(* The line's state has its types: no operation leaves the position        *)
(* outside the ring or a cell without a sample.                            *)
THEOREM TypeCorrect == Spec => []TypeOK
  <1>1. Inv => TypeOK
    BY DEF Inv
  <1> QED
    BY InitHolds, NextHolds, <1>1, PTL DEF Spec

(* The ring always holds exactly the last `ring` samples, whatever mix of  *)
(* write() and writeBlock() put them there.                                *)
THEOREM RingCorrect == Spec => []RingHoldsHistory
  <1>1. Inv => RingHoldsHistory
    BY DEF Inv
  <1> QED
    BY InitHolds, NextHolds, <1>1, PTL DEF Spec

(* Every read of every operation is the one a frame-by-frame line would    *)
(* have made.                                                              *)
THEOREM ReadsCorrect == Spec => []HeardExact
  BY InitHolds, NextHolds, PTL DEF Spec

=============================================================================
