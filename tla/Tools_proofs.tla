------------------------------ MODULE Tools_proofs ------------------------------
(***************************************************************************)
(* Proofs about the tools that start the renderer again and again over one *)
(* folder.  First the experiment commands, for any catalogs and samples,   *)
(* any number of points, and any kills, failures and edits; then           *)
(* render_folder.py, for any raw folder, any names of outputs, and any     *)
(* number of runs that fail or die wherever they may.                      *)
(***************************************************************************)
EXTENDS ExperimentSweep, FolderRender, SequenceTheorems, FiniteSetTheorems,
        WellFoundedInduction, TLAPS

(* What each file is ...                                                   *)
FilesKnown ==
  \A f \in DOMAIN files :
    /\ f = <<f[1], f[2]>>
    /\ f[2] \in {"sample", "impulse", "analysis"} => files[f] \in Renders
    /\ f[2] \in {"benchmark", "benchmark-32"} => files[f] \in Benchmarks \cup {Truncated}
    /\ f[2] = "determinism" => files[f] \in Renders \cup {Truncated}
    /\ f[2] \in {"request", "repeat"} => files[f] \in Requests

InputsKnown ==
  /\ tool \in Tools /\ catalog \in Catalogs(tool) /\ sample \in Samples
  /\ Points = Plan(tool, catalog)

InPoint == In("points") /\ point <= Len(Points)

(* ... where a command is, within the points and within a step ...         *)
PositionKnown ==
  /\ at \in Nat /\ point \in Nat \ {0} /\ step \in Nat \ {0}
  /\ ~InPoint => step = 1 /\ phase = "check"
  /\ phase # "check" => InStep

(* ... what the steps before have made ...                                 *)
Made ==
  InPoint => \A k \in 1 .. step - 1 : k \in DOMAIN Steps(Current) =>
    Has(Current.directory, Steps(Current)[k].makes)

(* ... and how far the step in progress has come with its file.            *)
InTheStep ==
  InStep /\ phase # "check" =>
    /\ ~Has(Current.directory, Target) \/ File(Current.directory, Target) = Truncated
    /\ \/ phase = "do"
       \/ phase = "render" /\ Doing("render") /\ Has(Current.directory, "request")
       \/ phase = "write" /\ Doing("benchmark")
       \/ phase \in {"compare", "write", "written"} /\ Doing("repeat")
    /\ phase \in {"do", "render"} => ~Has(Current.directory, Target)

FilesSound == FilesKnown /\ PointCoherent
Place == PositionKnown /\ Made /\ InTheStep
Inv == InputsKnown /\ FilesSound /\ Place

----------------------------------------------------------------------------
(* Short sequences.                                                        *)
LEMMA FourByAppend ==
  ASSUME NEW S, NEW a \in S, NEW b \in S, NEW c \in S, NEW d \in S
  PROVE  Append(<<a, b, c>>, d) = <<a, b, c, d>>
<1> DEFINE s == Append(<<a, b, c>>, d)
<1>1. <<a, b, c>> \in Seq(S) /\ Len(<<a, b, c>>) = 3 /\ <<a, b, c, d>> \in Seq(S)
  OBVIOUS
<1>2. s \in Seq(S) /\ Len(s) = 4
  BY <1>1
<1>3. s[1] = a /\ s[2] = b /\ s[3] = c /\ s[4] = d
  BY <1>1
<1>4. Len(s) = Len(<<a, b, c, d>>) /\ \A i \in 1 .. Len(s) : s[i] = <<a, b, c, d>>[i]
  BY <1>2, <1>3
<1> QED BY <1>1, <1>2, <1>4, SeqEqual

LEMMA FourByConcatenation ==
  ASSUME NEW S, NEW a \in S, NEW b \in S, NEW c \in S, NEW d \in S
  PROVE  <<a, b, c>> \o <<d>> = <<a, b, c, d>>
<1> DEFINE s == <<a, b, c>> \o <<d>>
<1>1. /\ <<a, b, c>> \in Seq(S) /\ Len(<<a, b, c>>) = 3
      /\ <<d>> \in Seq(S) /\ Len(<<d>>) = 1 /\ <<a, b, c, d>> \in Seq(S)
  OBVIOUS
<1>2. s \in Seq(S) /\ Len(s) = 4
  BY <1>1
<1>3. s[1] = a /\ s[2] = b /\ s[3] = c /\ s[4] = d
  BY <1>1
<1>4. Len(s) = Len(<<a, b, c, d>>) /\ \A i \in 1 .. Len(s) : s[i] = <<a, b, c, d>>[i]
  BY <1>2, <1>3
<1> QED BY <1>1, <1>2, <1>4, SeqEqual

(* What the steps of a point make, in their order.                         *)
InOrder(steps, k) ==
  LET makes(i) == steps[i].makes IN
  /\ steps[k].does = "render" => k = 1 /\ makes(k) = "sample"
  /\ steps[k].does = "render resolved" =>
       k = 2 /\ makes(k) = "impulse" /\ makes(1) = "sample"
  /\ steps[k].does = "analyze" =>
       /\ makes(k) = "analysis" /\ makes(1) = "sample"
       /\ IF tool = "diffusion" THEN k = 2 ELSE k = 3 /\ makes(2) = "impulse"
  /\ steps[k].does = "benchmark" =>
       k > 1 /\ makes(k) \in {"benchmark", "benchmark-32"} /\ makes(1) = "sample"
  /\ steps[k].does = "repeat" =>
       k = 4 /\ makes(k) = "determinism" /\ makes(1) = "sample" /\ makes(2) = "impulse"
  /\ steps[k].does \in {"render", "render resolved", "analyze", "benchmark", "repeat"}

MakesInOrder(steps) ==
  /\ Len(steps) \in Nat /\ DOMAIN steps = 1 .. Len(steps)
  /\ \A k \in DOMAIN steps : InOrder(steps, k)

LEMMA ElementsOfFour ==
  ASSUME NEW a, NEW b, NEW c, NEW d, NEW s, s = <<a, b, c, d>>
  PROVE  /\ Len(s) = 4 /\ DOMAIN s = {1, 2, 3, 4}
         /\ s[1] = a /\ s[2] = b /\ s[3] = c /\ s[4] = d
  OBVIOUS

LEMMA ElementsOfThree ==
  ASSUME NEW a, NEW b, NEW c, NEW s, s = <<a, b, c>>
  PROVE  /\ Len(s) = 3 /\ DOMAIN s = {1, 2, 3}
         /\ s[1] = a /\ s[2] = b /\ s[3] = c
  OBVIOUS

(* The steps there are.                                                    *)
RenderStep == [makes |-> "sample", does |-> "render"]
ImpulseStep == [makes |-> "impulse", does |-> "render resolved"]
AnalysisStep == [makes |-> "analysis", does |-> "analyze"]
BenchmarkStep == [makes |-> "benchmark", does |-> "benchmark"]
RepeatStep == [makes |-> "determinism", does |-> "repeat"]
OtherBenchmark == [makes |-> "benchmark-32", does |-> "benchmark"]
AllSteps == {RenderStep, ImpulseStep, AnalysisStep, BenchmarkStep, RepeatStep, OtherBenchmark}

LEMMA StepsListed ==
  ASSUME tool \in Tools, NEW p
  PROVE  /\ tool \notin {"spatial", "diffusion"} =>
              Steps(p) = <<RenderStep, ImpulseStep, AnalysisStep, BenchmarkStep>>
         /\ tool = "spatial" =>
              Steps(p) = <<RenderStep, ImpulseStep, AnalysisStep, RepeatStep>>
         /\ tool = "diffusion" /\ ~p.listening =>
              \/ Steps(p) = <<RenderStep, AnalysisStep, BenchmarkStep>>
              \/ Steps(p) = <<RenderStep, AnalysisStep, BenchmarkStep, OtherBenchmark>>
         /\ tool = "diffusion" /\ p.listening =>
              Steps(p) = <<RenderStep>> \/ Steps(p) = << >>
<1>1. tool \in {"tail", "damping", "modulation", "spatial", "diffusion"}
  BY ExperimentSweepAssumption
<1>2. AllSteps = {RenderStep, ImpulseStep, AnalysisStep, BenchmarkStep, RepeatStep, OtherBenchmark}
  BY DEF AllSteps
<1>3. Append(<<RenderStep, ImpulseStep, AnalysisStep>>, BenchmarkStep)
        = <<RenderStep, ImpulseStep, AnalysisStep, BenchmarkStep>>
  BY <1>2, FourByAppend
<1>4. Append(<<RenderStep, ImpulseStep, AnalysisStep>>, RepeatStep)
        = <<RenderStep, ImpulseStep, AnalysisStep, RepeatStep>>
  BY <1>2, FourByAppend
<1>5. <<RenderStep, AnalysisStep, BenchmarkStep>> \o <<OtherBenchmark>>
        = <<RenderStep, AnalysisStep, BenchmarkStep, OtherBenchmark>>
  BY <1>2, FourByConcatenation
<1>6. <<RenderStep, AnalysisStep, BenchmarkStep>> \o << >>
        = <<RenderStep, AnalysisStep, BenchmarkStep>>
  BY <1>2
<1>7. RenderedThenAnalyzed = <<RenderStep, ImpulseStep, AnalysisStep>>
  BY DEF RenderedThenAnalyzed, RenderStep, ImpulseStep, AnalysisStep
<1>8. /\ TailSteps = Append(RenderedThenAnalyzed, BenchmarkStep)
      /\ DampingSteps = TailSteps /\ ModulationSteps = TailSteps
      /\ SpatialSteps = Append(RenderedThenAnalyzed, RepeatStep)
  BY DEF TailSteps, DampingSteps, ModulationSteps, SpatialSteps, BenchmarkStep, RepeatStep
<1>9. tool \notin {"spatial", "diffusion"} =>
        Steps(p) = <<RenderStep, ImpulseStep, AnalysisStep, BenchmarkStep>>
  <2>1. tool \notin {"spatial", "diffusion"} => Steps(p) \in {TailSteps, DampingSteps, ModulationSteps}
    BY <1>1 DEF Steps
  <2> QED BY <2>1, <1>3, <1>7, <1>8
<1>10. tool = "spatial" => Steps(p) = <<RenderStep, ImpulseStep, AnalysisStep, RepeatStep>>
  <2>1. tool = "spatial" => Steps(p) = SpatialSteps
    BY DEF Steps
  <2> QED BY <2>1, <1>4, <1>7, <1>8
<1>11. tool = "diffusion" /\ ~p.listening =>
         \/ Steps(p) = <<RenderStep, AnalysisStep, BenchmarkStep>>
         \/ Steps(p) = <<RenderStep, AnalysisStep, BenchmarkStep, OtherBenchmark>>
  <2>1. tool = "diffusion" /\ ~p.listening => Steps(p) = QuantitativeSteps(p.name)
    BY DEF Steps
  <2>2. \/ QuantitativeSteps(p.name) = <<RenderStep, AnalysisStep, BenchmarkStep>> \o << >>
        \/ QuantitativeSteps(p.name) = <<RenderStep, AnalysisStep, BenchmarkStep>> \o <<OtherBenchmark>>
    BY DEF QuantitativeSteps, RenderStep, AnalysisStep, BenchmarkStep, OtherBenchmark
  <2> QED BY <2>1, <2>2, <1>5, <1>6
<1>12. tool = "diffusion" /\ p.listening => Steps(p) = <<RenderStep>> \/ Steps(p) = << >>
  <2>1. tool = "diffusion" /\ p.listening => Steps(p) = ListeningSteps(sample.content # "absent")
    BY DEF Steps
  <2>2. \/ ListeningSteps(sample.content # "absent") = <<RenderStep>>
        \/ ListeningSteps(sample.content # "absent") = << >>
    BY DEF ListeningSteps, RenderStep
  <2> QED BY <2>1, <2>2
<1> QED BY <1>9, <1>10, <1>11, <1>12

LEMMA StepsKnown ==
  ASSUME tool \in Tools, NEW p
  PROVE  MakesInOrder(Steps(p))
<1> DEFINE s == Steps(p)
<1> HIDE DEF s
<1>1. CASE s = <<RenderStep, ImpulseStep, AnalysisStep, BenchmarkStep>> /\ tool # "diffusion"
  <2>1. Len(s) = 4 /\ DOMAIN s = {1, 2, 3, 4} /\ tool # "diffusion"
    BY <1>1, ElementsOfFour
  <2>2. /\ s[1].makes = "sample" /\ s[1].does = "render"
        /\ s[2].makes = "impulse" /\ s[2].does = "render resolved"
        /\ s[3].makes = "analysis" /\ s[3].does = "analyze"
        /\ s[4].makes = "benchmark" /\ s[4].does = "benchmark"
    BY <1>1, ElementsOfFour DEF RenderStep, ImpulseStep, AnalysisStep, BenchmarkStep
  <2>3. InOrder(s, 1)
    BY <2>1, <2>2 DEF InOrder
  <2>4. InOrder(s, 2)
    BY <2>1, <2>2 DEF InOrder
  <2>5. InOrder(s, 3)
    BY <2>1, <2>2 DEF InOrder
  <2>6. InOrder(s, 4)
    <3>1. s[4].makes = "benchmark" /\ s[4].does = "benchmark" /\ s[1].makes = "sample"
      BY <2>2
    <3> QED BY <3>1 DEF InOrder
  <2>7. DOMAIN s = 1 .. Len(s) /\ Len(s) \in Nat
    BY <2>1
  <2>8. \A k \in DOMAIN s : InOrder(s, k)
    BY <2>1, <2>3, <2>4, <2>5, <2>6
  <2>9. MakesInOrder(s)
    BY <2>7, <2>8 DEF MakesInOrder
  <2> QED BY <2>9 DEF s
<1>2. CASE s = <<RenderStep, ImpulseStep, AnalysisStep, RepeatStep>> /\ tool # "diffusion"
  <2>1. Len(s) = 4 /\ DOMAIN s = {1, 2, 3, 4} /\ tool # "diffusion"
    BY <1>2, ElementsOfFour
  <2>2. /\ s[1].makes = "sample" /\ s[1].does = "render"
        /\ s[2].makes = "impulse" /\ s[2].does = "render resolved"
        /\ s[3].makes = "analysis" /\ s[3].does = "analyze"
        /\ s[4].makes = "determinism" /\ s[4].does = "repeat"
    BY <1>2, ElementsOfFour DEF RenderStep, ImpulseStep, AnalysisStep, RepeatStep
  <2>3. InOrder(s, 1)
    BY <2>1, <2>2 DEF InOrder
  <2>4. InOrder(s, 2)
    BY <2>1, <2>2 DEF InOrder
  <2>5. InOrder(s, 3)
    BY <2>1, <2>2 DEF InOrder
  <2>6. InOrder(s, 4)
    BY <2>1, <2>2 DEF InOrder
  <2>7. DOMAIN s = 1 .. Len(s) /\ Len(s) \in Nat
    BY <2>1
  <2>8. \A k \in DOMAIN s : InOrder(s, k)
    BY <2>1, <2>3, <2>4, <2>5, <2>6
  <2>9. MakesInOrder(s)
    BY <2>7, <2>8 DEF MakesInOrder
  <2> QED BY <2>9 DEF s
<1>3. CASE s = <<RenderStep, AnalysisStep, BenchmarkStep>> /\ tool = "diffusion"
  <2>1. Len(s) = 3 /\ DOMAIN s = {1, 2, 3} /\ tool = "diffusion"
    BY <1>3, ElementsOfThree
  <2>2. /\ s[1].makes = "sample" /\ s[1].does = "render"
        /\ s[2].makes = "analysis" /\ s[2].does = "analyze"
        /\ s[3].makes = "benchmark" /\ s[3].does = "benchmark"
    BY <1>3, ElementsOfThree DEF RenderStep, AnalysisStep, BenchmarkStep
  <2>3. InOrder(s, 1)
    BY <2>1, <2>2 DEF InOrder
  <2>4. InOrder(s, 2)
    BY <2>1, <2>2 DEF InOrder
  <2>5. InOrder(s, 3)
    BY <2>1, <2>2 DEF InOrder
  <2>6. DOMAIN s = 1 .. Len(s) /\ Len(s) \in Nat
    BY <2>1
  <2>7. \A k \in DOMAIN s : InOrder(s, k)
    BY <2>1, <2>3, <2>4, <2>5
  <2>9. MakesInOrder(s)
    BY <2>6, <2>7 DEF MakesInOrder
  <2> QED BY <2>9 DEF s
<1>4. CASE s = <<RenderStep, AnalysisStep, BenchmarkStep, OtherBenchmark>> /\ tool = "diffusion"
  <2>1. Len(s) = 4 /\ DOMAIN s = {1, 2, 3, 4} /\ tool = "diffusion"
    BY <1>4, ElementsOfFour
  <2>2. /\ s[1].makes = "sample" /\ s[1].does = "render"
        /\ s[2].makes = "analysis" /\ s[2].does = "analyze"
        /\ s[3].makes = "benchmark" /\ s[3].does = "benchmark"
        /\ s[4].makes = "benchmark-32" /\ s[4].does = "benchmark"
    BY <1>4, ElementsOfFour DEF RenderStep, AnalysisStep, BenchmarkStep, OtherBenchmark
  <2>3. InOrder(s, 1)
    BY <2>1, <2>2 DEF InOrder
  <2>4. InOrder(s, 2)
    BY <2>1, <2>2 DEF InOrder
  <2>5. InOrder(s, 3)
    BY <2>1, <2>2 DEF InOrder
  <2>6. InOrder(s, 4)
    BY <2>1, <2>2 DEF InOrder
  <2>7. DOMAIN s = 1 .. Len(s) /\ Len(s) \in Nat
    BY <2>1
  <2>8. \A k \in DOMAIN s : InOrder(s, k)
    BY <2>1, <2>3, <2>4, <2>5, <2>6
  <2>9. MakesInOrder(s)
    BY <2>7, <2>8 DEF MakesInOrder
  <2> QED BY <2>9 DEF s
<1>5. CASE s = <<RenderStep>>
  <2>1. Len(s) = 1 /\ DOMAIN s = 1 .. 1 /\ s[1] = RenderStep
    BY <1>5
  <2>2. InOrder(s, 1)
    BY <2>1 DEF InOrder, RenderStep
  <2>3. \A k \in DOMAIN s : InOrder(s, k)
    BY <2>1, <2>2
  <2>9. MakesInOrder(s)
    BY <2>1, <2>3 DEF MakesInOrder
  <2> QED BY <2>9 DEF s
<1>6. CASE s = << >>
  <2>1. Len(s) = 0 /\ DOMAIN s = 1 .. 0
    BY <1>6
  <2>2. \A k \in DOMAIN s : InOrder(s, k)
    BY <2>1
  <2>9. MakesInOrder(s)
    BY <2>1, <2>2 DEF MakesInOrder
  <2> QED BY <2>9 DEF s
<1>7. MakesInOrder(s)
  BY <1>1, <1>2, <1>3, <1>4, <1>5, <1>6, StepsListed DEF s
<1> QED BY <1>7 DEF s

----------------------------------------------------------------------------
(* The points are a sequence.                                              *)
LEMMA LeastElement ==
  ASSUME NEW S \in SUBSET Nat, S # {}
  PROVE  \E x \in S : \A y \in S : x <= y
<1> DEFINE R == {ss \in Nat \X Nat : ss[1] < ss[2]}
<1>1. IsWellFoundedOn(R, Nat)
  BY NatLessThanWellFounded DEF OpToRel
<1>2. PICK x \in S : \A y \in S : <<y, x>> \notin R
  <2> HIDE DEF R
  <2> QED BY <1>1, WFMin
<1>3. \A y \in S : x <= y
  <2> SUFFICES ASSUME NEW y \in S PROVE x <= y
    OBVIOUS
  <2>1. ~(y < x)
    BY <1>2
  <2> QED BY <2>1
<1> HIDE DEF R
<1> QED BY <1>3

(* The sequences of a sequence, one after another.                         *)
LEMMA FlattenIsSequence ==
  ASSUME NEW S, NEW seqs \in Seq(Seq(S))
  PROVE  FlattenSeq(seqs) \in Seq(S)
<1> DEFINE Prefix(f, k) == f = [i \in 1 .. k |-> IF i = 1 THEN seqs[i] ELSE f[i - 1] \o seqs[i]]
           flatten == CHOOSE f : Prefix(f, Len(seqs))
           Short == {k \in 1 .. Len(seqs) : ~(\E f : Prefix(f, k))}
           Stray == {k \in 1 .. Len(seqs) : flatten[k] \notin Seq(S)}
<1>0. Len(seqs) \in Nat /\ \A i \in 1 .. Len(seqs) : seqs[i] \in Seq(S)
  OBVIOUS
<1>1. Short = {}
  <2> SUFFICES ASSUME Short # {} PROVE FALSE
    OBVIOUS
  <2>1. PICK m \in Short : \A k \in Short : m <= k
    <3> HIDE DEF Prefix
    <3>1. Short \in SUBSET Nat
      BY <1>0
    <3> HIDE DEF Short
    <3> QED BY <3>1, LeastElement
  <2>2. m \in 1 .. Len(seqs) /\ ~\E f : Prefix(f, m)
    OBVIOUS
  <2>3. CASE m = 1
    <3>1. Prefix([i \in 1 .. 1 |-> seqs[i]], 1)
      OBVIOUS
    <3> QED BY <2>2, <2>3, <3>1
  <2>4. CASE m # 1
    <3>1. m - 1 \in 1 .. Len(seqs) /\ m - 1 \notin Short
      <4> HIDE DEF Prefix
      <4>1. m - 1 \in 1 .. Len(seqs) /\ ~(m <= m - 1)
        BY <1>0, <2>2, <2>4
      <4> QED BY <4>1, <2>1
    <3>2. PICK f : Prefix(f, m - 1)
      BY <3>1
    <3> DEFINE g == [i \in 1 .. m |-> IF i = m THEN f[m - 1] \o seqs[m] ELSE f[i]]
    <3>3. \A i \in 1 .. m - 1 : g[i] = f[i]
      BY <2>2, <1>0
    <3>4. \A i \in 1 .. m - 1 : f[i] = IF i = 1 THEN seqs[i] ELSE f[i - 1] \o seqs[i]
      BY <3>2
    <3>5. \A i \in 1 .. m : g[i] = IF i = 1 THEN seqs[i] ELSE g[i - 1] \o seqs[i]
      <4> SUFFICES ASSUME NEW i \in 1 .. m
                   PROVE  g[i] = IF i = 1 THEN seqs[i] ELSE g[i - 1] \o seqs[i]
        OBVIOUS
      <4>1. CASE i = m
        <5>1. m - 1 \in 1 .. m - 1
          BY <1>0, <2>2, <2>4
        <5>2. g[m] = f[m - 1] \o seqs[m]
          BY <4>1
        <5>3. g[m - 1] = f[m - 1]
          BY <5>1, <3>3
        <5> HIDE DEF g
        <5> QED BY <4>1, <5>2, <5>3, <2>4
      <4>2. CASE i # m
        <5>1. i \in 1 .. m - 1
          BY <4>2, <1>0, <2>2
        <5>2. i # 1 => i - 1 \in 1 .. m - 1
          BY <5>1, <1>0, <2>2
        <5>3. g[i] = f[i] /\ (i # 1 => g[i - 1] = f[i - 1])
          BY <5>1, <5>2, <3>3
        <5>4. f[i] = IF i = 1 THEN seqs[i] ELSE f[i - 1] \o seqs[i]
          BY <5>1, <3>4
        <5> HIDE DEF g
        <5> QED BY <5>3, <5>4
      <4> QED BY <4>1, <4>2
    <3>6. g = [i \in 1 .. m |-> g[i]]
      OBVIOUS
    <3> HIDE DEF g
    <3>7. Prefix(g, m)
      BY <3>5, <3>6
    <3> QED BY <2>2, <3>7
  <2> QED BY <2>3, <2>4
<1>2. CASE Len(seqs) = 0
  <2>1. seqs = << >>
    BY <1>2
  <2>2. FlattenSeq(seqs) = seqs
    BY <1>2 DEF FlattenSeq
  <2>3. << >> \in Seq(S)
    OBVIOUS
  <2> QED BY <2>1, <2>2, <2>3
<1>3. CASE Len(seqs) # 0
  <2>1. Len(seqs) \in 1 .. Len(seqs)
    BY <1>0, <1>3
  <2>2. \E f : Prefix(f, Len(seqs))
    BY <1>1, <2>1
  <2>3. Prefix(flatten, Len(seqs))
    BY <2>2
  <2>4. FlattenSeq(seqs) = flatten[Len(seqs)]
    BY <1>3 DEF FlattenSeq
  <2> HIDE DEF flatten
  <2>5. \A i \in 1 .. Len(seqs) :
          flatten[i] = IF i = 1 THEN seqs[i] ELSE flatten[i - 1] \o seqs[i]
    BY <2>3
  <2>6. Stray = {}
    <3> SUFFICES ASSUME Stray # {} PROVE FALSE
      OBVIOUS
    <3>1. PICK m \in Stray : \A k \in Stray : m <= k
      <4>1. Stray \in SUBSET Nat
        BY <1>0
      <4> HIDE DEF Stray
      <4> QED BY <4>1, LeastElement
    <3>2. m \in 1 .. Len(seqs) /\ flatten[m] \notin Seq(S)
      OBVIOUS
    <3>3. m # 1
      BY <3>2, <2>5, <1>0
    <3>4. m - 1 \in 1 .. Len(seqs) /\ m - 1 \notin Stray
      BY <1>0, <3>1, <3>2, <3>3
    <3>5. flatten[m - 1] \in Seq(S) /\ seqs[m] \in Seq(S)
      BY <3>4, <3>2, <1>0
    <3>6. flatten[m] = flatten[m - 1] \o seqs[m]
      BY <3>2, <3>3, <2>5
    <3> QED BY <3>2, <3>5, <3>6
  <2> QED BY <2>1, <2>4, <2>6
<1> QED BY <1>2, <1>3

LEMMA MappedIsSequence ==
  ASSUME NEW a, a \in Seq(Range(a)), NEW S, NEW s \in [DOMAIN a -> S]
  PROVE  s \in Seq(S)
<1>1. Len(a) \in Nat /\ DOMAIN a = 1 .. Len(a)
  OBVIOUS
<1> QED BY <1>1

LEMMA SequencesJoined ==
  ASSUME NEW S, NEW s \in Seq(S), NEW T, NEW t \in Seq(T)
  PROVE  s \o t \in Seq(S \cup T)
<1>1. s \in Seq(S \cup T) /\ t \in Seq(S \cup T)
  OBVIOUS
<1> QED BY <1>1

LEMMA DiffusionPointsSequence ==
  ASSUME NEW c \in Catalogs("diffusion"), "diffusion" \in Tools, LoadsIn("diffusion", c)
  PROVE  \E S : DiffusionPoints(c) \in Seq(S)
<1>1. /\ c.cases \in Seq(Range(c.cases))
      /\ c.listeningCases \in Seq(Range(c.listeningCases))
  BY ExperimentSweepAssumption DEF Arrays
<1> DEFINE Paired(l) == CHOOSE case \in Range(c.cases) : case.name = l.pairedQuantitativeCase
           s == [i \in DOMAIN c.cases |->
                   [name |-> c.cases[i].name, directory |-> <<"cases", c.cases[i].name>>,
                    overrides |-> c.cases[i].overrides, source |-> c.cases[i].source,
                    listening |-> FALSE]]
           t == [i \in DOMAIN c.listeningCases |->
                   [name |-> c.listeningCases[i].name,
                    directory |-> <<"listening", c.listeningCases[i].name>>,
                    overrides |-> Paired(c.listeningCases[i]).overrides, listening |-> TRUE]]
<1>2. DiffusionPoints(c) = s \o t
  BY DEF DiffusionPoints
<1>3. s \in [DOMAIN c.cases -> {s[i] : i \in DOMAIN c.cases}]
  OBVIOUS
<1>4. t \in [DOMAIN c.listeningCases -> {t[i] : i \in DOMAIN c.listeningCases}]
  OBVIOUS
<1> HIDE DEF s, t
<1>5. s \in Seq({s[i] : i \in DOMAIN c.cases})
  BY <1>1, <1>3, MappedIsSequence
<1>6. t \in Seq({t[i] : i \in DOMAIN c.listeningCases})
  BY <1>1, <1>4, MappedIsSequence
<1>7. s \o t \in Seq({s[i] : i \in DOMAIN c.cases} \cup {t[i] : i \in DOMAIN c.listeningCases})
  BY <1>5, <1>6, SequencesJoined
<1> QED BY <1>2, <1>7

(* A point has the name of its axis, but for the first.                    *)
NamesAxis(c, p) ==
  /\ "name" \in DOMAIN p
  /\ p.name = Reference \/ \E a \in DOMAIN c.axes : p.name[1] = c.axes[a].name

LEMMA SweepPointsSequence ==
  ASSUME NEW tl \in Tools, tl # "diffusion", NEW c \in Catalogs(tl), LoadsIn(tl, c)
  PROVE  /\ \E S : sweep_points(c) \in Seq(S)
         /\ 1 \in DOMAIN sweep_points(c)
         /\ sweep_points(c)[1] =
              [name |-> Reference, directory |-> <<0>>, overrides |-> << >>]
         /\ \A i \in DOMAIN sweep_points(c) : NamesAxis(c, sweep_points(c)[i])
<1>1. /\ c.axes \in Seq(Range(c.axes))
      /\ \A i \in DOMAIN c.axes : c.axes[i].values \in Seq(Range(c.axes[i].values))
  BY ExperimentSweepAssumption DEF Arrays
<1> DEFINE at1(a, v) == LET value == c.axes[a].values[v] IN
                          [name      |-> <<c.axes[a].name, value.label>>,
                           directory |-> <<a, v, value.label>>,
                           overrides |-> value.overrides]
           axis(a) == [v \in DOMAIN c.axes[a].values |-> at1(a, v)]
           s == [a \in DOMAIN c.axes |-> axis(a)]
           U == UNION {{at1(a, v) : v \in DOMAIN c.axes[a].values} : a \in DOMAIN c.axes}
           first == [name |-> Reference, directory |-> <<0>>, overrides |-> << >>]
<1>2. sweep_points(c) = <<first>> \o FlattenSeq(s)
  BY DEF sweep_points
<1> HIDE DEF first
<1>3. ASSUME NEW a \in DOMAIN c.axes PROVE axis(a) \in Seq(U)
  <2> HIDE DEF at1
  <2>1. axis(a) \in [DOMAIN c.axes[a].values -> U]
    OBVIOUS
  <2> HIDE DEF axis, U
  <2> QED BY <1>1, <2>1, MappedIsSequence
<1> HIDE DEF axis, U
<1>4. s \in [DOMAIN c.axes -> Seq(U)]
  BY <1>3
<1> HIDE DEF s
<1>5. s \in Seq(Seq(U))
  BY <1>1, <1>4, MappedIsSequence
<1>6. FlattenSeq(s) \in Seq(U)
  BY <1>5, FlattenIsSequence
<1>7. <<first>> \in Seq({first})
  OBVIOUS
<1>8. <<first>> \o FlattenSeq(s) \in Seq({first} \cup U)
  BY <1>6, <1>7, SequencesJoined
<1>9. 1 \in DOMAIN sweep_points(c) /\ sweep_points(c)[1] = first
  BY <1>2, <1>6, <1>7
<1>10. \A p \in U : NamesAxis(c, p)
  BY DEF U, NamesAxis
<1>11. NamesAxis(c, first)
  BY DEF first, NamesAxis
<1>12. sweep_points(c) \in Seq({first} \cup U)
  BY <1>2, <1>8
<1>13. ASSUME NEW i \in DOMAIN sweep_points(c) PROVE NamesAxis(c, sweep_points(c)[i])
  <2>1. sweep_points(c)[i] \in {first} \cup U
    BY <1>12
  <2> QED BY <1>10, <1>11, <2>1
<1> QED BY <1>9, <1>12, <1>13 DEF first

LEMMA PointsListed ==
  ASSUME InputsKnown
  PROVE  Len(Points) \in Nat /\ DOMAIN Points = 1 .. Len(Points)
<1> DEFINE points == CASE ~LoadsIn(tool, catalog) -> << >>
                       [] LoadsIn(tool, catalog) /\ tool = "diffusion" -> DiffusionPoints(catalog)
                       [] LoadsIn(tool, catalog) /\ tool # "diffusion" -> sweep_points(catalog)
<1>1. tool \in Tools /\ catalog \in Catalogs(tool) /\ Points = Plan(tool, catalog)
  BY DEF InputsKnown
<1>2. \E S : points \in Seq(S)
  <2>1. CASE ~LoadsIn(tool, catalog)
    <3>1. points = << >>
      BY <2>1
    <3> HIDE DEF points
    <3>2. << >> \in Seq({})
      OBVIOUS
    <3> QED BY <3>1, <3>2
  <2>2. CASE LoadsIn(tool, catalog) /\ tool = "diffusion"
    <3>1. points = DiffusionPoints(catalog)
      BY <2>2
    <3> QED BY <1>1, <2>2, <3>1, DiffusionPointsSequence
  <2>3. CASE LoadsIn(tool, catalog) /\ tool # "diffusion"
    <3>1. points = sweep_points(catalog)
      BY <2>3
    <3> QED BY <1>1, <2>3, <3>1, SweepPointsSequence
  <2> QED BY <2>1, <2>2, <2>3
<1>3. DOMAIN Points = DOMAIN points /\ Points = [i \in DOMAIN points |-> Points[i]]
  BY <1>1 DEF Plan
<1> HIDE DEF points
<1>4. Points \in [DOMAIN points -> {Points[i] : i \in DOMAIN points}]
  BY <1>3
<1>5. points \in Seq(Range(points))
  BY <1>2 DEF Range
<1>6. Points \in Seq({Points[i] : i \in DOMAIN points})
  BY <1>4, <1>5, MappedIsSequence
<1> QED BY <1>6

----------------------------------------------------------------------------
(* Files.                                                                  *)
LEMMA AfterWrite ==
  ASSUME NEW d, NEW n, NEW c, Write(d, n, c)
  PROVE  /\ DOMAIN files' = DOMAIN files \cup {<<d, n>>}
         /\ files'[<<d, n>>] = c
         /\ \A f \in DOMAIN files : f # <<d, n>> => files'[f] = files[f]
         /\ Has(d, n)' /\ File(d, n)' = c
         /\ \A e, m : Has(e, m) => Has(e, m)'
         /\ \A e, m : <<e, m>> # <<d, n>> => File(e, m)' = File(e, m) /\ Has(e, m)' = Has(e, m)
<1>2. DOMAIN files' = DOMAIN files \cup {<<d, n>>}
  BY DEF Write
<1>3. files'[<<d, n>>] = c
  BY DEF Write
<1>4. \A f \in DOMAIN files : f # <<d, n>> => files'[f] = files[f]
  BY DEF Write
<1>5. \A e, m : Has(e, m) => Has(e, m)'
  BY <1>2 DEF Has
<1>6. Has(d, n)' /\ File(d, n)' = c
  BY <1>2, <1>3 DEF Has, File
<1>7. ASSUME NEW e, NEW m, <<e, m>> # <<d, n>>
      PROVE  File(e, m)' = File(e, m) /\ Has(e, m)' = Has(e, m)
  BY <1>2, <1>4, <1>7 DEF Has, File
<1> QED BY <1>2, <1>3, <1>4, <1>5, <1>6, <1>7

LEMMA AfterUnlink ==
  ASSUME NEW d, NEW n, Unlink(d, n)
  PROVE  /\ DOMAIN files' = DOMAIN files \ {<<d, n>>}
         /\ \A f \in DOMAIN files' : files'[f] = files[f]
         /\ \A e, m : <<e, m>> # <<d, n>> => File(e, m)' = File(e, m) /\ Has(e, m)' = Has(e, m)
<1>1. DOMAIN files' = DOMAIN files \ {<<d, n>>} /\ \A f \in DOMAIN files' : files'[f] = files[f]
  BY DEF Unlink
<1>2. ASSUME NEW e, NEW m, <<e, m>> # <<d, n>>
      PROVE  File(e, m)' = File(e, m) /\ Has(e, m)' = Has(e, m)
  BY <1>1, <1>2 DEF Has, File
<1> QED BY <1>1, <1>2

(* PointCoherent, file by file.                                            *)
Coherent(f) ==
  LET d == f[1]
      sampled == File(d, "sample")
  IN  files[f] # Truncated =>
        CASE f[2] = "sample" -> File(d, "request") = sampled.config
          [] f[2] = "impulse" -> sampled # None /\ files[f] = sampled
          [] f[2] = "analysis" -> files[f] = sampled
          [] f[2] \in {"benchmark", "benchmark-32"} ->
               sampled # None /\ files[f].config = sampled.config
          [] f[2] = "determinism" -> files[f] = File(d, "impulse")
          [] OTHER -> TRUE

LEMMA CoherentFiles == PointCoherent <=> \A f \in DOMAIN files : Coherent(f)
  BY DEF PointCoherent, Coherent

LEMMA StaysCoherent ==
  ASSUME NEW f, Coherent(f), files'[f] = files[f],
         \A n \in {"sample", "impulse", "request"} : File(f[1], n)' = File(f[1], n)
  PROVE  Coherent(f)'
<1>1. /\ File(f[1], "sample")' = File(f[1], "sample")
      /\ File(f[1], "impulse")' = File(f[1], "impulse")
      /\ File(f[1], "request")' = File(f[1], "request")
  OBVIOUS
<1> QED BY <1>1 DEF Coherent

Markers == {None, Truncated}

LEMMA MarkersApart ==
  /\ None # Truncated
  /\ \A x \in Renders \cup Benchmarks : x # None /\ x # Truncated
  BY ExperimentSweepAssumption

(* Until the sample is rendered a point has nothing whole but its request. *)
LEMMA NothingWithoutSample ==
  ASSUME FilesKnown, PointCoherent, NEW f \in DOMAIN files, ~Has(f[1], "sample"),
         files[f] # Truncated
  PROVE  f[2] \notin {"sample", "impulse", "analysis", "benchmark", "benchmark-32", "determinism"}
<1>1. File(f[1], "sample") = None
  BY DEF File
<1>2. Coherent(f) /\ f = <<f[1], f[2]>>
  BY CoherentFiles DEF FilesKnown
<1>3. f[2] # "sample"
  BY <1>2 DEF Has
<1>4. f[2] \notin {"impulse", "benchmark", "benchmark-32"}
  BY <1>1, <1>2 DEF Coherent
<1>5. f[2] # "analysis"
  BY <1>1, <1>2, MarkersApart DEF Coherent, FilesKnown
<1>6. f[2] # "determinism"
  <2> SUFFICES ASSUME f[2] = "determinism" PROVE FALSE
    OBVIOUS
  <2>1. files[f] = File(f[1], "impulse") /\ files[f] \in Renders
    BY <1>2 DEF Coherent, FilesKnown
  <2>2. Has(f[1], "impulse") /\ files[<<f[1], "impulse">>] \in Renders
    BY <2>1, MarkersApart DEF File
  <2>3. <<f[1], "impulse">> \in DOMAIN files /\ Coherent(<<f[1], "impulse">>)
    BY <2>2, CoherentFiles DEF Has
  <2> QED BY <1>1, <2>2, <2>3, MarkersApart DEF Coherent
<1> QED BY <1>3, <1>4, <1>5, <1>6

Sources == {"sample", "impulse", "request"}

LEMMA OthersAfterWrite ==
  ASSUME NEW d, NEW n, NEW c, Write(d, n, c), NEW f \in DOMAIN files', f # <<d, n>>
  PROVE  f \in DOMAIN files /\ files'[f] = files[f]
<1>1. DOMAIN files' = DOMAIN files \cup {<<d, n>>}
  BY AfterWrite
<1>2. \A g \in DOMAIN files : g # <<d, n>> => files'[g] = files[g]
  BY AfterWrite
<1> QED BY <1>1, <1>2

LEMMA SourcesAfterWrite ==
  ASSUME NEW d, NEW n, NEW c, Write(d, n, c), NEW e, e # d \/ n \notin Sources
  PROVE  \A m \in Sources : File(e, m)' = File(e, m)
<1>0. \A x, m : <<x, m>> # <<d, n>> => File(x, m)' = File(x, m) /\ Has(x, m)' = Has(x, m)
  BY AfterWrite
<1>1. \A m : <<e, m>> # <<d, n>> => File(e, m)' = File(e, m)
  BY <1>0
<1>2. \A m \in Sources : <<e, m>> # <<d, n>>
  OBVIOUS
<1> QED BY <1>1, <1>2

LEMMA SourcesAfterUnlink ==
  ASSUME NEW d, NEW n, Unlink(d, n), NEW e, n \notin Sources
  PROVE  \A m \in Sources : File(e, m)' = File(e, m)
<1>1. \A m : <<e, m>> # <<d, n>> => File(e, m)' = File(e, m)
  BY AfterUnlink
<1>2. \A m \in Sources : <<e, m>> # <<d, n>>
  OBVIOUS
<1> QED BY <1>1, <1>2

(* What a file is, by its name.                                            *)
Fits(n, c) ==
  /\ n \in {"sample", "impulse", "analysis"} => c \in Renders
  /\ n \in {"benchmark", "benchmark-32"} => c \in Benchmarks \cup {Truncated}
  /\ n = "determinism" => c \in Renders \cup {Truncated}
  /\ n \in {"request", "repeat"} => c \in Requests

LEMMA KnownAfterWrite ==
  ASSUME FilesKnown, NEW d, NEW n, NEW c, Write(d, n, c), Fits(n, c)
  PROVE  FilesKnown'
<1> SUFFICES ASSUME NEW f \in DOMAIN files'
             PROVE  f = <<f[1], f[2]>> /\ Fits(f[2], files'[f])
  BY DEF FilesKnown, Fits
<1>1. CASE f = <<d, n>>
  BY <1>1, AfterWrite
<1>2. CASE f # <<d, n>>
  <2>1. f \in DOMAIN files /\ files'[f] = files[f]
    BY <1>2, OthersAfterWrite
  <2> QED BY <2>1 DEF FilesKnown, Fits
<1> QED BY <1>1, <1>2

(* A file nothing else is made from.                                       *)
LEMMA SoundAfterWrite ==
  ASSUME FilesSound, NEW d, NEW n, NEW c, Write(d, n, c), Fits(n, c), n \notin Sources,
         Coherent(<<d, n>>)'
  PROVE  FilesSound'
<1>1. FilesKnown'
  BY KnownAfterWrite DEF FilesSound
<1>2. ASSUME NEW f \in DOMAIN files' PROVE Coherent(f)'
  <2>1. CASE f = <<d, n>>
    BY <2>1
  <2>2. CASE f # <<d, n>>
    <3>1. f \in DOMAIN files /\ files'[f] = files[f]
      BY <2>2, OthersAfterWrite
    <3>2. \A m \in Sources : File(f[1], m)' = File(f[1], m)
      BY SourcesAfterWrite
    <3> QED BY <3>1, <3>2, StaysCoherent, CoherentFiles DEF FilesSound, Sources
  <2> QED BY <2>1, <2>2
<1>3. PointCoherent'
  BY <1>2 DEF PointCoherent, Coherent
<1> QED BY <1>1, <1>3 DEF FilesSound

(* The request and the sample, which come before all others.               *)
LEMMA SoundAfterFirst ==
  ASSUME FilesSound, NEW d, NEW n \in {"request", "sample"}, NEW c, Write(d, n, c), Fits(n, c),
         ~Has(d, "sample"), n = "sample" => File(d, "request") = c.config
  PROVE  FilesSound'
<1>1. FilesKnown'
  BY KnownAfterWrite DEF FilesSound
<1>2. ASSUME NEW f \in DOMAIN files' PROVE Coherent(f)'
  <2>1. CASE f = <<d, n>>
    <3>1. n = "sample" => /\ File(d, "sample")' = c
                          /\ File(d, "request")' = File(d, "request")
      BY AfterWrite
    <3> QED BY <2>1, <3>1 DEF Coherent
  <2>2. CASE f # <<d, n>>
    <3>1. f \in DOMAIN files /\ files'[f] = files[f] /\ f = <<f[1], f[2]>>
      BY <2>2, OthersAfterWrite DEF FilesSound, FilesKnown
    <3>2. CASE f[1] # d
      <4>1. \A m \in Sources : File(f[1], m)' = File(f[1], m)
        BY <3>2, SourcesAfterWrite
      <4> QED BY <3>1, <4>1, StaysCoherent, CoherentFiles DEF FilesSound, Sources
    <3>3. CASE f[1] = d
      <4>1. files[f] # Truncated =>
              f[2] \notin {"sample", "impulse", "analysis", "benchmark", "benchmark-32",
                           "determinism"}
        BY <3>1, <3>3, NothingWithoutSample DEF FilesSound
      <4> QED BY <3>1, <4>1 DEF Coherent
    <3> QED BY <3>2, <3>3
  <2> QED BY <2>1, <2>2
<1>3. PointCoherent'
  BY <1>2 DEF PointCoherent, Coherent
<1> QED BY <1>1, <1>3 DEF FilesSound

(* The impulse, which the determinism report is of.                        *)
LEMMA SoundAfterImpulse ==
  ASSUME FilesSound, NEW d, NEW c, Write(d, "impulse", c), ~Has(d, "impulse"),
         Has(d, "sample"), c = File(d, "sample")
  PROVE  FilesSound'
<1>1. c \in Renders
  BY DEF FilesSound, FilesKnown, Has, File
<1>2. FilesKnown'
  BY <1>1, KnownAfterWrite DEF FilesSound, Fits
<1>3. ASSUME NEW f \in DOMAIN files' PROVE Coherent(f)'
  <2>1. CASE f = <<d, "impulse">>
    <3>1. File(d, "sample")' = c /\ files'[f] = c
      BY <2>1, AfterWrite
    <3> QED BY <2>1, <3>1, <1>1, MarkersApart DEF Coherent
  <2>2. CASE f # <<d, "impulse">>
    <3>1. f \in DOMAIN files /\ files'[f] = files[f] /\ f = <<f[1], f[2]>>
      BY <2>2, OthersAfterWrite DEF FilesSound, FilesKnown
    <3>2. CASE f[1] # d
      <4>1. \A m \in Sources : File(f[1], m)' = File(f[1], m)
        BY <3>2, SourcesAfterWrite
      <4> QED BY <3>1, <4>1, StaysCoherent, CoherentFiles DEF FilesSound, Sources
    <3>3. CASE f[1] = d
      <4>1. /\ File(d, "sample")' = File(d, "sample")
            /\ File(d, "request")' = File(d, "request")
        BY AfterWrite
      <4>2. Coherent(f) /\ f[2] # "impulse"
        BY <3>1, <3>3, <2>2, CoherentFiles DEF FilesSound
      <4>3. f[2] = "determinism" => files[f] = Truncated
        BY <3>1, <3>3, <4>2, MarkersApart DEF FilesSound, FilesKnown, Coherent, File
      <4> QED BY <3>1, <3>3, <4>1, <4>2, <4>3 DEF Coherent
    <3> QED BY <3>2, <3>3
  <2> QED BY <2>1, <2>2
<1>4. PointCoherent'
  BY <1>3 DEF PointCoherent, Coherent
<1> QED BY <1>2, <1>4 DEF FilesSound

(* A repeat, or a benchmark that does not parse, is removed.               *)
LEMMA SoundAfterUnlink ==
  ASSUME FilesSound, NEW d, NEW n, Unlink(d, n), n \notin Sources
  PROVE  FilesSound'
<1>1. \A f \in DOMAIN files' : f \in DOMAIN files /\ files'[f] = files[f]
  BY AfterUnlink
<1>2. FilesKnown'
  BY <1>1 DEF FilesSound, FilesKnown
<1>3. ASSUME NEW f \in DOMAIN files' PROVE Coherent(f)'
  <2>1. \A m \in Sources : File(f[1], m)' = File(f[1], m)
    BY SourcesAfterUnlink
  <2> QED BY <1>1, <2>1, StaysCoherent, CoherentFiles DEF FilesSound, Sources
<1>4. PointCoherent'
  BY <1>3 DEF PointCoherent, Coherent
<1> QED BY <1>2, <1>4 DEF FilesSound

----------------------------------------------------------------------------
(* Positions.                                                              *)
LEMMA PointAtHand ==
  ASSUME InputsKnown, PositionKnown, InPoint
  PROVE  /\ point \in DOMAIN Points /\ Requested \in Requests
         /\ ChannelsOf(Current) \in Nat
<1>1. point \in DOMAIN Points
  BY PointsListed DEF InPoint, PositionKnown
<1>2. /\ tool \in Tools /\ catalog \in Catalogs(tool) /\ sample \in Samples
      /\ Points = Plan(tool, catalog)
  BY DEF InputsKnown
<1>3. Requested \in Requests
  <2>1. Points[point] \in AllPoints
    BY <1>1, <1>2 DEF AllPoints, Range
  <2> QED BY <2>1 DEF Requests, Requested, Current
<1>4. sample.channels \in Nat
  BY <1>2, ExperimentSweepAssumption
<1>5. tool = "diffusion" /\ ~Current.listening => Current.source \in Nat
  <2>1. Current \in Range(Points)
    BY <1>1 DEF Current, Range
  <2> QED BY <2>1, <1>2, ExperimentSweepAssumption
<1>6. ChannelsOf(Current) \in Nat
  BY <1>4, <1>5 DEF ChannelsOf
<1> QED BY <1>1, <1>3, <1>6

LEMMA SamePoint ==
  ASSUME UNCHANGED inputs, UNCHANGED <<at, point>>
  PROVE  /\ In("points")' = In("points") /\ InPoint' = InPoint
         /\ Current' = Current /\ Steps(Current)' = Steps(Current)
<1>1. UNCHANGED <<tool, catalog, sample, Points>>
  BY DEF inputs
<1>2. Current' = Current
  BY <1>1 DEF Current
<1>3. Main' = Main
  BY <1>1 DEF Main
<1>4. In("points")' = In("points")
  BY <1>3 DEF In, Running
<1>5. InPoint' = InPoint
  BY <1>1, <1>4 DEF InPoint
<1>6. Steps(Current)' = Steps(Current)
  BY <1>1, <1>2 DEF Steps
<1> QED BY <1>2, <1>4, <1>5, <1>6

LEMMA StopPlace ==
  ASSUME NEW code, Stop(code)
  PROVE  Place'
<1>1. at' = 0 /\ point' = 1 /\ step' = 1 /\ phase' = "check"
  BY DEF Stop
<1>2. ~InPoint' /\ ~InStep'
  BY <1>1 DEF InPoint, InStep, In, Running
<1> QED BY <1>1, <1>2 DEF Place, PositionKnown, Made, InTheStep

LEMMA ProceedPlace ==
  ASSUME PositionKnown, ~InPoint, Proceed
  PROVE  Place'
<1>1. at' = at + 1 /\ point' = point /\ step' = 1 /\ phase' = "check"
  BY DEF PositionKnown, Proceed
<1>2. PositionKnown'
  BY <1>1 DEF PositionKnown
<1>3. Made' /\ InTheStep'
  BY <1>1 DEF Made, InTheStep
<1> QED BY <1>2, <1>3 DEF Place

LEMMA EndPointPlace ==
  ASSUME PositionKnown, NEW status, NEW benchmark, EndPoint(status, benchmark)
  PROVE  Place'
<1>1. at' = at /\ point' = point + 1 /\ step' = 1 /\ phase' = "check"
  BY DEF EndPoint
<1>2. PositionKnown'
  BY <1>1 DEF PositionKnown
<1>3. Made' /\ InTheStep'
  BY <1>1 DEF Made, InTheStep
<1> QED BY <1>2, <1>3 DEF Place

(* A step is behind: by its file, which is there.                          *)
LEMMA StepBehindPlace ==
  ASSUME InputsKnown, Place, InStep, UNCHANGED inputs, UNCHANGED <<at, point>>,
         step' = step + 1, phase' = "check",
         NEW d, NEW n, d = Current.directory, n = Target, Has(d, n)',
         \A e, m : Has(e, m) => Has(e, m)'
  PROVE  Place'
<1>1. PositionKnown /\ Made /\ InPoint
  BY DEF Place, InStep, InPoint
<1>2. /\ InPoint' /\ Current' = Current /\ Steps(Current)' = Steps(Current)
  BY <1>1, SamePoint
<1>3. PositionKnown'
  BY <1>1, <1>2 DEF PositionKnown
<1>4. ASSUME NEW k \in 1 .. step' - 1, k \in DOMAIN Steps(Current)
      PROVE  Has(Current.directory, Steps(Current)[k].makes)'
  <2>1. CASE k = step
    <3>1. d = Current.directory' /\ n = Steps(Current)'[k].makes
      BY <1>2, <2>1 DEF Target
    <3> QED BY <3>1
  <2>2. CASE k # step
    <3>1. k \in 1 .. step - 1
      BY <1>1, <2>2 DEF PositionKnown
    <3>2. Has(Current.directory, Steps(Current)[k].makes)
      BY <1>1, <1>4, <3>1 DEF Made
    <3> DEFINE e == Current.directory
               m == Steps(Current)[k].makes
    <3>3. e' = e /\ m' = m
      BY <1>2
    <3>4. Has(e, m)'
      <4> HIDE DEF e, m
      <4> QED BY <3>2, <3>3 DEF Has, e, m
    <3> QED BY <3>4
  <2> QED BY <2>1, <2>2
<1>5. Made'
  BY <1>2, <1>4 DEF Made
<1>6. InTheStep'
  BY DEF InTheStep
<1> QED BY <1>3, <1>5, <1>6 DEF Place

LEMMA NoStepMakesRepeat ==
  ASSUME InputsKnown, InPoint, NEW k \in DOMAIN Steps(Current)
  PROVE  Steps(Current)[k].makes # "repeat"
<1>1. InOrder(Steps(Current), k)
  BY StepsKnown DEF InputsKnown, MakesInOrder
<1> QED BY <1>1 DEF InOrder

(* A step goes on, with its file missing or incomplete.                    *)
EntersWith(where, d) ==
  \/ where = "do"
  \/ where = "render" /\ Doing("render") /\ Has(d, "request")'
  \/ where = "write" /\ Doing("benchmark")
  \/ where \in {"compare", "write", "written"} /\ Doing("repeat")

LEMMA EnterPlace ==
  ASSUME InputsKnown, Place, InStep, UNCHANGED inputs, NEW where, Enter(where),
         NEW d, NEW n, d = Current.directory, n = Target,
         ~Has(d, n)' \/ File(d, n)' = Truncated,
         where \in {"do", "render"} => ~Has(d, n)',
         EntersWith(where, d),
         \A e, m : m # "repeat" /\ Has(e, m) => Has(e, m)'
  PROVE  Place'
<1>1. PositionKnown /\ Made /\ InPoint
  BY DEF Place, InStep, InPoint
<1>2. /\ InPoint' /\ Current' = Current /\ Steps(Current)' = Steps(Current)
      /\ In("points")' = In("points")
  BY <1>1, SamePoint DEF Enter
<1>3. /\ phase' = where /\ step' = step /\ at' = at /\ point' = point
      /\ Points' = Points
  BY DEF Enter, inputs
<1>4. InStep'
  BY <1>2, <1>3 DEF InStep
<1>5. PositionKnown'
  BY <1>1, <1>2, <1>3, <1>4 DEF PositionKnown
<1>6. ASSUME NEW k \in 1 .. step' - 1, k \in DOMAIN Steps(Current)
      PROVE  Has(Current.directory, Steps(Current)[k].makes)'
  <2> DEFINE e == Current.directory
             m == Steps(Current)[k].makes
  <2>1. Has(e, m)
    BY <1>1, <1>3, <1>6 DEF Made
  <2>2. m # "repeat"
    BY <1>1, <1>6, NoStepMakesRepeat
  <2>3. e' = e /\ m' = m
    BY <1>2
  <2>4. Has(e, m)'
    <3> HIDE DEF e, m
    <3>1. \A x, y : y # "repeat" /\ Has(x, y) => Has(x, y)'
      OBVIOUS
    <3>2. <<e, m>> \in DOMAIN files'
      BY <2>1, <2>2, <3>1 DEF Has
    <3> QED BY <2>3, <3>2 DEF Has
  <2> QED BY <2>4
<1>7. Made'
  BY <1>2, <1>6 DEF Made
<1>8. d = Current.directory' /\ n = Target'
  BY <1>2, <1>3 DEF Target
<1>9. Has(d, n)' = Has(Current.directory, Target)' /\ File(d, n)' = File(Current.directory, Target)'
      /\ Has(d, "request")' = Has(Current.directory, "request")'
  BY <1>8
<1>10. \A what : Doing(what)' = Doing(what)
  BY <1>2, <1>3, <1>4 DEF Doing
<1>11. InTheStep'
  BY <1>3, <1>9, <1>10 DEF InTheStep, EntersWith
<1> QED BY <1>5, <1>7, <1>11 DEF Place

----------------------------------------------------------------------------
(* What is whole stays.                                                    *)
Keeps ==
  \A f \in DOMAIN files :
    files[f] # Truncated /\ f[2] \notin {"request", "repeat"} =>
      f \in DOMAIN files' /\ files'[f] = files[f]

LEMMA KeepsAfterWrite ==
  ASSUME NEW d, NEW n, NEW c, Write(d, n, c),
         ~Has(d, n) \/ File(d, n) = Truncated \/ n \in {"request", "repeat"}
  PROVE  Keeps
<1> SUFFICES ASSUME NEW f \in DOMAIN files, files[f] # Truncated,
                    f[2] \notin {"request", "repeat"}
             PROVE  f \in DOMAIN files' /\ files'[f] = files[f]
  BY DEF Keeps
<1>1. f # <<d, n>>
  BY DEF Has, File
<1> QED BY <1>1 DEF Write

LEMMA KeepsAfterUnlink ==
  ASSUME NEW d, NEW n, Unlink(d, n), n = "repeat" \/ File(d, n) = Truncated
  PROVE  Keeps
<1> SUFFICES ASSUME NEW f \in DOMAIN files, files[f] # Truncated,
                    f[2] \notin {"request", "repeat"}
             PROVE  f \in DOMAIN files' /\ files'[f] = files[f]
  BY DEF Keeps
<1>1. f # <<d, n>>
  BY DEF Has, File
<1> QED BY <1>1 DEF Unlink

LEMMA KeepsSame == ASSUME UNCHANGED files PROVE Keeps
  BY DEF Keeps

LEMMA SameFiles ==
  ASSUME FilesSound, UNCHANGED files
  PROVE  FilesSound' /\ Keeps
<1>1. \A e, m : Has(e, m)' = Has(e, m) /\ File(e, m)' = File(e, m)
  BY DEF Has, File
<1>2. FilesKnown'
  BY DEF FilesSound, FilesKnown
<1>3. \A f \in DOMAIN files : Coherent(f)'
  BY <1>1, CoherentFiles, StaysCoherent DEF FilesSound
<1>4. PointCoherent'
  BY <1>3 DEF PointCoherent, Coherent
<1> QED BY <1>2, <1>4, KeepsSame DEF FilesSound

LEMMA SameInputs == ASSUME InputsKnown, UNCHANGED inputs PROVE InputsKnown'
<1>1. UNCHANGED <<tool, catalog, sample, Points>>
  BY DEF inputs
<1> QED BY <1>1 DEF InputsKnown

----------------------------------------------------------------------------
(* The steps of a command.                                                 *)
Step == Inv' /\ Keeps

(* What is done outside the points.                                        *)
LEMMA OutsideStep ==
  ASSUME Inv, ~InPoint, UNCHANGED <<inputs, files>>,
         Proceed \/ \E code : Stop(code)
  PROVE  Step
<1>1. Place'
  BY ProceedPlace, StopPlace DEF Inv, Place
<1>2. InputsKnown' /\ FilesSound' /\ Keeps
  BY SameFiles, SameInputs DEF Inv
<1> QED BY <1>1, <1>2 DEF Step, Inv

LEMMA AtOnePlace ==
  ASSUME NEW name, In(name), name # "points"
  PROVE  ~InPoint
  BY DEF In, InPoint

LEMMA MainSteps ==
  ASSUME Inv, LoadCatalog \/ RequireScopes \/ RequireSample \/ MatchImpulse \/ FinishPoints
              \/ depth_identity_invariant \/ WriteSummary \/ compare_coherent_downmix
              \/ WriteStatus \/ generate_report \/ Exit
  PROVE  Step
<1>1. ~InPoint
  <2>1. CASE FinishPoints
    <3>1. point > Len(Points) /\ Len(Points) \in Nat /\ point \in Nat
      BY <2>1, PointsListed DEF FinishPoints, Inv, Place, PositionKnown
    <3> QED BY <3>1 DEF InPoint
  <2>2. CASE ~FinishPoints
    BY <2>2, AtOnePlace
       DEF LoadCatalog, RequireScopes, RequireSample, MatchImpulse,
           depth_identity_invariant, WriteSummary, compare_coherent_downmix,
           WriteStatus, generate_report, Exit
  <2> QED BY <2>1, <2>2
<1>2. UNCHANGED <<inputs, files>>
  BY DEF LoadCatalog, RequireScopes, RequireSample, MatchImpulse, FinishPoints,
         depth_identity_invariant, WriteSummary, compare_coherent_downmix,
         WriteStatus, generate_report, Exit
<1>3. Proceed \/ \E code : Stop(code)
  BY DEF LoadCatalog, RequireScopes, RequireSample, MatchImpulse, FinishPoints,
         depth_identity_invariant, WriteSummary, compare_coherent_downmix,
         WriteStatus, generate_report, Exit
<1> QED BY <1>1, <1>2, <1>3, OutsideStep

(* What ends the point at hand, or the run.                                *)
LEMMA EndingStep ==
  ASSUME Inv, UNCHANGED <<inputs, files>>,
         (\E status, benchmark : EndPoint(status, benchmark)) \/ \E code : Stop(code)
  PROVE  Step
<1>1. Place'
  BY EndPointPlace, StopPlace DEF Inv, Place
<1>2. InputsKnown' /\ FilesSound' /\ Keeps
  BY SameFiles, SameInputs DEF Inv
<1> QED BY <1>1, <1>2 DEF Step, Inv

LEMMA EndSteps ==
  ASSUME Inv, ChildFails \/ FinishPoint \/ Kill
  PROVE  Step
<1>1. UNCHANGED <<inputs, files>>
  BY DEF ChildFails, FinishPoint, Kill
<1>2. (\E status, benchmark : EndPoint(status, benchmark)) \/ \E code : Stop(code)
  BY DEF ChildFails, StepFails, FinishPoint, Kill
<1> QED BY <1>1, <1>2, EndingStep

LEMMA MainBegins ==
  ASSUME tool \in Tools
  PROVE  Main[1] \in {"catalog"}
<1>1. tool \in {"tail", "damping", "modulation", "spatial", "diffusion"}
  BY ExperimentSweepAssumption
<1>2. /\ TailMain[1] = "catalog" /\ DampingMain[1] = "catalog" /\ ModulationMain[1] = "catalog"
      /\ SpatialMain[1] = "catalog" /\ DiffusionMain[1] = "catalog"
  BY DEF TailMain, DampingMain, ModulationMain, SpatialMain, DiffusionMain
<1> QED BY <1>1, <1>2 DEF Main

LEMMA IdlePlace ==
  ASSUME Inv, ~Running, UNCHANGED <<point, step, phase>>, at' = 0
  PROVE  Place'
<1>1. step = 1 /\ phase = "check" /\ point \in Nat \ {0}
  BY DEF Inv, Place, PositionKnown, InPoint, In
<1>2. ~InPoint' /\ ~InStep'
  BY DEF InPoint, InStep, In, Running
<1> QED BY <1>1, <1>2 DEF Place, PositionKnown, Made, InTheStep

LEMMA StartStep ==
  ASSUME Inv, Start
  PROVE  Step
<1>1. step' = 1 /\ phase' = "check" /\ point' \in Nat \ {0} /\ at' = 1
  BY DEF Inv, Place, PositionKnown, InPoint, In, Start
<1>2. InputsKnown' /\ FilesSound' /\ Keeps
  BY SameFiles, SameInputs DEF Inv, Start
<1>3. Main'[1] = "catalog"
  <2>1. Main[1] = "catalog" /\ UNCHANGED tool
    BY MainBegins DEF Inv, InputsKnown, Start, inputs
  <2> QED BY <2>1 DEF Main
<1>4. ~InPoint' /\ ~InStep'
  BY <1>1, <1>3 DEF InPoint, InStep, In
<1>5. Place'
  BY <1>1, <1>4 DEF Place, PositionKnown, Made, InTheStep
<1> QED BY <1>2, <1>5 DEF Step, Inv

LEMMA EditStep ==
  ASSUME Inv, Edit
  PROVE  Step
<1>1. Place'
  BY IdlePlace DEF Edit, Running
<1>2. FilesSound' /\ Keeps
  BY SameFiles DEF Inv, Edit
<1>3. InputsKnown'
  BY DEF Inv, InputsKnown, Edit
<1> QED BY <1>1, <1>2, <1>3 DEF Step, Inv

LEMMA DeleteStep ==
  ASSUME Inv, DeleteBadBenchmark
  PROVE  Step
<1>1. Place' /\ InputsKnown'
  <2>1. UNCHANGED inputs /\ UNCHANGED <<at, point, step, phase>> /\ ~Running
    BY DEF DeleteBadBenchmark, position
  <2> QED BY <2>1, IdlePlace, SameInputs DEF Inv, Running
<1>2. PICK f \in DOMAIN files : f[2] = "benchmark" /\ files[f] = Truncated /\ Unlink(f[1], f[2])
  BY DEF DeleteBadBenchmark
<1>3. File(f[1], f[2]) = Truncated
  <2>1. f = <<f[1], f[2]>>
    BY DEF Inv, FilesSound, FilesKnown
  <2> QED BY <1>2, <2>1 DEF File, Has
<1>4. FilesSound'
  BY <1>2, SoundAfterUnlink DEF Inv, Sources
<1>5. Keeps
  BY <1>2, <1>3, KeepsAfterUnlink
<1> QED BY <1>1, <1>4, <1>5 DEF Step, Inv

LEMMA StepAtHand ==
  ASSUME Inv, InStep
  PROVE  /\ InPoint /\ step \in DOMAIN Steps(Current) /\ step \in Nat \ {0}
         /\ InOrder(Steps(Current), step)
         /\ \A k \in 1 .. step - 1 : Has(Current.directory, Steps(Current)[k].makes)
<1>1. MakesInOrder(Steps(Current))
  BY StepsKnown DEF Inv, InputsKnown
<1>2. InPoint /\ step <= Len(Steps(Current)) /\ step \in Nat \ {0}
  BY DEF InStep, InPoint, Inv, Place, PositionKnown
<1>3. step \in DOMAIN Steps(Current)
  BY <1>1, <1>2 DEF MakesInOrder
<1>4. \A k \in 1 .. step - 1 : k \in DOMAIN Steps(Current)
  BY <1>1, <1>2 DEF MakesInOrder
<1>5. \A k \in 1 .. step - 1 : Has(Current.directory, Steps(Current)[k].makes)
  BY <1>2, <1>4 DEF Inv, Place, Made
<1> QED BY <1>1, <1>2, <1>3, <1>5 DEF MakesInOrder

LEMMA CheckStepStep ==
  ASSUME Inv, CheckStep
  PROVE  Step
<1>1. UNCHANGED <<inputs, files>> /\ InStep /\ phase = "check"
  BY DEF CheckStep
<1>2. InputsKnown' /\ FilesSound' /\ Keeps
  BY <1>1, SameFiles, SameInputs DEF Inv
<1>3. CASE EndPoint("failed", None)
  BY <1>1, <1>3, EndingStep
<1>4. CASE Has(Current.directory, Target) /\ step' = step + 1
           /\ UNCHANGED <<at, point, phase>>
  <2>1. \A e, m : Has(e, m)' = Has(e, m)
    BY <1>1 DEF Has
  <2>2. \E d, n : d = Current.directory /\ n = Target /\ Has(d, n)
    BY <1>4
  <2>3. \E d, n : d = Current.directory /\ n = Target /\ Has(d, n)'
    BY <2>1, <2>2
  <2>4. Place'
    BY <1>1, <1>4, <2>1, <2>3, StepBehindPlace DEF Inv
  <2> QED BY <1>2, <2>4 DEF Step, Inv
<1>5. CASE ~Has(Current.directory, Target) /\ Enter("do")
  <2>1. \A e, m : Has(e, m)' = Has(e, m)
    BY <1>1 DEF Has
  <2>2. \E d, n : /\ d = Current.directory /\ n = Target /\ ~Has(d, n)
    BY <1>5
  <2>3. \E d, n : /\ d = Current.directory /\ n = Target /\ ~Has(d, n)'
    BY <2>1, <2>2
  <2>4. Place'
    BY <1>1, <1>5, <2>1, <2>3, EnterPlace DEF Inv, EntersWith
  <2> QED BY <1>2, <2>4 DEF Step, Inv
<1> QED BY <1>1, <1>3, <1>4, <1>5 DEF CheckStep

(* A file of the point at hand is made: the step is done.                  *)
LEMMA FileMade ==
  ASSUME Inv, InStep, UNCHANGED inputs, StepDone, NEW c, FilesSound', NEW d, NEW n,
         d = Current.directory, n = Target, Write(d, n, c),
         ~Has(d, n) \/ File(d, n) = Truncated
  PROVE  Step
<1>1. Keeps
  BY KeepsAfterWrite
<1>2. Has(d, n)' /\ \A e, m : Has(e, m) => Has(e, m)'
  BY AfterWrite
<1>3. Place'
  BY <1>2, StepBehindPlace DEF Inv, StepDone
<1> QED BY <1>1, <1>3, SameInputs DEF Step, Inv

(* A file of the point at hand is begun.                                   *)
LEMMA FileBegun ==
  ASSUME Inv, InStep, UNCHANGED inputs, NEW where, where \in {"write", "written"}, Enter(where),
         (Doing("benchmark") /\ where = "write") \/ Doing("repeat"),
         NEW d, NEW n, d = Current.directory, n = Target, Write(d, n, Truncated),
         n \in {"benchmark", "benchmark-32", "determinism"},
         ~Has(d, n) \/ File(d, n) = Truncated
  PROVE  Step
<1>1. Keeps
  BY KeepsAfterWrite
<1>2. File(d, n)' = Truncated /\ \A e, m : Has(e, m) => Has(e, m)'
  BY AfterWrite
<1>3. Place'
  BY <1>2, EnterPlace DEF Inv, EntersWith
<1>4. Coherent(<<d, n>>)'
  <2>1. files'[<<d, n>>] = Truncated
    BY DEF Write
  <2> QED BY <2>1 DEF Coherent
<1>5. FilesSound'
  BY <1>4, SoundAfterWrite DEF Inv, Fits, Sources
<1> QED BY <1>1, <1>3, <1>5, SameInputs DEF Step, Inv

LEMMA WriteRequestStep ==
  ASSUME Inv, WriteRequest
  PROVE  Step
<1>1. /\ InStep /\ Steps(Current)[step].does = "render" /\ phase = "do" /\ UNCHANGED inputs
      /\ Write(Current.directory, "request", Requested) /\ Enter("render") /\ Doing("render")
  BY DEF WriteRequest, Doing
<1>2. InPoint /\ Target = "sample"
  BY <1>1, StepAtHand DEF InOrder, Target
<1>3. ~Has(Current.directory, "sample")
  BY <1>1, <1>2 DEF Inv, Place, InTheStep
<1>4. Requested \in Requests
  BY <1>2, PointAtHand DEF Inv, Place
<1>5. \E d, c : /\ d = Current.directory /\ c = Requested /\ Write(d, "request", c)
               /\ ~Has(d, "sample") /\ c \in Requests
  BY <1>1, <1>3, <1>4
<1>6. PICK d, c : /\ d = Current.directory /\ c = Requested /\ Write(d, "request", c)
                  /\ ~Has(d, "sample") /\ c \in Requests
  BY <1>5
<1>7. Keeps
  BY <1>6, KeepsAfterWrite
<1>8. FilesSound'
  BY <1>6, SoundAfterFirst DEF Inv, Fits
<1>9. Has(d, "request")' /\ \A e, m : Has(e, m) => Has(e, m)'
  BY <1>6, AfterWrite
<1>10. ~Has(d, "sample")'
  BY <1>6 DEF Has, Write
<1>11. Place'
  BY <1>1, <1>2, <1>6, <1>9, <1>10, EnterPlace DEF Inv, EntersWith
<1> QED BY <1>1, <1>7, <1>8, <1>11, SameInputs DEF Step, Inv

LEMMA RenderStepSound ==
  ASSUME Inv, render_case
  PROVE  Step
<1>1. /\ InStep /\ Steps(Current)[step].does = "render" /\ phase = "render" /\ UNCHANGED inputs
      /\ Doing("render")
  BY DEF render_case, Doing
<1>2. InPoint /\ Target = "sample"
  BY <1>1, StepAtHand DEF InOrder, Target
<1>3. ~Has(Current.directory, "sample") /\ Has(Current.directory, "request")
  BY <1>1, <1>2 DEF Inv, Place, InTheStep
<1>4. CASE Readable(Current)
  <2> DEFINE content == [config   |-> File(Current.directory, "request"),
                         channels |-> ChannelsOf(Current)]
  <2>1. File(Current.directory, "request") \in Requests
    <3>1. <<Current.directory, "request">> \in DOMAIN files
      BY <1>3 DEF Has
    <3> QED BY <1>3, <3>1 DEF Inv, FilesSound, FilesKnown, File
  <2>2. ChannelsOf(Current) \in Nat
    BY <1>2, PointAtHand DEF Inv, Place
  <2>3. content \in Renders /\ content.config = File(Current.directory, "request")
    BY <2>1, <2>2 DEF Renders
  <2>4. Write(Current.directory, "sample", content) /\ StepDone
    BY <1>4 DEF render_case
  <2> HIDE DEF content
  <2>5. PICK d, c : /\ d = Current.directory /\ c = content
                    /\ c \in Renders /\ c.config = File(d, "request")
                    /\ ~Has(d, "sample") /\ Write(d, "sample", c)
    BY <1>3, <2>3, <2>4
  <2>6. FilesSound'
    BY <2>5, SoundAfterFirst DEF Inv, Fits
  <2> QED BY <1>1, <1>2, <2>4, <2>5, <2>6, FileMade
<1>5. CASE ~Readable(Current)
  BY <1>1, <1>5, EndingStep DEF render_case, StepFails
<1> QED BY <1>4, <1>5

LEMMA KnownFile ==
  ASSUME FilesKnown, NEW d, NEW n, Has(d, n)
  PROVE  Fits(n, File(d, n))
<1>1. <<d, n>> \in DOMAIN files /\ File(d, n) = files[<<d, n>>]
  BY DEF Has, File
<1> QED BY <1>1 DEF FilesKnown, Fits

LEMMA RendersEqual ==
  ASSUME NEW r \in Renders
  PROVE  r = [config |-> r.config, channels |-> r.channels]
  BY DEF Renders

LEMMA ImpulseStepSound ==
  ASSUME Inv, render_from_resolved
  PROVE  Step
<1>1. /\ InStep /\ Steps(Current)[step].does = "render resolved" /\ phase = "do"
      /\ UNCHANGED inputs
  BY DEF render_from_resolved, Doing
<1>2. step = 2 /\ Target = "impulse" /\ Steps(Current)[1].makes = "sample"
  BY <1>1, StepAtHand DEF InOrder, Target
<1>3. Has(Current.directory, "sample")
  <2>1. \A k \in 1 .. step - 1 : Has(Current.directory, Steps(Current)[k].makes)
    BY <1>1, StepAtHand
  <2> QED BY <1>2, <2>1
<1>4. ~Has(Current.directory, "impulse")
  BY <1>1, <1>2 DEF Inv, Place, InTheStep
<1> DEFINE resolved == File(Current.directory, "sample")
           impulse == matching_impulse(sample)
<1>5. resolved \in Renders
  BY <1>3, KnownFile DEF Inv, FilesSound, Fits
<1>6. CASE resolved.channels = impulse
  <2>1. /\ Write(Current.directory, "impulse", [config |-> resolved.config, channels |-> impulse])
        /\ StepDone
    BY <1>6 DEF render_from_resolved
  <2>2. [config |-> resolved.config, channels |-> impulse] = resolved
    BY <1>5, <1>6, RendersEqual
  <2>3. PICK d, c : /\ d = Current.directory /\ c = File(d, "sample") /\ Has(d, "sample")
                    /\ ~Has(d, "impulse") /\ Write(d, "impulse", c)
    BY <1>3, <1>4, <2>1, <2>2
  <2>4. FilesSound'
    BY <2>3, SoundAfterImpulse DEF Inv
  <2> QED BY <1>1, <1>2, <2>1, <2>3, <2>4, FileMade
<1>7. CASE resolved.channels # impulse
  BY <1>1, <1>7, EndingStep DEF render_from_resolved, StepFails
<1> QED BY <1>6, <1>7

LEMMA AnalyzeStepSound ==
  ASSUME Inv, Analyze
  PROVE  Step
<1>1. /\ InStep /\ Steps(Current)[step].does = "analyze" /\ phase = "do" /\ UNCHANGED inputs
  BY DEF Analyze, Doing
<1> DEFINE from == IF tool = "diffusion" THEN "sample" ELSE "impulse"
           analyzed == File(Current.directory, from)
           source == IF tool = "diffusion" THEN ChannelsOf(Current) ELSE matching_impulse(sample)
<1>2. /\ Target = "analysis" /\ Steps(Current)[1].makes = "sample"
      /\ IF tool = "diffusion" THEN step = 2
         ELSE step = 3 /\ Steps(Current)[2].makes = "impulse"
  BY <1>1, StepAtHand DEF InOrder, Target
<1>3. Has(Current.directory, "sample") /\ Has(Current.directory, from)
  <2>1. \A k \in 1 .. step - 1 : Has(Current.directory, Steps(Current)[k].makes)
    BY <1>1, StepAtHand
  <2>2. Has(Current.directory, "sample")
    BY <1>2, <2>1
  <2>3. tool # "diffusion" => Has(Current.directory, "impulse")
    BY <1>2, <2>1
  <2> QED BY <2>2, <2>3
<1>4. ~Has(Current.directory, "analysis")
  BY <1>1, <1>2 DEF Inv, Place, InTheStep
<1>5. analyzed \in Renders
  BY <1>3, KnownFile DEF Inv, FilesSound, Fits
<1>6. analyzed = File(Current.directory, "sample")
  <2>1. CASE tool = "diffusion"
    BY <2>1
  <2>2. CASE tool # "diffusion"
    <3>1. <<Current.directory, "impulse">> \in DOMAIN files
          /\ analyzed = files[<<Current.directory, "impulse">>]
      BY <1>3, <2>2 DEF Has, File
    <3>2. Coherent(<<Current.directory, "impulse">>)
      BY <3>1, CoherentFiles DEF Inv, FilesSound
    <3> QED BY <1>5, <3>1, <3>2, MarkersApart DEF Coherent
  <2> QED BY <2>1, <2>2
<1>7. CASE analyzed.channels = source
  <2>1. /\ Write(Current.directory, "analysis", [config |-> analyzed.config, channels |-> source])
        /\ StepDone
    BY <1>7 DEF Analyze
  <2>2. [config |-> analyzed.config, channels |-> source] = analyzed
    BY <1>5, <1>7, RendersEqual
  <2>3. PICK d, c : /\ d = Current.directory /\ c = File(d, "sample") /\ c \in Renders
                    /\ ~Has(d, "analysis") /\ Write(d, "analysis", c)
    BY <1>4, <1>5, <1>6, <2>1, <2>2
  <2>4. Coherent(<<d, "analysis">>)'
    <3>1. files'[<<d, "analysis">>] = c
      BY <2>3, AfterWrite
    <3>2. File(d, "sample")' = File(d, "sample")
      BY <2>3, SourcesAfterWrite DEF Sources
    <3> QED BY <2>3, <3>1, <3>2 DEF Coherent
  <2>5. FilesSound'
    BY <2>3, <2>4, SoundAfterWrite DEF Inv, Fits, Sources
  <2> QED BY <1>1, <1>2, <2>1, <2>3, <2>5, FileMade
<1>8. CASE analyzed.channels # source
  BY <1>1, <1>8, EndingStep DEF Analyze, StepFails
<1> QED BY <1>7, <1>8

LEMMA BenchmarkStepSound ==
  ASSUME Inv, benchmark_case
  PROVE  Step
<1>1. /\ InStep /\ Steps(Current)[step].does = "benchmark" /\ Doing("benchmark")
      /\ UNCHANGED inputs
  BY DEF benchmark_case, Doing
<1>2. /\ step > 1 /\ Target \in {"benchmark", "benchmark-32"}
      /\ Steps(Current)[1].makes = "sample"
  BY <1>1, StepAtHand DEF InOrder, Target
<1>3. Has(Current.directory, "sample")
  BY <1>1, <1>2, StepAtHand
<1>4. ~Has(Current.directory, Target) \/ File(Current.directory, Target) = Truncated
  BY <1>1 DEF Inv, Place, InTheStep, benchmark_case
<1>5. CASE Write(Current.directory, Target, Truncated) /\ Enter("write")
  BY <1>1, <1>2, <1>4, <1>5, FileBegun
<1>6. CASE /\ \E median \in Medians :
                Write(Current.directory, Target,
                      [config |-> File(Current.directory, "sample").config, median |-> median])
           /\ StepDone
  <2>1. PICK median \in Medians :
          Write(Current.directory, Target,
                [config |-> File(Current.directory, "sample").config, median |-> median])
    BY <1>6
  <2>2. File(Current.directory, "sample") \in Renders
    BY <1>3, KnownFile DEF Inv, FilesSound, Fits
  <2>3. PICK d, n, c :
          /\ d = Current.directory /\ n = Target /\ Write(d, n, c)
          /\ c = [config |-> File(d, "sample").config, median |-> median]
          /\ File(d, "sample") \in Renders
          /\ n \in {"benchmark", "benchmark-32"}
          /\ ~Has(d, n) \/ File(d, n) = Truncated
    BY <1>2, <1>4, <2>1, <2>2
  <2>4. c \in Benchmarks /\ c.config = File(d, "sample").config
    BY <2>3 DEF Renders, Benchmarks
  <2>5. Coherent(<<d, n>>)'
    <3>1. files'[<<d, n>>] = c
      BY <2>3 DEF Write
    <3>2. File(d, "sample")' = File(d, "sample")
      BY <2>3, SourcesAfterWrite DEF Sources
    <3>3. File(d, "sample") # None
      BY <2>3, MarkersApart
    <3> QED BY <2>3, <2>4, <3>1, <3>2, <3>3 DEF Coherent
  <2>6. FilesSound'
    BY <2>3, <2>4, <2>5, SoundAfterWrite DEF Inv, Fits, Sources
  <2> QED BY <1>1, <1>6, <2>3, <2>6, FileMade
<1> QED BY <1>5, <1>6 DEF benchmark_case

LEMMA RepeatAtHand ==
  ASSUME Inv, Doing("repeat")
  PROVE  /\ InStep /\ InPoint /\ Target = "determinism"
         /\ Has(Current.directory, "sample") /\ Has(Current.directory, "impulse")
<1>1. InStep /\ Steps(Current)[step].does = "repeat"
  BY DEF Doing
<1>2. /\ step = 4 /\ Target = "determinism"
      /\ Steps(Current)[1].makes = "sample" /\ Steps(Current)[2].makes = "impulse"
  BY <1>1, StepAtHand DEF InOrder, Target
<1>3. \A k \in 1 .. step - 1 : Has(Current.directory, Steps(Current)[k].makes)
  BY <1>1, StepAtHand
<1>4. 1 \in 1 .. step - 1 /\ 2 \in 1 .. step - 1
  BY <1>2
<1> QED BY <1>1, <1>2, <1>3, <1>4, StepAtHand

(* The repeat is removed, and the step goes on or the point ends.          *)
LEMMA RepeatGone ==
  ASSUME Inv, Doing("repeat"), phase \in {"do", "compare"}, UNCHANGED inputs,
         Unlink(Current.directory, "repeat"),
         \/ \E status, benchmark : EndPoint(status, benchmark)
         \/ Enter("write")
  PROVE  Step
<1>1. PICK d : d = Current.directory /\ Unlink(d, "repeat")
  OBVIOUS
<1>2. FilesSound' /\ Keeps
  BY <1>1, SoundAfterUnlink, KeepsAfterUnlink DEF Inv, Sources
<1>3. CASE \E status, benchmark : EndPoint(status, benchmark)
  BY <1>2, <1>3, EndPointPlace, SameInputs DEF Step, Inv, Place
<1>4. CASE Enter("write")
  <2>1. \A x, m : <<x, m>> # <<d, "repeat">> => File(x, m)' = File(x, m) /\ Has(x, m)' = Has(x, m)
    BY <1>1, AfterUnlink
  <2>2. \A x, m : m # "repeat" => File(x, m)' = File(x, m) /\ Has(x, m)' = Has(x, m)
    BY <2>1
  <2>3. Target = "determinism" /\ InStep
    BY RepeatAtHand
  <2>4. ~Has(d, "determinism") \/ File(d, "determinism") = Truncated
    BY <1>1, <2>3 DEF Inv, Place, InTheStep
  <2>5. ~Has(d, "determinism")' \/ File(d, "determinism")' = Truncated
    BY <2>2, <2>4
  <2>6. \A x, m : m # "repeat" /\ Has(x, m) => Has(x, m)'
    BY <2>2
  <2>7. Place'
    BY <1>1, <1>4, <2>3, <2>5, <2>6, EnterPlace DEF Inv, EntersWith
  <2> QED BY <1>2, <2>7, SameInputs DEF Step, Inv
<1> QED BY <1>3, <1>4

LEMMA RepeatRenderStep ==
  ASSUME Inv, RepeatRender
  PROVE  Step
<1>1. Doing("repeat") /\ phase = "do" /\ UNCHANGED inputs
  BY DEF RepeatRender
<1>2. CASE Unlink(Current.directory, "repeat") /\ StepFails
  BY <1>1, <1>2, RepeatGone DEF StepFails
<1>3. CASE /\ ~Has(Current.directory, "repeat")
           /\ Write(Current.directory, "repeat", File(Current.directory, "sample").config)
           /\ Enter("compare")
  <2>1. /\ InStep /\ Target = "determinism" /\ Has(Current.directory, "sample")
    BY <1>1, RepeatAtHand
  <2>2. File(Current.directory, "sample").config \in Requests
    BY <2>1, KnownFile DEF Inv, FilesSound, Fits, Renders
  <2>3. ~Has(Current.directory, "determinism")
    BY <1>1, <2>1 DEF Inv, Place, InTheStep
  <2>4. PICK d, c : /\ d = Current.directory /\ c \in Requests /\ Write(d, "repeat", c)
                    /\ ~Has(d, "determinism")
    BY <1>3, <2>2, <2>3
  <2>5. Keeps
    BY <2>4, KeepsAfterWrite
  <2>6. Coherent(<<d, "repeat">>)'
    BY DEF Coherent
  <2>7. FilesSound'
    BY <2>4, <2>6, SoundAfterWrite DEF Inv, Fits, Sources
  <2>8. ~Has(d, "determinism")' /\ \A x, m : Has(x, m) => Has(x, m)'
    BY <2>4 DEF Has, Write
  <2>9. Place'
    BY <1>1, <1>3, <2>1, <2>4, <2>8, EnterPlace DEF Inv, EntersWith
  <2> QED BY <1>1, <2>5, <2>7, <2>9, SameInputs DEF Step, Inv
<1> QED BY <1>2, <1>3 DEF RepeatRender

LEMMA CompareRepeatStep ==
  ASSUME Inv, CompareRepeat
  PROVE  Step
<1>1. /\ Doing("repeat") /\ phase = "compare" /\ UNCHANGED inputs
      /\ Unlink(Current.directory, "repeat")
  BY DEF CompareRepeat
<1>2. (\E status, benchmark : EndPoint(status, benchmark)) \/ Enter("write")
  BY DEF CompareRepeat, StepFails
<1> QED BY <1>1, <1>2, RepeatGone

LEMMA DeterminismStep ==
  ASSUME Inv, WriteDeterminism
  PROVE  Step
<1>1. Doing("repeat") /\ UNCHANGED inputs
  BY DEF WriteDeterminism
<1>2. /\ InStep /\ Target = "determinism" /\ Has(Current.directory, "impulse")
  BY <1>1, RepeatAtHand
<1>3. ~Has(Current.directory, Target) \/ File(Current.directory, Target) = Truncated
  BY <1>2 DEF Inv, Place, InTheStep, WriteDeterminism
<1>4. CASE Write(Current.directory, Target, Truncated) /\ Enter("written")
  BY <1>1, <1>2, <1>3, <1>4, FileBegun
<1>5. CASE Write(Current.directory, Target, File(Current.directory, "impulse")) /\ StepDone
  <2>1. File(Current.directory, "impulse") \in Renders
    BY <1>2, KnownFile DEF Inv, FilesSound, Fits
  <2>2. PICK d, n, c :
          /\ d = Current.directory /\ n = Target /\ n = "determinism"
          /\ c = File(d, "impulse") /\ c \in Renders /\ Write(d, n, c)
          /\ ~Has(d, n) \/ File(d, n) = Truncated
    BY <1>2, <1>3, <1>5, <2>1
  <2>3. Coherent(<<d, n>>)'
    <3>1. files'[<<d, n>>] = c
      BY <2>2 DEF Write
    <3>2. File(d, "impulse")' = File(d, "impulse")
      BY <2>2, SourcesAfterWrite DEF Sources
    <3> QED BY <2>2, <3>1, <3>2 DEF Coherent
  <2>4. FilesSound'
    BY <2>2, <2>3, SoundAfterWrite DEF Inv, Fits, Sources
  <2> QED BY <1>1, <1>2, <1>5, <2>2, <2>4, FileMade
<1> QED BY <1>4, <1>5 DEF WriteDeterminism

LEMMA InvInit == Init => Inv
<1> SUFFICES ASSUME Init PROVE Inv
  OBVIOUS
<1>1. InputsKnown
  BY DEF Init, InputsKnown
<1>2. DOMAIN files = {}
  BY DEF Init
<1>3. FilesSound
  BY <1>2 DEF FilesSound, FilesKnown, PointCoherent
<1>4. at = 0 /\ step = 1 /\ point = 1 /\ phase = "check"
  BY DEF Init
<1>5. ~InPoint /\ ~InStep
  BY <1>4 DEF InPoint, InStep, In, Running
<1>6. Place
  BY <1>4, <1>5 DEF Place, PositionKnown, Made, InTheStep
<1> QED BY <1>1, <1>3, <1>6 DEF Inv

LEMMA InvNext == Inv /\ [Next]_vars => Step
<1> SUFFICES ASSUME Inv, [Next]_vars PROVE Step
  OBVIOUS
<1>1. CASE Command
  BY <1>1, MainSteps, CheckStepStep, WriteRequestStep, RenderStepSound, ImpulseStepSound,
     AnalyzeStepSound, BenchmarkStepSound, RepeatRenderStep, CompareRepeatStep, DeterminismStep,
     EndSteps DEF Command
<1>2. CASE Start \/ Kill \/ Edit \/ DeleteBadBenchmark
  BY <1>2, StartStep, EndSteps, EditStep, DeleteStep
<1>3. CASE UNCHANGED vars
  <2>1. UNCHANGED <<inputs, files>> /\ UNCHANGED <<at, point, step, phase>> /\ UNCHANGED position
    BY <1>3 DEF vars, position
  <2>2. InputsKnown' /\ FilesSound' /\ Keeps
    BY <2>1, SameFiles, SameInputs DEF Inv
  <2>3. /\ InPoint' = InPoint /\ Current' = Current /\ Steps(Current)' = Steps(Current)
        /\ In("points")' = In("points")
    BY <2>1, SamePoint
  <2>4. Points' = Points
    BY <2>1 DEF inputs
  <2>5. InStep' = InStep /\ Target' = Target
    BY <2>1, <2>3, <2>4 DEF InStep, Target
  <2>6. PositionKnown'
    BY <2>1, <2>3, <2>5 DEF PositionKnown, Inv, Place
  <2>7. Made'
    BY <2>1, <2>3 DEF Made, Has, Inv, Place
  <2>8. InTheStep'
    BY <2>1, <2>3, <2>5 DEF InTheStep, Has, File, Doing, Inv, Place
  <2> QED BY <2>2, <2>6, <2>7, <2>8 DEF Step, Inv, Place
<1> QED BY <1>1, <1>2, <1>3 DEF Next

LEMMA InvHolds == Spec => []Inv
<1>1. Inv /\ [Next]_vars => Inv'
  BY InvNext DEF Step
<1> QED BY InvInit, <1>1, PTL DEF Spec

(* What lies in the folder of a point is of one configuration.             *)
THEOREM PointsCoherent == Spec => []PointCoherent
<1>1. Inv => PointCoherent
  BY DEF Inv, FilesSound
<1> QED BY <1>1, InvHolds, PTL

(* No step of any run removes or rewrites a file that is whole.            *)
THEOREM NothingRepeated == Spec => ResumedNotRepeated
<1>1. Inv /\ [Next]_vars =>
        [\A f \in DOMAIN files :
           files[f] # Truncated /\ f[2] \notin {"request", "repeat"} =>
             f \in DOMAIN files' /\ files'[f] = files[f]]_vars
  BY InvNext DEF Step, Keeps
<1> QED BY <1>1, InvHolds, PTL DEF Spec, ResumedNotRepeated

----------------------------------------------------------------------------
(* The position, the outcomes and the exit.                                *)
Codes == {None, "ok", "error", "skipped", "raised", "killed"}
Statuses == {"completed", "resumed", "skipped", "failed"}
WholeBenchmarks == {files[f] : f \in {g \in DOMAIN files : g[2] = "benchmark" /\ files[g] # Truncated}}
Entries ==
  [name : {Points[i].name : i \in DOMAIN Points}, status : Statuses,
   benchmark : {None} \cup WholeBenchmarks]

Booked ==
  /\ at \in 0 .. Len(Main)
  /\ Running => point \in 1 .. Len(Points) + 1
  /\ ~Running => point = 1 /\ outcomes = << >>
  /\ exit \in Codes
  /\ outcomes \in Seq(Entries)

LEMMA MainEnds ==
  ASSUME tool \in Tools
  PROVE  Len(Main) \in Nat \ {0} /\ Main[Len(Main)] \in {"exit"}
<1>1. tool \in {"tail", "damping", "modulation", "spatial", "diffusion"}
  BY ExperimentSweepAssumption
<1>2. Len(TailMain) = 8 /\ TailMain[8] = "exit"
  BY DEF TailMain
<1>3. Len(DampingMain) = 8 /\ DampingMain[8] = "exit"
  BY DEF DampingMain
<1>4. Len(ModulationMain) = 9 /\ ModulationMain[9] = "exit"
  BY DEF ModulationMain
<1>5. Len(SpatialMain) = 9 /\ SpatialMain[9] = "exit"
  BY DEF SpatialMain
<1>6. Len(DiffusionMain) = 5 /\ DiffusionMain[5] = "exit"
  BY DEF DiffusionMain
<1>7. \/ Main = TailMain \/ Main = DampingMain \/ Main = ModulationMain
      \/ Main = SpatialMain \/ Main = DiffusionMain
  BY <1>1 DEF Main
<1>8. \E n \in Nat \ {0} : Len(Main) = n /\ Main[n] = "exit"
  <2>1. CASE Main = TailMain
    BY <1>2, <2>1
  <2>2. CASE Main = DampingMain
    BY <1>3, <2>2
  <2>3. CASE Main = ModulationMain
    BY <1>4, <2>3
  <2>4. CASE Main = SpatialMain
    BY <1>5, <2>4
  <2>5. CASE Main = DiffusionMain
    BY <1>6, <2>5
  <2> QED BY <1>7, <2>1, <2>2, <2>3, <2>4, <2>5
<1> QED BY <1>8

LEMMA EntriesGrow ==
  ASSUME Keeps, UNCHANGED Points
  PROVE  Entries \subseteq Entries'
<1>1. WholeBenchmarks \subseteq WholeBenchmarks'
  <2> SUFFICES ASSUME NEW f \in DOMAIN files, f[2] = "benchmark", files[f] # Truncated
               PROVE  files[f] \in WholeBenchmarks'
    BY DEF WholeBenchmarks
  <2>1. f \in DOMAIN files' /\ files'[f] = files[f]
    BY DEF Keeps
  <2> QED BY <2>1 DEF WholeBenchmarks
<1> QED BY <1>1 DEF Entries

LEMMA EntriesKept ==
  ASSUME Keeps, UNCHANGED Points, outcomes \in Seq(Entries)
  PROVE  outcomes \in Seq(Entries')
  BY EntriesGrow

LEMMA BookedStop ==
  ASSUME NEW code \in Codes, Stop(code), InputsKnown', Len(Main)' \in Nat
  PROVE  Booked'
<1>1. at' = 0 /\ point' = 1 /\ outcomes' = << >> /\ exit' = code /\ ~Running'
  BY DEF Stop, Running
<1>2. at' \in 0 .. Len(Main)'
  BY <1>1
<1>3. outcomes' \in Seq(Entries)'
  BY <1>1
<1> QED BY <1>1, <1>2, <1>3 DEF Booked

LEMMA SameMain == ASSUME UNCHANGED tool PROVE Main' = Main
  BY DEF Main

LEMMA BookedProceed ==
  ASSUME Inv, Booked, Keeps, UNCHANGED inputs, NEW name, In(name), name # "exit", Proceed
  PROVE  Booked'
<1>1. Running /\ Main[at] = name /\ UNCHANGED tool /\ UNCHANGED Points
  BY DEF In, inputs
<1>2. Len(Main) \in Nat \ {0} /\ Main[Len(Main)] = "exit"
  BY MainEnds DEF Inv, InputsKnown
<1>3. at # Len(Main) /\ at \in 1 .. Len(Main)
  BY <1>1, <1>2 DEF Booked, Running
<1>4. at' \in 1 .. Len(Main) /\ UNCHANGED <<point, outcomes, exit>>
  BY <1>2, <1>3 DEF Proceed
<1>5. Main' = Main /\ Running'
  BY <1>1, <1>4, SameMain DEF Running
<1>6. outcomes' \in Seq(Entries')
  BY <1>1, <1>4, EntriesKept DEF Booked
<1> QED BY <1>1, <1>4, <1>5, <1>6 DEF Booked

(* Within a point and between two of its steps.                            *)
LEMMA BookedSame ==
  ASSUME Booked, Keeps, UNCHANGED inputs, UNCHANGED <<at, point, outcomes, exit>>
  PROVE  Booked'
<1>1. UNCHANGED tool /\ UNCHANGED Points
  BY DEF inputs
<1>2. Main' = Main /\ Running' = Running
  BY <1>1, SameMain DEF Running
<1>3. outcomes' \in Seq(Entries')
  BY <1>1, EntriesKept DEF Booked
<1> QED BY <1>1, <1>2, <1>3 DEF Booked

LEMMA BookedEndPoint ==
  ASSUME Inv, Booked, Keeps, UNCHANGED inputs, InPoint,
         NEW status \in Statuses, NEW benchmark \in {None} \cup WholeBenchmarks,
         EndPoint(status, benchmark)
  PROVE  Booked'
<1>1. Running /\ UNCHANGED tool /\ UNCHANGED Points /\ UNCHANGED <<at, exit>>
  BY DEF InPoint, In, inputs, EndPoint
<1>2. Main' = Main /\ Running' = Running
  BY <1>1, SameMain DEF Running
<1>3. point' \in 1 .. Len(Points) + 1
  <2>1. point \in 1 .. Len(Points) /\ Len(Points) \in Nat
    BY <1>1, PointsListed DEF InPoint, Booked, Inv
  <2> QED BY <2>1 DEF EndPoint
<1>4. outcomes' \in Seq(Entries)
  <2>1. [name |-> Current.name, status |-> status, benchmark |-> benchmark] \in Entries
    BY PointAtHand DEF Inv, Place, Entries, Current
  <2> QED BY <2>1 DEF Booked, EndPoint
<1>5. outcomes' \in Seq(Entries')
  <2>1. Entries \subseteq Entries'
    BY <1>1, EntriesGrow
  <2> QED BY <1>4, <2>1
<1> QED BY <1>1, <1>2, <1>3, <1>5 DEF Booked

LEMMA BookedInit == Init => Booked
<1> SUFFICES ASSUME Init PROVE Booked
  OBVIOUS
<1>1. at = 0 /\ point = 1 /\ outcomes = << >> /\ exit = None /\ ~Running
  BY DEF Init, Running
<1>2. Len(Main) \in Nat
  BY MainEnds DEF Init
<1>3. at \in 0 .. Len(Main)
  BY <1>1, <1>2
<1> QED BY <1>1, <1>3 DEF Booked, Codes

LEMMA BookedCommand ==
  ASSUME Inv, Inv', Booked, Keeps, Command
  PROVE  Booked'
<1>1. Len(Main)' \in Nat
  <2>1. tool' \in Tools
    BY DEF Inv, InputsKnown
  <2>2. UNCHANGED tool
    BY DEF Command, LoadCatalog, RequireScopes, RequireSample, MatchImpulse, CheckStep,
           WriteRequest, render_case, render_from_resolved, Analyze, benchmark_case,
           RepeatRender, CompareRepeat, WriteDeterminism, ChildFails, FinishPoint, FinishPoints,
           depth_identity_invariant, WriteSummary, compare_coherent_downmix, WriteStatus,
           generate_report, Exit, StepFails, inputs
  <2>3. Main' = Main
    BY <2>2, SameMain
  <2> QED BY <2>3, MainEnds DEF Inv, InputsKnown
<1>2. InputsKnown'
  BY DEF Inv
<1>3. CASE LoadCatalog \/ RequireScopes \/ RequireSample \/ MatchImpulse \/ FinishPoints
           \/ depth_identity_invariant \/ WriteSummary \/ compare_coherent_downmix
           \/ WriteStatus \/ generate_report \/ Exit
  <2>1. UNCHANGED inputs
    BY <1>3 DEF LoadCatalog, RequireScopes, RequireSample, MatchImpulse, FinishPoints,
                depth_identity_invariant, WriteSummary, compare_coherent_downmix, WriteStatus,
                generate_report, Exit
  <2>2. \/ \E code \in Codes : Stop(code)
        \/ Proceed /\ \E name : In(name) /\ name # "exit"
    BY <1>3 DEF LoadCatalog, RequireScopes, RequireSample, MatchImpulse, FinishPoints,
                depth_identity_invariant, WriteSummary, compare_coherent_downmix, WriteStatus,
                generate_report, Exit, Codes
  <2> QED BY <1>1, <1>2, <2>1, <2>2, BookedStop, BookedProceed
<1>4. CASE CheckStep
  <2>1. InPoint /\ UNCHANGED inputs
    BY <1>4 DEF CheckStep, InStep, InPoint
  <2>2. \/ EndPoint("failed", None)
        \/ UNCHANGED <<at, point, outcomes, exit>>
    BY <1>4 DEF CheckStep, Enter
  <2> QED BY <2>1, <2>2, BookedSame, BookedEndPoint DEF Statuses
<1>5. CASE WriteRequest \/ render_case \/ render_from_resolved \/ Analyze \/ benchmark_case
           \/ RepeatRender \/ CompareRepeat \/ WriteDeterminism \/ ChildFails
  <2>1. InPoint /\ UNCHANGED inputs
    BY <1>5 DEF WriteRequest, render_case, render_from_resolved, Analyze, benchmark_case,
                RepeatRender, CompareRepeat, WriteDeterminism, ChildFails, Doing, InStep, InPoint,
                StepFails
  <2>2. \/ EndPoint("failed", None)
        \/ UNCHANGED <<at, point, outcomes, exit>>
    BY <1>5 DEF WriteRequest, render_case, render_from_resolved, Analyze, benchmark_case,
                RepeatRender, CompareRepeat, WriteDeterminism, ChildFails, StepFails, Enter,
                StepDone
  <2> QED BY <2>1, <2>2, BookedSame, BookedEndPoint DEF Statuses
<1>6. CASE FinishPoint
  <2> DEFINE benchmark == File(Current.directory, "benchmark")
             status == CASE Steps(Current) = << >> -> "skipped"
                         [] newWork -> "completed"
                         [] OTHER -> "resumed"
  <2>1. CASE benchmark = Truncated
    <3>1. Stop("raised")
      BY <1>6, <2>1 DEF FinishPoint
    <3> QED BY <3>1, <1>1, <1>2, BookedStop DEF Codes
  <2>2. CASE benchmark # Truncated
    <3>1. EndPoint(status, benchmark) /\ InPoint /\ UNCHANGED inputs
      BY <1>6, <2>2 DEF FinishPoint, InPoint
    <3>2. status \in Statuses
      BY DEF Statuses
    <3>3. benchmark \in {None} \cup WholeBenchmarks
      <4>1. CASE Has(Current.directory, "benchmark")
        <5>1. <<Current.directory, "benchmark">> \in DOMAIN files
              /\ benchmark = files[<<Current.directory, "benchmark">>]
          BY <4>1 DEF Has, File
        <5> QED BY <2>2, <5>1 DEF WholeBenchmarks
      <4>2. CASE ~Has(Current.directory, "benchmark")
        BY <4>2 DEF File
      <4> QED BY <4>1, <4>2
    <3> HIDE DEF status, benchmark
    <3> QED BY <3>1, <3>2, <3>3, BookedEndPoint
  <2> QED BY <2>1, <2>2
<1> QED BY <1>3, <1>4, <1>5, <1>6 DEF Command

LEMMA BookedNext ==
  ASSUME Inv, Inv', Booked, Keeps, [Next]_vars
  PROVE  Booked'
<1>1. CASE Command
  BY <1>1, BookedCommand
<1>2. CASE Start
  <2>1. /\ UNCHANGED inputs /\ at' = 1 /\ exit' = None /\ UNCHANGED <<point, outcomes>>
        /\ point = 1 /\ outcomes = << >>
    BY <1>2 DEF Start, Booked
  <2>2. Len(Main)' \in Nat \ {0}
    <3>1. Main' = Main
      BY <2>1, SameMain DEF inputs
    <3> QED BY <3>1, MainEnds DEF Inv, InputsKnown
  <2>3. Len(Points)' \in Nat
    BY <2>1, PointsListed DEF Inv, inputs
  <2>4. at' \in 0 .. Len(Main)' /\ Running' /\ point' \in 1 .. Len(Points)' + 1
    BY <2>1, <2>2, <2>3 DEF Running
  <2>5. outcomes' \in Seq(Entries')
    BY <2>1
  <2> QED BY <2>1, <2>4, <2>5 DEF Booked, Codes
<1>3. CASE Kill
  <2>1. Stop("killed") /\ UNCHANGED inputs
    BY <1>3 DEF Kill
  <2>2. Main' = Main
    BY <2>1, SameMain DEF inputs
  <2>3. Len(Main)' \in Nat
    BY <2>2, MainEnds DEF Inv, InputsKnown
  <2> QED BY <2>1, <2>3, BookedStop DEF Codes, Inv
<1>4. CASE Edit
  <2>1. /\ UNCHANGED <<tool, at, point, outcomes>> /\ exit' = None /\ ~Running
        /\ point = 1 /\ outcomes = << >> /\ at = 0
    BY <1>4 DEF Edit, Booked, Running
  <2>2. Main' = Main
    BY <2>1, SameMain
  <2>3. Len(Main)' \in Nat
    BY <2>2, MainEnds DEF Inv, InputsKnown
  <2>4. at' \in 0 .. Len(Main)' /\ ~Running'
    BY <2>1, <2>3 DEF Running
  <2>5. outcomes' \in Seq(Entries')
    BY <2>1
  <2> QED BY <2>1, <2>4, <2>5 DEF Booked, Codes
<1>5. CASE DeleteBadBenchmark \/ UNCHANGED vars
  BY <1>5, BookedSame DEF DeleteBadBenchmark, vars, position
<1> QED BY <1>1, <1>2, <1>3, <1>4, <1>5 DEF Next

LEMMA BookedTyped == Inv /\ Booked => TypeOK
<1> SUFFICES ASSUME Inv, Booked PROVE TypeOK
  OBVIOUS
<1>1. Range(outcomes) \subseteq Entries
  BY DEF Booked, Range
<1>2. WholeBenchmarks \subseteq {files[f] : f \in DOMAIN files}
  BY DEF WholeBenchmarks
<1>3. Range(outcomes) \subseteq
        [name : {Points[i].name : i \in DOMAIN Points},
         status : {"completed", "resumed", "skipped", "failed"},
         benchmark : {None} \cup {files[f] : f \in DOMAIN files}]
  BY <1>1, <1>2 DEF Entries, Statuses
<1> QED BY <1>3 DEF Inv, InputsKnown, Booked, TypeOK, Codes

(* Types, for any catalogs and any number of points.                       *)
THEOREM TypeCorrect == Spec => []TypeOK
<1>1. Init => Booked
  BY BookedInit
<1>2. Inv /\ Inv' /\ Booked /\ [Next]_vars => Booked'
  BY InvNext, BookedNext DEF Step
<1> QED BY <1>1, <1>2, InvHolds, BookedTyped, PTL DEF Spec

----------------------------------------------------------------------------
(* A run that ends with 0 has done everything.                             *)

(* Every median has its place in the ranking.                              *)
LEMMA AllRanked ==
  ASSUME NEW medians, IsFiniteSet(DOMAIN medians),
         \A i \in DOMAIN medians : i \in Nat /\ medians[i] \in Int,
         NEW ranked, ranked = RankedBySlowest(medians)
  PROVE  /\ ranked \in Seq(DOMAIN medians)
         /\ \A i \in DOMAIN medians : \E k \in DOMAIN ranked : ranked[k] = i
         /\ \A k \in 2 .. Len(ranked) : medians[ranked[k - 1]] >= medians[ranked[k]]
<1> DEFINE D == DOMAIN medians
           Before(x, y) == medians[x] > medians[y] \/ (medians[x] = medians[y] /\ x < y)
           Ahead(x) == {y \in D : Before(y, x)}
           before == [x \in D |-> Ahead(x)]
           place == [x \in D |-> Cardinality(Ahead(x)) + 1]
<1>0. ranked = InPlace(before)
  BY DEF RankedBySlowest
<1>2. \A x, y \in D : x # y => Before(x, y) \/ Before(y, x)
  OBVIOUS
<1>3. \A x, y, z \in D : Before(x, y) /\ Before(y, z) => Before(x, z)
  OBVIOUS
<1>4. \A x \in D : ~Before(x, x)
  OBVIOUS
<1> HIDE DEF Before
<1>5. \A x \in D : Ahead(x) \in SUBSET D /\ x \notin Ahead(x)
  BY <1>4
<1>6. ASSUME NEW x \in D PROVE IsFiniteSet(Ahead(x)) /\ Cardinality(Ahead(x)) \in Nat
  BY <1>5, FS_Subset, FS_CardinalityType
<1>7. ASSUME NEW x \in D, NEW y \in D, Before(x, y)
      PROVE  Cardinality(Ahead(x)) < Cardinality(Ahead(y))
  <2>1. Ahead(x) \in SUBSET Ahead(y) /\ Ahead(x) # Ahead(y)
    BY <1>3, <1>5, <1>7
  <2> HIDE DEF Ahead
  <2>2. /\ Cardinality(Ahead(x)) <= Cardinality(Ahead(y))
        /\ Cardinality(Ahead(x)) # Cardinality(Ahead(y))
    BY <2>1, <1>6, FS_Subset
  <2> QED BY <2>2, <1>6
<1>8. \A x, y \in D : Cardinality(Ahead(x)) = Cardinality(Ahead(y)) => x = y
  <2> SUFFICES ASSUME NEW x \in D, NEW y \in D, Cardinality(Ahead(x)) = Cardinality(Ahead(y)),
                      x # y
               PROVE  FALSE
    OBVIOUS
  <2> HIDE DEF Ahead
  <2>1. Cardinality(Ahead(x)) < Cardinality(Ahead(y)) \/ Cardinality(Ahead(y)) < Cardinality(Ahead(x))
    BY <1>2, <1>7
  <2> QED BY <2>1, <1>6
<1>9. ASSUME NEW x \in D
      PROVE  Cardinality(Ahead(x)) < Cardinality(D) /\ Cardinality(D) \in Nat
  <2>1. Ahead(x) \in SUBSET D /\ Ahead(x) # D
    BY <1>5
  <2>2. Cardinality(Ahead(x)) \in Nat
    BY <1>6
  <2> HIDE DEF Ahead, D
  <2>3. Cardinality(D) \in Nat /\ Cardinality(Ahead(x)) <= Cardinality(D)
        /\ Cardinality(Ahead(x)) # Cardinality(D)
    BY <2>1, FS_Subset, FS_CardinalityType DEF D
  <2> QED BY <2>2, <2>3 DEF D
<1>10. Cardinality(D) \in Nat
  BY FS_CardinalityType
<1> HIDE DEF Ahead
<1>11. DOMAIN before = D /\ \A x \in D : before[x] = Ahead(x)
  OBVIOUS
<1>12. place \in Injection(D, 1 .. Cardinality(D))
  <2>1. \A x \in D : place[x] = Cardinality(Ahead(x)) + 1 /\ place[x] \in 1 .. Cardinality(D)
    BY <1>6, <1>9
  <2>2. \A x, y \in D : place[x] = place[y] => x = y
    BY <1>6, <1>8, <2>1
  <2>3. place \in [D -> 1 .. Cardinality(D)]
    BY <2>1
  <2> HIDE DEF place
  <2> QED BY <2>2, <2>3 DEF Injection, IsInjective
<1>13. \A k \in 1 .. Cardinality(D) : \E x \in D : place[x] = k
  <2>1. IsFiniteSet(1 .. Cardinality(D)) /\ Cardinality(1 .. Cardinality(D)) = Cardinality(D)
    BY <1>10, FS_Interval
  <2> HIDE DEF place
  <2>2. place \in Surjection(D, 1 .. Cardinality(D))
    BY <1>12, <2>1, FS_Injection
  <2> QED BY <2>2 DEF Surjection
<1>14. \A x \in D : place[x] - 1 = Cardinality(before[x])
  BY <1>6, <1>11
<1>15. \A k \in 1 .. Cardinality(D), x \in D : Cardinality(before[x]) = k - 1 <=> place[x] = k
  <2> SUFFICES ASSUME NEW k \in 1 .. Cardinality(D), NEW x \in D
               PROVE  Cardinality(before[x]) = k - 1 <=> place[x] = k
    OBVIOUS
  <2>1. place[x] \in Nat /\ k \in Nat
    BY <1>6, <1>10
  <2> QED BY <1>14, <2>1
<1> HIDE DEF before, place
<1>16. ASSUME NEW k \in 1 .. Cardinality(D)
       PROVE  ranked[k] \in D /\ place[ranked[k]] = k
  <2>1. ranked[k] = CHOOSE x \in D : Cardinality(before[x]) = k - 1
    BY <1>0, <1>11 DEF InPlace
  <2>2. \E x \in D : Cardinality(before[x]) = k - 1
    BY <1>13, <1>15
  <2>3. ranked[k] \in D /\ Cardinality(before[ranked[k]]) = k - 1
    BY <2>1, <2>2
  <2> QED BY <2>3, <1>15
<1>17. ranked \in [1 .. Cardinality(D) -> D]
  <2>1. ranked = [k \in 1 .. Cardinality(D) |-> CHOOSE x \in D : Cardinality(before[x]) = k - 1]
    BY <1>0, <1>11 DEF InPlace
  <2> QED BY <1>16, <2>1
<1>18. ASSUME NEW i \in D PROVE \E k \in DOMAIN ranked : ranked[k] = i
  <2>1. place[i] \in 1 .. Cardinality(D)
    BY <1>12 DEF Injection
  <2>2. ranked[place[i]] \in D /\ place[ranked[place[i]]] = place[i]
    BY <2>1, <1>16
  <2>3. ranked[place[i]] = i
    BY <2>2, <1>12 DEF Injection, IsInjective
  <2> QED BY <2>1, <2>3, <1>17
<1>19. ASSUME NEW k \in 2 .. Cardinality(D)
       PROVE  medians[ranked[k - 1]] >= medians[ranked[k]]
  <2> DEFINE x == ranked[k]
             y == ranked[k - 1]
  <2>1. k \in 1 .. Cardinality(D) /\ k - 1 \in 1 .. Cardinality(D)
    BY <1>10
  <2>2. x \in D /\ y \in D /\ place[x] = k /\ place[y] = k - 1
    BY <2>1, <1>16
  <2>3. Cardinality(before[x]) = k - 1 /\ Cardinality(before[y]) = (k - 1) - 1
    BY <2>1, <2>2, <1>15
  <2> HIDE DEF x, y
  <2>4. ~Before(x, y)
    <3> SUFFICES ASSUME Before(x, y) PROVE FALSE
      OBVIOUS
    <3>1. Cardinality(Ahead(x)) < Cardinality(Ahead(y))
      BY <2>2, <1>7
    <3>2. k - 1 < (k - 1) - 1
      BY <2>2, <2>3, <3>1, <1>11
    <3> QED BY <3>2, <1>10
  <2>5. medians[x] \in Int /\ medians[y] \in Int
    BY <2>2
  <2>6. ~(medians[x] > medians[y])
    BY <2>4 DEF Before
  <2> QED BY <2>5, <2>6 DEF x, y
<1>20. Len(ranked) = Cardinality(D)
  BY <1>10, <1>17
<1> QED BY <1>10, <1>17, <1>18, <1>19, <1>20

LEMMA RequestingFields ==
  ASSUME NEW t, NEW c, NEW p, NEW field \in DOMAIN p, field \notin {"request", "isolated"}
  PROVE  Requesting(t, c, p)[field] = p[field]
  BY DEF Requesting

(* A quantitative case and a listening case have folders of their own, and *)
(* the Reference is one of the points.                                     *)
LEMMA DiffusionPointsKnown ==
  ASSUME InputsKnown, tool = "diffusion", DOMAIN Points # {}
  PROVE  /\ \A i \in DOMAIN Points :
              Points[i].directory[1] = IF Points[i].listening THEN "listening" ELSE "cases"
         /\ \E i \in DOMAIN Points : Points[i].name = Reference /\ Points[i].listening = FALSE
<1> DEFINE c == catalog
           Paired(l) == CHOOSE case \in Range(c.cases) : case.name = l.pairedQuantitativeCase
           s == [k \in DOMAIN c.cases |->
                   [name |-> c.cases[k].name, directory |-> <<"cases", c.cases[k].name>>,
                    overrides |-> c.cases[k].overrides, source |-> c.cases[k].source,
                    listening |-> FALSE]]
           t == [k \in DOMAIN c.listeningCases |->
                   [name |-> c.listeningCases[k].name,
                    directory |-> <<"listening", c.listeningCases[k].name>>,
                    overrides |-> Paired(c.listeningCases[k]).overrides, listening |-> TRUE]]
<1>1. /\ tool \in Tools /\ c \in Catalogs(tool) /\ Points = Plan(tool, c)
  BY DEF InputsKnown
<1>2. LoadsIn(tool, c)
  BY <1>1 DEF Plan
<1>3. /\ c.cases \in Seq(Range(c.cases))
      /\ c.listeningCases \in Seq(Range(c.listeningCases))
  BY <1>1, <1>2, ExperimentSweepAssumption DEF Arrays
<1>4. DiffusionPoints(c) = s \o t
  BY DEF DiffusionPoints
<1>5. /\ DOMAIN Points = DOMAIN (s \o t)
      /\ \A i \in DOMAIN Points : Points[i] = Requesting(tool, c, (s \o t)[i])
  BY <1>1, <1>2, <1>4 DEF Plan
<1>6. s \in Seq({s[k] : k \in DOMAIN s}) /\ t \in Seq({t[k] : k \in DOMAIN t})
  <2>1. s \in [DOMAIN c.cases -> {s[k] : k \in DOMAIN s}]
    OBVIOUS
  <2>2. t \in [DOMAIN c.listeningCases -> {t[k] : k \in DOMAIN t}]
    OBVIOUS
  <2> HIDE DEF s, t
  <2> QED BY <1>3, <2>1, <2>2, MappedIsSequence
<1>7. \A k \in DOMAIN s : /\ {"name", "directory", "listening"} \subseteq DOMAIN s[k]
                          /\ s[k].directory[1] = "cases" /\ s[k].listening = FALSE
  OBVIOUS
<1>8. \A k \in DOMAIN t : /\ {"directory", "listening"} \subseteq DOMAIN t[k]
                          /\ t[k].directory[1] = "listening" /\ t[k].listening = TRUE
  OBVIOUS
<1>9. \E k \in DOMAIN s : s[k].name = Reference
  <2>1. Reference \in Range([k \in DOMAIN c.cases |-> c.cases[k].name])
    BY <1>1, <1>2 DEF LoadsIn, load_diffusion_catalog
  <2>2. PICK k \in DOMAIN c.cases : c.cases[k].name = Reference
    BY <2>1 DEF Range
  <2>3. k \in DOMAIN s /\ s[k].name = c.cases[k].name
    OBVIOUS
  <2> QED BY <2>2, <2>3
<1> HIDE DEF s, t
<1>10. \A i \in DOMAIN Points : \/ \E k \in DOMAIN s : (s \o t)[i] = s[k]
                               \/ \E k \in DOMAIN t : (s \o t)[i] = t[k]
  BY <1>5, <1>6
<1>11. \A i \in DOMAIN s : i \in DOMAIN Points /\ (s \o t)[i] = s[i]
  BY <1>5, <1>6
<1>12. ASSUME NEW i \in DOMAIN Points
       PROVE  Points[i].directory[1] = IF Points[i].listening THEN "listening" ELSE "cases"
  <2>1. PICK p : /\ Points[i] = Requesting(tool, c, p)
                 /\ {"directory", "listening"} \subseteq DOMAIN p
                 /\ p.directory[1] = IF p.listening THEN "listening" ELSE "cases"
    BY <1>5, <1>7, <1>8, <1>10
  <2>2. Points[i].directory = p.directory /\ Points[i].listening = p.listening
    BY <2>1, RequestingFields
  <2> QED BY <2>1, <2>2
<1>13. PICK i \in DOMAIN s : s[i].name = Reference
  BY <1>9
<1>14. Points[i] = Requesting(tool, c, s[i]) /\ i \in DOMAIN Points
  BY <1>5, <1>11
<1>15. Points[i].name = Reference /\ Points[i].listening = FALSE
  BY <1>7, <1>13, <1>14, RequestingFields
<1> QED BY <1>12, <1>14, <1>15

(* Whether the steps of a point make the benchmark that is ranked.         *)
MakesBenchmark(p) == \E k \in DOMAIN Steps(p) : Steps(p)[k].makes = "benchmark"

LEMMA BenchmarkMade ==
  ASSUME tool \in Tools, NEW p, tool # "spatial", tool = "diffusion" => ~p.listening
  PROVE  MakesBenchmark(p)
<1>1. CASE tool # "diffusion"
  <2>1. Steps(p) = <<RenderStep, ImpulseStep, AnalysisStep, BenchmarkStep>>
    BY <1>1, StepsListed
  <2>2. 4 \in DOMAIN Steps(p) /\ Steps(p)[4] = BenchmarkStep
    BY <2>1, ElementsOfFour
  <2> QED BY <2>2 DEF MakesBenchmark, BenchmarkStep
<1>2. CASE tool = "diffusion"
  <2>1. \/ Steps(p) = <<RenderStep, AnalysisStep, BenchmarkStep>>
        \/ Steps(p) = <<RenderStep, AnalysisStep, BenchmarkStep, OtherBenchmark>>
    BY <1>2, StepsListed
  <2>2. 3 \in DOMAIN Steps(p) /\ Steps(p)[3] = BenchmarkStep
    BY <2>1, ElementsOfThree, ElementsOfFour
  <2> QED BY <2>2 DEF MakesBenchmark, BenchmarkStep
<1> QED BY <1>1, <1>2

LEMMA SweepReference ==
  ASSUME InputsKnown, DOMAIN Points # {}, tool # "diffusion"
  PROVE  1 \in DOMAIN Points /\ Points[1].name = Reference
<1>1. tool \in Tools /\ catalog \in Catalogs(tool) /\ Points = Plan(tool, catalog)
  BY DEF InputsKnown
<1>2. LoadsIn(tool, catalog)
  BY <1>1 DEF Plan
<1> DEFINE first == [name |-> Reference, directory |-> <<0>>, overrides |-> << >>]
<1>3. 1 \in DOMAIN sweep_points(catalog) /\ sweep_points(catalog)[1] = first
  BY <1>1, <1>2, SweepPointsSequence
<1>4. "name" \in DOMAIN first /\ first.name = Reference
  OBVIOUS
<1> HIDE DEF first
<1>5. 1 \in DOMAIN Points /\ Points[1] = Requesting(tool, catalog, first)
  BY <1>1, <1>2, <1>3 DEF Plan
<1> QED BY <1>4, <1>5, RequestingFields

LEMMA ReferenceIsMeasured ==
  ASSUME InputsKnown, DOMAIN Points # {}, tool # "spatial"
  PROVE  \E i \in DOMAIN Points : Points[i].name = Reference /\ MakesBenchmark(Points[i])
<1>1. tool \in Tools
  BY DEF InputsKnown
<1>2. CASE tool = "diffusion"
  BY <1>1, <1>2, DiffusionPointsKnown, BenchmarkMade
<1>3. CASE tool # "diffusion"
  BY <1>1, <1>3, SweepReference, BenchmarkMade
<1> QED BY <1>2, <1>3

(* Where benchmarks lie ...                                                *)
BenchmarksPlaced ==
  \A f \in DOMAIN files : f[2] = "benchmark" =>
    tool # "spatial" /\ (tool = "diffusion" => f[1][1] = "cases")

(* ... what the points that are done have left ...                         *)
PointDone(p) ==
  /\ \A k \in DOMAIN Steps(p) : Has(p.directory, Steps(p)[k].makes)
  /\ MakesBenchmark(p) => File(p.directory, "benchmark") # Truncated

Whole(d, name) == Has(d, name) /\ File(d, name) # Truncated

EntrySound(p, entry) ==
  /\ entry.name = p.name
  /\ entry.benchmark # None =>
       Whole(p.directory, "benchmark") /\ File(p.directory, "benchmark") = entry.benchmark
  /\ entry.status # "failed" =>
       PointDone(p) /\ (MakesBenchmark(p) => entry.benchmark # None)

Accounted ==
  Running =>
    /\ Len(outcomes) = point - 1
    /\ \A i \in DOMAIN outcomes : EntrySound(Points[i], outcomes[i])

(* ... and what main() has done once it is past them.                      *)
Summary == build_benchmark_summary(outcomes, None)

PastPoints ==
  /\ "benchmark-summary" \in DOMAIN reports
  /\ Running => \A j \in 1 .. at - 1 :
       /\ Main[j] = "points" => point > Len(Points)
       /\ Main[j] = "summary" /\ Summary # None => reports["benchmark-summary"] = Summary

ExitSound == ExitZeroIsComplete /\ (exit = "ok" => ~Running)

Complete == BenchmarksPlaced /\ Accounted /\ PastPoints /\ ExitSound

(* The reports and the points have their places in main().                 *)
LEMMA MainKnown ==
  ASSUME tool \in Tools
  PROVE  /\ Len(Main) \in Nat /\ DOMAIN Main = 1 .. Len(Main)
         /\ \A j \in DOMAIN Main : Main[j] = "exit" => j = Len(Main)
         /\ \E i \in 1 .. Len(Main) - 1 :
              /\ Main[i] = "points"
              /\ \A j \in DOMAIN Main : Main[j] = "points" => j = i
              /\ \A j \in DOMAIN Main : Main[j] = "summary" => j > i
              /\ tool # "spatial" => \E j \in i + 1 .. Len(Main) - 1 : Main[j] = "summary"
<1> DEFINE Known(main, i, last) ==
             /\ Len(main) = last /\ DOMAIN main = 1 .. last /\ i \in 1 .. last - 1
             /\ \A j \in DOMAIN main : main[j] = "exit" => j = last
             /\ main[i] = "points"
             /\ \A j \in DOMAIN main : main[j] = "points" => j = i
             /\ \A j \in DOMAIN main : main[j] = "summary" => j > i
           Summarized(main, i, last) == \E j \in i + 1 .. last - 1 : main[j] = "summary"
<1>1. tool \in {"tail", "damping", "modulation", "spatial", "diffusion"}
  BY ExperimentSweepAssumption
<1>2. Known(TailMain, 4, 8) /\ Summarized(TailMain, 4, 8)
  BY DEF TailMain
<1>3. Known(DampingMain, 4, 8) /\ Summarized(DampingMain, 4, 8)
  BY DEF DampingMain
<1>4. Known(ModulationMain, 4, 9) /\ Summarized(ModulationMain, 4, 9)
  BY DEF ModulationMain
<1>5. Known(SpatialMain, 5, 9)
  BY DEF SpatialMain
<1>6. Known(DiffusionMain, 2, 5) /\ Summarized(DiffusionMain, 2, 5)
  BY DEF DiffusionMain
<1> HIDE DEF Known, Summarized
<1>7. \/ Main = TailMain \/ Main = DampingMain \/ Main = ModulationMain
      \/ (Main = SpatialMain /\ tool = "spatial") \/ Main = DiffusionMain
  BY <1>1 DEF Main
<1>8. \E i, last \in Nat : Known(Main, i, last) /\ (tool # "spatial" => Summarized(Main, i, last))
  BY <1>2, <1>3, <1>4, <1>5, <1>6, <1>7
<1> QED BY <1>8 DEF Known, Summarized

(* What a command adds to the files and what it takes away.                *)
LEMMA WrittenFiles ==
  ASSUME NEW d, NEW n, NEW c, Write(d, n, c)
  PROVE  /\ \A x, m : Has(x, m) => Has(x, m)'
         /\ \A f \in DOMAIN files' : f \notin DOMAIN files => f = <<d, n>>
  BY DEF Write, Has

LEMMA CommandFiles ==
  ASSUME Inv, Command
  PROVE  /\ \A x, m : m # "repeat" /\ Has(x, m) => Has(x, m)'
         /\ \A f \in DOMAIN files' : f \notin DOMAIN files /\ f[2] = "benchmark" =>
              Doing("benchmark") /\ f[1] = Current.directory
<1> DEFINE Grown == /\ \A x, m : m # "repeat" /\ Has(x, m) => Has(x, m)'
                    /\ \A f \in DOMAIN files' : f \notin DOMAIN files /\ f[2] = "benchmark" =>
                         Doing("benchmark") /\ f[1] = Current.directory
<1>1. ASSUME UNCHANGED files PROVE Grown
  BY <1>1 DEF Has
<1>2. ASSUME NEW d, NEW n, NEW c, Write(d, n, c),
             n = "benchmark" => Doing("benchmark") /\ d = Current.directory
      PROVE  Grown
  <2>1. /\ \A x, m : Has(x, m) => Has(x, m)'
        /\ \A f \in DOMAIN files' : f \notin DOMAIN files => f = <<d, n>>
    BY <1>2, WrittenFiles
  <2> QED BY <1>2, <2>1
<1>3. ASSUME NEW d, Unlink(d, "repeat") PROVE Grown
  BY <1>3 DEF Unlink, Has
<1> HIDE DEF Grown
<1>4. \/ UNCHANGED files
      \/ \E d, n, c : Write(d, n, c) /\ n # "benchmark"
      \/ \E n, c : Doing("benchmark") /\ Write(Current.directory, n, c)
      \/ \E d : Unlink(d, "repeat")
  <2>1. CASE LoadCatalog \/ RequireScopes \/ RequireSample \/ MatchImpulse \/ FinishPoints
             \/ depth_identity_invariant \/ WriteSummary \/ compare_coherent_downmix
             \/ WriteStatus \/ generate_report \/ Exit \/ CheckStep \/ ChildFails \/ FinishPoint
    BY <2>1 DEF LoadCatalog, RequireScopes, RequireSample, MatchImpulse, FinishPoints,
                depth_identity_invariant, WriteSummary, compare_coherent_downmix, WriteStatus,
                generate_report, Exit, CheckStep, ChildFails, FinishPoint
  <2>2. CASE WriteRequest \/ render_case \/ render_from_resolved \/ Analyze
    <3>1. \/ UNCHANGED files
          \/ \E n \in {"request", "sample", "impulse", "analysis"} :
               \E c : Write(Current.directory, n, c)
      BY <2>2 DEF WriteRequest, render_case, render_from_resolved, Analyze
    <3> QED BY <3>1
  <2>3. CASE benchmark_case
    BY <2>3 DEF benchmark_case
  <2>4. CASE RepeatRender \/ CompareRepeat
    BY <2>4 DEF RepeatRender, CompareRepeat
  <2>5. CASE WriteDeterminism
    <3>1. Target # "benchmark"
      BY <2>5, RepeatAtHand DEF WriteDeterminism
    <3> QED BY <2>5, <3>1 DEF WriteDeterminism
  <2> QED BY <2>1, <2>2, <2>3, <2>4, <2>5 DEF Command
<1>5. Grown
  BY <1>1, <1>2, <1>3, <1>4
<1> QED BY <1>5 DEF Grown

(* What is done stays done, and a benchmark has its place.                 *)
Grows == \A x, m : m # "repeat" /\ Has(x, m) => Has(x, m)'

LEMMA WholeStays ==
  ASSUME Keeps, NEW d, NEW n, n \notin {"request", "repeat"}, Whole(d, n)
  PROVE  Whole(d, n)' /\ File(d, n)' = File(d, n)
<1>1. PICK f : f = <<d, n>>
  OBVIOUS
<1>2. f \in DOMAIN files /\ files[f] # Truncated /\ f[2] = n
  BY <1>1 DEF Whole, Has, File
<1>3. f \in DOMAIN files' /\ files'[f] = files[f]
  BY <1>2 DEF Keeps
<1> QED BY <1>1, <1>2, <1>3 DEF Whole, Has, File

LEMMA EntryStays ==
  ASSUME Inv, Keeps, Grows, UNCHANGED <<tool, sample>>, NEW p, NEW entry, EntrySound(p, entry)
  PROVE  EntrySound(p, entry)'
<1>1. Steps(p)' = Steps(p)
  BY DEF Steps
<1>2. MakesBenchmark(p)' = MakesBenchmark(p)
  BY <1>1 DEF MakesBenchmark
<1>3. ASSUME PointDone(p) PROVE PointDone(p)'
  <2>1. \A k \in DOMAIN Steps(p) : Steps(p)[k].makes # "repeat"
    BY StepsKnown DEF Inv, InputsKnown, MakesInOrder, InOrder
  <2>2. \A k \in DOMAIN Steps(p) : Has(p.directory, Steps(p)[k].makes)'
    <3> SUFFICES ASSUME NEW k \in DOMAIN Steps(p)
                 PROVE  \E n : n = Steps(p)[k].makes /\ Has(p.directory, n)'
      BY <1>1
    <3>1. PICK n : n = Steps(p)[k].makes
      OBVIOUS
    <3>2. Has(p.directory, n) /\ n # "repeat"
      BY <1>3, <2>1, <3>1 DEF PointDone
    <3> QED BY <3>1, <3>2 DEF Grows
  <2>3. ASSUME MakesBenchmark(p) PROVE File(p.directory, "benchmark")' # Truncated
    <3>1. Has(p.directory, "benchmark") /\ File(p.directory, "benchmark") # Truncated
      BY <1>3, <2>3 DEF PointDone, MakesBenchmark
    <3>2. PICK f \in DOMAIN files : f = <<p.directory, "benchmark">> /\ files[f] # Truncated
      BY <3>1 DEF Has, File
    <3>3. f[2] = "benchmark"
      BY <3>2
    <3>4. f \in DOMAIN files' /\ files'[f] = files[f]
      BY <3>2, <3>3 DEF Keeps
    <3> QED BY <3>2, <3>4 DEF Has, File
  <2> QED BY <1>1, <1>2, <2>2, <2>3 DEF PointDone
<1>4. ASSUME entry.benchmark # None
      PROVE  Whole(p.directory, "benchmark")' /\ File(p.directory, "benchmark")' = entry.benchmark
  BY <1>4, WholeStays DEF EntrySound
<1> QED BY <1>2, <1>3, <1>4 DEF EntrySound

LEMMA AccountedSame ==
  ASSUME Inv, Accounted, Keeps, Grows, UNCHANGED inputs,
         Running' => Running /\ UNCHANGED <<point, outcomes>>
  PROVE  Accounted'
<1> SUFFICES ASSUME Running' PROVE /\ Len(outcomes') = point' - 1
                                   /\ \A i \in DOMAIN outcomes' : EntrySound(Points[i], outcomes[i])'
  BY DEF Accounted
<1>1. Running /\ UNCHANGED <<tool, sample, Points, point, outcomes>>
  BY DEF inputs
<1>2. ASSUME NEW i \in DOMAIN outcomes PROVE EntrySound(Points[i], outcomes[i])'
  <2>1. PICK p, entry : p = Points[i] /\ entry = outcomes[i] /\ EntrySound(p, entry)
    BY <1>1 DEF Accounted
  <2>2. EntrySound(p, entry)'
    BY <1>1, <2>1, EntryStays
  <2>3. p = Points'[i] /\ entry = outcomes'[i]
    BY <1>1, <2>1
  <2> QED BY <2>2, <2>3
<1> QED BY <1>1, <1>2 DEF Accounted

LEMMA AccountedEndPoint ==
  ASSUME Inv, Booked, Accounted, Keeps, Grows, UNCHANGED inputs, InPoint,
         NEW status, NEW benchmark, EndPoint(status, benchmark),
         status # "failed" =>
           PointDone(Current) /\ (MakesBenchmark(Current) => benchmark # None),
         benchmark # None =>
           /\ Whole(Current.directory, "benchmark")
           /\ File(Current.directory, "benchmark") = benchmark
  PROVE  Accounted'
<1>1. Running /\ UNCHANGED <<tool, sample, Points>> /\ point \in Nat \ {0}
  BY DEF InPoint, In, inputs, Inv, Place, PositionKnown
<1>2. PICK new : /\ new = [name |-> Current.name, status |-> status, benchmark |-> benchmark]
                 /\ outcomes' = Append(outcomes, new) /\ point' = point + 1
  BY DEF EndPoint
<1>3. Len(outcomes) = point - 1 /\ outcomes \in Seq(Entries)
  BY <1>1 DEF Accounted, Booked
<1>4. /\ Len(outcomes') = point' - 1 /\ DOMAIN outcomes' = DOMAIN outcomes \cup {point}
      /\ outcomes'[point] = new /\ \A i \in DOMAIN outcomes : outcomes'[i] = outcomes[i]
  BY <1>1, <1>2, <1>3
<1>5. ASSUME NEW i \in DOMAIN outcomes', NEW p, NEW entry, p = Points[i],
             entry = IF i = point THEN new ELSE outcomes[i]
      PROVE  EntrySound(p, entry)
  <2>1. CASE i = point
    <3>1. p = Current /\ entry = new
      BY <1>5, <2>1 DEF Current
    <3>2. /\ entry.name = p.name /\ entry.status = status /\ entry.benchmark = benchmark
      BY <1>2, <3>1
    <3> QED BY <3>1, <3>2 DEF EntrySound
  <2>2. CASE i # point
    BY <1>1, <1>4, <1>5, <2>2 DEF Accounted
  <2> QED BY <2>1, <2>2
<1>6. ASSUME NEW i \in DOMAIN outcomes' PROVE EntrySound(Points[i], outcomes[i])'
  <2>1. PICK p, entry : p = Points[i] /\ entry = IF i = point THEN new ELSE outcomes[i]
    OBVIOUS
  <2>2. EntrySound(p, entry)'
    BY <1>1, <1>5, <2>1, EntryStays
  <2>3. p = Points'[i] /\ entry = outcomes'[i]
    BY <1>1, <1>4, <2>1
  <2> QED BY <2>2, <2>3
<1> QED BY <1>4, <1>6 DEF Accounted

(* A point whose steps are all behind is done.                             *)
LEMMA PointFinished ==
  ASSUME Inv, InPoint, step > Len(Steps(Current)),
         NEW benchmark, benchmark = File(Current.directory, "benchmark"), benchmark # Truncated
  PROVE  PointDone(Current) /\ (MakesBenchmark(Current) => benchmark # None)
<1>1. MakesInOrder(Steps(Current)) /\ step \in Nat
  BY StepsKnown DEF Inv, InputsKnown, Place, PositionKnown
<1>2. \A k \in DOMAIN Steps(Current) : k \in 1 .. step - 1
  BY <1>1 DEF MakesInOrder
<1>3. \A k \in DOMAIN Steps(Current) : Has(Current.directory, Steps(Current)[k].makes)
  BY <1>2 DEF Inv, Place, Made
<1>4. ASSUME MakesBenchmark(Current) PROVE benchmark # None
  <2>1. Has(Current.directory, "benchmark")
    BY <1>3, <1>4 DEF MakesBenchmark
  <2>2. Fits("benchmark", benchmark)
    BY <2>1, KnownFile DEF Inv, FilesSound
  <2>3. benchmark \in Benchmarks
    BY <2>2 DEF Fits
  <2> QED BY <2>3, MarkersApart
<1> QED BY <1>3, <1>4 DEF PointDone

LEMMA CommandGrows ==
  ASSUME Inv, Command
  PROVE  Grows
  BY CommandFiles DEF Grows

LEMMA AccountedCommand ==
  ASSUME Inv, Inv', Booked, Accounted, Keeps, Command
  PROVE  Accounted'
<1>1. Grows
  BY CommandGrows
<1>2. CASE LoadCatalog \/ RequireScopes \/ RequireSample \/ MatchImpulse \/ FinishPoints
           \/ depth_identity_invariant \/ WriteSummary \/ compare_coherent_downmix
           \/ WriteStatus \/ generate_report \/ Exit
  <2>1. UNCHANGED inputs
    BY <1>2 DEF LoadCatalog, RequireScopes, RequireSample, MatchImpulse, FinishPoints,
                depth_identity_invariant, WriteSummary, compare_coherent_downmix, WriteStatus,
                generate_report, Exit
  <2>2. (\E code : Stop(code)) \/ (Proceed /\ Running)
    BY <1>2 DEF LoadCatalog, RequireScopes, RequireSample, MatchImpulse, FinishPoints,
                depth_identity_invariant, WriteSummary, compare_coherent_downmix, WriteStatus,
                generate_report, Exit, In
  <2>3. Running' => Running /\ UNCHANGED <<point, outcomes>>
    BY <2>2 DEF Stop, Proceed, Running
  <2> QED BY <1>1, <2>1, <2>3, AccountedSame
<1>3. CASE CheckStep \/ WriteRequest \/ render_case \/ render_from_resolved \/ Analyze
           \/ benchmark_case \/ RepeatRender \/ CompareRepeat \/ WriteDeterminism \/ ChildFails
  <2>1. InPoint /\ UNCHANGED inputs
    BY <1>3 DEF CheckStep, WriteRequest, render_case, render_from_resolved, Analyze,
                benchmark_case, RepeatRender, CompareRepeat, WriteDeterminism, ChildFails, Doing,
                InStep, InPoint, StepFails
  <2>2. \/ EndPoint("failed", None)
        \/ UNCHANGED <<at, point, outcomes>>
    BY <1>3 DEF CheckStep, WriteRequest, render_case, render_from_resolved, Analyze,
                benchmark_case, RepeatRender, CompareRepeat, WriteDeterminism, ChildFails,
                StepFails, Enter, StepDone
  <2>3. CASE EndPoint("failed", None)
    BY <1>1, <2>1, <2>3, AccountedEndPoint
  <2>4. CASE UNCHANGED <<at, point, outcomes>>
    BY <1>1, <2>1, <2>4, AccountedSame DEF Running
  <2> QED BY <2>2, <2>3, <2>4
<1>4. CASE FinishPoint
  <2>1. PICK benchmark, status :
          /\ benchmark = File(Current.directory, "benchmark")
          /\ IF benchmark = Truncated THEN Stop("raised") ELSE EndPoint(status, benchmark)
          /\ InPoint /\ step > Len(Steps(Current)) /\ UNCHANGED inputs
    BY <1>4 DEF FinishPoint, InPoint
  <2>2. CASE benchmark = Truncated
    <3>1. ~Running'
      BY <2>1, <2>2 DEF Stop, Running
    <3> QED BY <1>1, <2>1, <3>1, AccountedSame
  <2>3. CASE benchmark # Truncated
    <3>1. benchmark # None =>
            /\ Whole(Current.directory, "benchmark")
            /\ File(Current.directory, "benchmark") = benchmark
      BY <2>1, <2>3 DEF Whole, File
    <3> QED BY <1>1, <2>1, <2>3, <3>1, PointFinished, AccountedEndPoint
  <2> QED BY <2>2, <2>3
<1> QED BY <1>2, <1>3, <1>4 DEF Command

(* No benchmark but where a point of that kind is.                         *)
LEMMA PlacedCommand ==
  ASSUME Inv, BenchmarksPlaced, Command
  PROVE  BenchmarksPlaced'
<1>1. UNCHANGED tool
  BY DEF Command, LoadCatalog, RequireScopes, RequireSample, MatchImpulse, CheckStep,
         WriteRequest, render_case, render_from_resolved, Analyze, benchmark_case,
         RepeatRender, CompareRepeat, WriteDeterminism, ChildFails, FinishPoint, FinishPoints,
         depth_identity_invariant, WriteSummary, compare_coherent_downmix, WriteStatus,
         generate_report, Exit, StepFails, inputs
<1>2. ASSUME Doing("benchmark")
      PROVE  tool # "spatial" /\ (tool = "diffusion" => Current.directory[1] = "cases")
  <2>1. /\ InPoint /\ step \in DOMAIN Steps(Current) /\ tool \in Tools
        /\ Steps(Current)[step].does = "benchmark"
    BY <1>2, StepAtHand DEF Doing, Inv, InputsKnown
  <2>2. tool # "spatial"
    <3> SUFFICES ASSUME tool = "spatial" PROVE FALSE
      OBVIOUS
    <3>1. Steps(Current) = <<RenderStep, ImpulseStep, AnalysisStep, RepeatStep>>
      BY <2>1, StepsListed
    <3>2. Steps(Current)[step] \in {RenderStep, ImpulseStep, AnalysisStep, RepeatStep}
      BY <2>1, <3>1, ElementsOfFour
    <3>3. /\ RenderStep.does = "render" /\ ImpulseStep.does = "render resolved"
          /\ AnalysisStep.does = "analyze" /\ RepeatStep.does = "repeat"
      BY DEF RenderStep, ImpulseStep, AnalysisStep, RepeatStep
    <3> QED BY <2>1, <3>2, <3>3
  <2>3. ASSUME tool = "diffusion" PROVE ~Current.listening
    <3> SUFFICES ASSUME Current.listening PROVE FALSE
      OBVIOUS
    <3>1. Steps(Current) = <<RenderStep>> \/ Steps(Current) = << >>
      BY <2>1, <2>3, StepsListed
    <3>2. Steps(Current)[step] = RenderStep
      BY <2>1, <3>1
    <3> QED BY <2>1, <3>2 DEF RenderStep
  <2>4. ASSUME tool = "diffusion" PROVE Current.directory[1] = "cases"
    <3>1. point \in DOMAIN Points
      BY <2>1, PointAtHand DEF Inv, Place
    <3> QED BY <2>3, <2>4, <3>1, DiffusionPointsKnown DEF Current, Inv
  <2> QED BY <2>2, <2>4
<1> SUFFICES ASSUME NEW f \in DOMAIN files', f[2] = "benchmark"
             PROVE  tool # "spatial" /\ (tool = "diffusion" => f[1][1] = "cases")
  BY <1>1 DEF BenchmarksPlaced
<1>3. CASE f \in DOMAIN files
  BY <1>3 DEF BenchmarksPlaced
<1>4. CASE f \notin DOMAIN files
  BY <1>2, <1>4, CommandFiles
<1> QED BY <1>3, <1>4

(* Past the points, nothing changes but the reports.                       *)
LEMMA PastStays ==
  ASSUME PastPoints, UNCHANGED inputs, UNCHANGED <<at, point, outcomes>>,
         UNCHANGED reports
  PROVE  PastPoints'
<1>1. Main' = Main /\ Running' = Running /\ UNCHANGED Points
  BY SameMain DEF inputs, Running
<1>2. Summary' = Summary
  BY DEF Summary, build_benchmark_summary
<1> QED BY <1>1, <1>2 DEF PastPoints

LEMMA PastAtRest ==
  ASSUME "benchmark-summary" \in DOMAIN reports', ~Running' \/ at' = 1
  PROVE  PastPoints'
  BY DEF PastPoints

LEMMA PastEndPoint ==
  ASSUME Inv, Booked, PastPoints, UNCHANGED inputs, UNCHANGED reports, InPoint,
         at' = at
  PROVE  PastPoints'
<1>1. Main' = Main /\ Main[at] = "points" /\ tool \in Tools /\ Running
  BY SameMain DEF inputs, InPoint, In, Inv, InputsKnown
<1>2. at \in DOMAIN Main /\ DOMAIN Main = 1 .. Len(Main)
  BY <1>1, MainKnown DEF Booked, Running
<1>3. ASSUME NEW j \in 1 .. at - 1 PROVE Main[j] \notin {"points", "summary"}
  <2>1. PICK i \in 1 .. Len(Main) - 1 :
          /\ \A k \in DOMAIN Main : Main[k] = "points" => k = i
          /\ \A k \in DOMAIN Main : Main[k] = "summary" => k > i
    BY <1>1, MainKnown
  <2>2. i = at /\ j \in DOMAIN Main /\ at \in Nat
    BY <1>1, <1>2, <2>1
  <2> QED BY <2>1, <2>2
<1>4. \A j \in 1 .. at' - 1 : Main'[j] \notin {"points", "summary"}
  BY <1>1, <1>3
<1> QED BY <1>4 DEF PastPoints

LEMMA PastProceed ==
  ASSUME Inv, Booked, PastPoints, UNCHANGED inputs, Proceed, Running,
         Main[at] = "points" => point > Len(Points),
         IF Main[at] = "summary" /\ Summary # None
         THEN reports' = [reports EXCEPT !["benchmark-summary"] = Summary]
         ELSE /\ reports'["benchmark-summary"] = reports["benchmark-summary"]
              /\ DOMAIN reports' = DOMAIN reports
  PROVE  PastPoints'
<1>1. /\ Main' = Main /\ UNCHANGED Points /\ UNCHANGED <<point, outcomes>> /\ at' = at + 1
      /\ at \in Nat
  BY SameMain DEF inputs, Proceed, Inv, Place, PositionKnown
<1>2. Summary' = Summary
  BY <1>1 DEF Summary, build_benchmark_summary
<1>3. "benchmark-summary" \in DOMAIN reports'
  BY DEF PastPoints
<1> DEFINE s == Summary
<1>4. s' = s
  BY <1>2
<1> HIDE DEF s
<1>5. ASSUME NEW j \in 1 .. at
      PROVE  /\ Main[j] = "points" => point > Len(Points)
             /\ Main[j] = "summary" /\ s # None => reports'["benchmark-summary"] = s
  <2>1. CASE j = at
    BY <2>1 DEF PastPoints, s
  <2>2. CASE j # at
    <3>1. j \in 1 .. at - 1
      BY <1>1, <2>2
    <3>2. /\ Main[j] = "points" => point > Len(Points)
          /\ Main[j] = "summary" /\ s # None => reports["benchmark-summary"] = s
      BY <3>1 DEF PastPoints, s
    <3>3. reports'["benchmark-summary"] \in {reports["benchmark-summary"], s}
      BY DEF PastPoints, s
    <3> QED BY <3>2, <3>3 DEF PastPoints, s
  <2> QED BY <2>1, <2>2
<1>6. \A j \in 1 .. at' - 1 :
        /\ Main'[j] = "points" => point' > Len(Points')
        /\ Main'[j] = "summary" /\ s' # None => reports'["benchmark-summary"] = s'
  BY <1>1, <1>4, <1>5
<1> QED BY <1>3, <1>6 DEF PastPoints, s

LEMMA PastCommand ==
  ASSUME Inv, Booked, PastPoints, Command
  PROVE  PastPoints'
<1>1. CASE CheckStep \/ WriteRequest \/ render_case \/ render_from_resolved \/ Analyze
           \/ benchmark_case \/ RepeatRender \/ CompareRepeat \/ WriteDeterminism \/ ChildFails
  <2>1. InPoint /\ UNCHANGED inputs /\ UNCHANGED reports
    BY <1>1 DEF CheckStep, WriteRequest, render_case, render_from_resolved, Analyze,
                benchmark_case, RepeatRender, CompareRepeat, WriteDeterminism, ChildFails, Doing,
                InStep, InPoint, StepFails
  <2>2. at' = at
    BY <1>1 DEF CheckStep, WriteRequest, render_case, render_from_resolved, Analyze,
                benchmark_case, RepeatRender, CompareRepeat, WriteDeterminism, ChildFails,
                StepFails, Enter, StepDone, EndPoint
  <2> QED BY <2>1, <2>2, PastEndPoint
<1>2. CASE FinishPoint
  <2>1. InPoint /\ UNCHANGED inputs /\ UNCHANGED reports /\ (at' = at \/ at' = 0)
    BY <1>2 DEF FinishPoint, InPoint, EndPoint, Stop
  <2> QED BY <2>1, PastEndPoint, PastAtRest DEF Running, PastPoints
<1>3. CASE LoadCatalog \/ RequireScopes \/ RequireSample \/ MatchImpulse \/ FinishPoints
           \/ depth_identity_invariant \/ compare_coherent_downmix
           \/ WriteStatus \/ generate_report \/ Exit
  <2>1. /\ UNCHANGED inputs /\ Running /\ Main[at] # "summary"
        /\ Main[at] = "points" => point > Len(Points)
    BY <1>3 DEF LoadCatalog, RequireScopes, RequireSample, MatchImpulse, FinishPoints,
                depth_identity_invariant, compare_coherent_downmix, WriteStatus,
                generate_report, Exit, In
  <2>2. /\ reports'["benchmark-summary"] = reports["benchmark-summary"]
        /\ DOMAIN reports' = DOMAIN reports
    <3>1. \/ UNCHANGED reports
          \/ \E name, content : name # "benchmark-summary" /\ Report(name, content)
      BY <1>3 DEF LoadCatalog, RequireScopes, RequireSample, MatchImpulse, FinishPoints,
                  depth_identity_invariant, compare_coherent_downmix, WriteStatus,
                  generate_report, Exit
    <3> QED BY <3>1 DEF Report, PastPoints
  <2>3. Proceed \/ \E code : Stop(code)
    BY <1>3 DEF LoadCatalog, RequireScopes, RequireSample, MatchImpulse, FinishPoints,
                depth_identity_invariant, compare_coherent_downmix, WriteStatus,
                generate_report, Exit
  <2>4. CASE Proceed
    BY <2>1, <2>2, <2>4, PastProceed
  <2>5. CASE \E code : Stop(code)
    BY <2>2, <2>5, PastAtRest DEF Stop, Running, PastPoints
  <2> QED BY <2>3, <2>4, <2>5
<1>4. CASE WriteSummary
  <2>1. /\ UNCHANGED inputs /\ Running /\ Main[at] = "summary" /\ Proceed
        /\ IF Summary = None THEN UNCHANGED reports
           ELSE reports' = [reports EXCEPT !["benchmark-summary"] = Summary]
    BY <1>4 DEF WriteSummary, In, Report, Summary
  <2> QED BY <2>1, PastProceed
<1> QED BY <1>1, <1>2, <1>3, <1>4 DEF Command

(* The summary of a run that measured its Reference ranks every measured   *)
(* point and nothing else, the slowest first.                              *)
RankedEntry(entry) ==
  \E i, j \in DOMAIN outcomes :
    /\ outcomes[i].benchmark # None /\ entry.case = outcomes[i].name
    /\ outcomes[j].benchmark # None /\ Reference = outcomes[j].name
    /\ outcomes[i].benchmark.median = entry.median
    /\ outcomes[j].benchmark.median = entry.median - entry.delta

LEMMA SummaryRanks ==
  ASSUME Inv, Booked, NEW r \in DOMAIN outcomes, outcomes[r].name = Reference,
         outcomes[r].benchmark # None
  PROVE  /\ Summary # None
         /\ \A i \in DOMAIN outcomes : outcomes[i].benchmark # None =>
              \E entry \in Range(Summary) : entry.case = outcomes[i].name
         /\ \A k \in DOMAIN Summary : RankedEntry(Summary[k])
         /\ \A k \in 2 .. Len(Summary) : Summary[k - 1].median >= Summary[k].median
<1> DEFINE completed == {i \in DOMAIN outcomes : outcomes[i].benchmark # None}
           medians == [i \in completed |-> outcomes[i].benchmark.median]
           references == {i \in completed : outcomes[i].name = Reference}
           ranked == RankedBySlowest(medians)
           reference == CHOOSE i \in references : TRUE
           summary == [k \in DOMAIN ranked |->
                         [case   |-> outcomes[ranked[k]].name,
                          median |-> medians[ranked[k]],
                          delta  |-> medians[ranked[k]] - medians[reference]]]
           Names == {p.name : p \in AllPoints}
<1>1. r \in references
  OBVIOUS
<1>2. Summary = summary
  BY <1>1 DEF Summary, build_benchmark_summary
<1>3. outcomes \in Seq(Entries)
  BY DEF Booked
<1>4. ASSUME NEW i \in completed
      PROVE  i \in Nat /\ medians[i] \in Int /\ outcomes[i].name \in Names
  <2>1. i \in Nat /\ outcomes[i] \in Entries /\ outcomes[i].benchmark # None
    BY <1>3
  <2>2. outcomes[i].benchmark \in WholeBenchmarks
    BY <2>1 DEF Entries
  <2>3. outcomes[i].benchmark \in Benchmarks
    BY <2>2 DEF WholeBenchmarks, Inv, FilesSound, FilesKnown
  <2>4. medians[i] \in Medians
    BY <2>3 DEF Benchmarks
  <2>5. PICK j \in DOMAIN Points : outcomes[i].name = Points[j].name
    BY <2>1 DEF Entries
  <2>6. Points[j] \in AllPoints
    BY DEF Inv, InputsKnown, AllPoints, Range
  <2> QED BY <2>1, <2>4, <2>5, <2>6, ExperimentSweepAssumption
<1>5. IsFiniteSet(DOMAIN medians) /\ DOMAIN medians = completed
  <2>1. Len(outcomes) \in Nat /\ DOMAIN outcomes = 1 .. Len(outcomes)
    BY <1>3
  <2>2. IsFiniteSet(1 .. Len(outcomes))
    BY <2>1, FS_Interval
  <2> QED BY <2>1, <2>2, FS_Subset
<1> HIDE DEF completed, medians
<1>6. /\ ranked \in Seq(completed)
      /\ \A i \in completed : \E k \in DOMAIN ranked : ranked[k] = i
      /\ \A k \in 2 .. Len(ranked) : medians[ranked[k - 1]] >= medians[ranked[k]]
  <2>1. \A i \in DOMAIN medians : i \in Nat /\ medians[i] \in Int
    BY <1>4, <1>5
  <2>2. ranked = RankedBySlowest(medians)
    OBVIOUS
  <2> HIDE DEF ranked
  <2>3. /\ ranked \in Seq(DOMAIN medians)
        /\ \A i \in DOMAIN medians : \E k \in DOMAIN ranked : ranked[k] = i
        /\ \A k \in 2 .. Len(ranked) : medians[ranked[k - 1]] >= medians[ranked[k]]
    BY <1>5, <2>1, <2>2, AllRanked
  <2> QED BY <1>5, <2>3
<1> HIDE DEF ranked
<1>7. reference \in references /\ reference \in completed
  BY <1>1
<1> HIDE DEF reference
<1>8. \A k \in DOMAIN ranked : ranked[k] \in completed
  BY <1>6
<1>9. summary \in Seq([case : Names, median : Int, delta : Int])
  <2> DEFINE Entry == [case : Names, median : Int, delta : Int]
  <2>1. \A k \in DOMAIN ranked : summary[k] \in Entry
    BY <1>4, <1>7, <1>8
  <2>2. \E S : ranked \in Seq(S)
    BY <1>6
  <2>3. summary \in [DOMAIN ranked -> Entry]
    BY <2>1
  <2> HIDE DEF summary, Entry
  <2>4. summary \in Seq(Entry)
    BY <2>2, <2>3, MappedIsSequence
  <2> QED BY <2>4 DEF Entry
<1>10. Summary # None
  BY <1>2, <1>9, ExperimentSweepAssumption DEF Summaries
<1>11. ASSUME NEW i \in DOMAIN outcomes, outcomes[i].benchmark # None
       PROVE  \E entry \in Range(Summary) : entry.case = outcomes[i].name
  <2>1. PICK k \in DOMAIN ranked : ranked[k] = i
    BY <1>6, <1>11 DEF completed
  <2>2. summary[k] \in Range(summary) /\ summary[k].case = outcomes[i].name
    BY <2>1 DEF Range
  <2> QED BY <1>2, <2>2
<1>12. ASSUME NEW k \in DOMAIN summary PROVE RankedEntry(summary[k])
  <2> DEFINE i == ranked[k]
  <2>1. i \in completed /\ medians[i] \in Int /\ medians[reference] \in Int
    BY <1>4, <1>7, <1>8
  <2>2. /\ summary[k].case = outcomes[i].name /\ summary[k].median = medians[i]
        /\ summary[k].delta = medians[i] - medians[reference]
    OBVIOUS
  <2>3. /\ medians[i] = outcomes[i].benchmark.median
        /\ medians[reference] = outcomes[reference].benchmark.median
    BY <1>7, <2>1 DEF medians
  <2>4. /\ i \in DOMAIN outcomes /\ outcomes[i].benchmark # None
        /\ reference \in DOMAIN outcomes /\ outcomes[reference].benchmark # None
        /\ outcomes[reference].name = Reference
    BY <1>7, <2>1 DEF completed
  <2> HIDE DEF i, summary
  <2>5. medians[reference] = summary[k].median - summary[k].delta
    BY <2>1, <2>2
  <2> QED BY <2>2, <2>3, <2>4, <2>5 DEF RankedEntry
<1>13. \A k \in 2 .. Len(summary) : summary[k - 1].median >= summary[k].median
  <2>1. Len(ranked) \in Nat /\ DOMAIN ranked = 1 .. Len(ranked)
    BY <1>6
  <2>2. Len(summary) = Len(ranked)
    BY <2>1
  <2> SUFFICES ASSUME NEW k \in 2 .. Len(ranked)
               PROVE  summary[k - 1].median >= summary[k].median
    BY <2>2
  <2>3. k \in DOMAIN ranked /\ k - 1 \in DOMAIN ranked
    BY <2>1
  <2>4. summary[k].median = medians[ranked[k]] /\ summary[k - 1].median = medians[ranked[k - 1]]
    BY <2>3
  <2> QED BY <1>6, <2>4
<1> HIDE DEF summary
<1> QED BY <1>2, <1>10, <1>11, <1>12, <1>13

(* A run returns 0 when all that is left is done.                          *)
LEMMA ExitComplete ==
  ASSUME Inv, Booked, BenchmarksPlaced, Accounted, PastPoints, Exit, exit' = "ok"
  PROVE  ExitZeroIsComplete'
<1>1. /\ Running /\ Main[at] = "exit" /\ UNCHANGED <<tool, sample, Points, files, reports>>
      /\ tool \in Tools /\ at \in Nat
  BY DEF Exit, In, inputs, Inv, InputsKnown, Place, PositionKnown
<1>2. at = Len(Main) /\ DOMAIN Main = 1 .. Len(Main)
  <2>1. Len(Main) \in Nat /\ DOMAIN Main = 1 .. Len(Main) /\ at \in 1 .. Len(Main)
    BY <1>1, MainKnown DEF Booked, Running
  <2> QED BY <1>1, <2>1, MainKnown
<1>3. \A i \in DOMAIN outcomes : outcomes[i].status # "failed"
  BY DEF Exit, Stop
<1>4. point > Len(Points)
  <2>1. \E i \in 1 .. Len(Main) - 1 : Main[i] = "points"
    BY <1>1, MainKnown
  <2> QED BY <1>1, <1>2, <2>1 DEF PastPoints
<1>5. DOMAIN outcomes = DOMAIN Points
  <2>1. Len(Points) \in Nat /\ DOMAIN Points = 1 .. Len(Points) /\ point \in 1 .. Len(Points) + 1
    BY <1>1, PointsListed DEF Inv, Booked
  <2>2. Len(outcomes) = Len(Points)
    BY <1>1, <1>4, <2>1 DEF Accounted
  <2> QED BY <2>1, <2>2 DEF Booked
<1>6. ASSUME NEW i \in DOMAIN Points
      PROVE  /\ outcomes[i].name = Points[i].name /\ PointDone(Points[i])
             /\ MakesBenchmark(Points[i]) => outcomes[i].benchmark # None
  BY <1>1, <1>3, <1>5 DEF Accounted, EntrySound
<1>7. ASSUME NEW i \in DOMAIN Points, MakesBenchmark(Points[i]), tool # "spatial"
      PROVE  /\ reports["benchmark-summary"] # None
             /\ \E entry \in Range(reports["benchmark-summary"]) : entry.case = Points[i].name
  <2>1. PICK r \in DOMAIN Points : Points[r].name = Reference /\ MakesBenchmark(Points[r])
    BY <1>7, ReferenceIsMeasured DEF Inv
  <2>2. /\ Summary # None
        /\ \E entry \in Range(Summary) : entry.case = outcomes[i].name
    BY <1>5, <1>6, <1>7, <2>1, SummaryRanks
  <2>3. \E j \in 1 .. at - 1 : Main[j] = "summary"
    BY <1>1, <1>2, <1>7, MainKnown
  <2>4. reports["benchmark-summary"] = Summary
    BY <1>1, <2>2, <2>3 DEF PastPoints
  <2> QED BY <1>6, <2>2, <2>4
<1>8. ASSUME NEW i \in DOMAIN Points, ~MakesBenchmark(Points[i]) \/ tool = "spatial"
      PROVE  ~Has(Points[i].directory, "benchmark")
  <2>1. CASE tool = "spatial"
    BY <2>1 DEF BenchmarksPlaced, Has
  <2>2. CASE tool # "spatial"
    <3>1. tool = "diffusion" /\ Points[i].listening
      BY <1>1, <1>8, <2>2, BenchmarkMade
    <3>2. Points[i].directory[1] = "listening"
      BY <3>1, DiffusionPointsKnown DEF Inv
    <3> QED BY <3>1, <3>2 DEF BenchmarksPlaced, Has
  <2> QED BY <2>1, <2>2
<1>9. ASSUME NEW i \in DOMAIN Points
      PROVE  LET p == Points[i] IN
             /\ \A k \in DOMAIN Steps(p) : Has(p.directory, Steps(p)[k].makes)
             /\ File(p.directory, "benchmark") # Truncated
             /\ Has(p.directory, "benchmark") =>
                  /\ reports["benchmark-summary"] # None
                  /\ \E entry \in Range(reports["benchmark-summary"]) : entry.case = p.name
  <2>1. PointDone(Points[i])
    BY <1>6
  <2>2. CASE MakesBenchmark(Points[i]) /\ tool # "spatial"
    BY <1>7, <2>1, <2>2 DEF PointDone
  <2>3. CASE ~MakesBenchmark(Points[i]) \/ tool = "spatial"
    <3>1. ~Has(Points[i].directory, "benchmark")
      BY <1>8, <2>3
    <3>2. File(Points[i].directory, "benchmark") # Truncated
      BY <3>1, MarkersApart DEF File
    <3> QED BY <2>1, <3>1, <3>2 DEF PointDone
  <2> QED BY <2>2, <2>3
<1>10. /\ \A p : Steps(p)' = Steps(p)
       /\ \A d, n : Has(d, n)' = Has(d, n) /\ File(d, n)' = File(d, n)
  BY <1>1 DEF Steps, Has, File
<1>11. ASSUME NEW i \in DOMAIN Points', NEW p, p = Points'[i]
       PROVE  /\ \A k \in DOMAIN Steps(p)' : Has(p.directory, Steps(p)[k].makes)'
              /\ File(p.directory, "benchmark")' # Truncated
              /\ Has(p.directory, "benchmark")' =>
                   /\ reports'["benchmark-summary"] # None
                   /\ \E entry \in Range(reports'["benchmark-summary"]) : entry.case = p.name
  <2>1. /\ \A k \in DOMAIN Steps(p) : Has(p.directory, Steps(p)[k].makes)
        /\ File(p.directory, "benchmark") # Truncated
        /\ Has(p.directory, "benchmark") =>
             /\ reports["benchmark-summary"] # None
             /\ \E entry \in Range(reports["benchmark-summary"]) : entry.case = p.name
    BY <1>1, <1>9, <1>11
  <2> QED BY <1>1, <1>10, <2>1 DEF Has
<1> QED BY <1>11 DEF ExitZeroIsComplete

LEMMA ExitCommand ==
  ASSUME Inv, Booked, BenchmarksPlaced, Accounted, PastPoints, ExitSound, Command
  PROVE  ExitSound'
<1>1. Running /\ exit # "ok"
  <2>1. Running
    BY DEF Command, LoadCatalog, RequireScopes, RequireSample, MatchImpulse, CheckStep,
           WriteRequest, render_case, render_from_resolved, Analyze, benchmark_case,
           RepeatRender, CompareRepeat, WriteDeterminism, ChildFails, FinishPoint, FinishPoints,
           depth_identity_invariant, WriteSummary, compare_coherent_downmix, WriteStatus,
           generate_report, Exit, Doing, InStep, In
  <2> QED BY <2>1 DEF ExitSound
<1>2. CASE Exit
  <2>1. exit' = "ok" => ExitZeroIsComplete'
    BY <1>2, ExitComplete
  <2>2. ~Running'
    BY <1>2 DEF Exit, Stop, Running
  <2> QED BY <2>1, <2>2 DEF ExitSound, ExitZeroIsComplete
<1>3. CASE ~Exit
  <2>1. \/ UNCHANGED exit
        \/ \E code \in {"error", "skipped", "raised"} : Stop(code)
    BY <1>3 DEF Command, LoadCatalog, RequireScopes, RequireSample, MatchImpulse, CheckStep,
         WriteRequest, render_case, render_from_resolved, Analyze, benchmark_case,
         RepeatRender, CompareRepeat, WriteDeterminism, ChildFails, FinishPoint, FinishPoints,
         depth_identity_invariant, WriteSummary, compare_coherent_downmix, WriteStatus,
         generate_report, StepFails, EndPoint, StepDone, Enter, Proceed
  <2>2. exit' # "ok"
    BY <1>1, <2>1 DEF Stop
  <2> QED BY <2>2 DEF ExitSound, ExitZeroIsComplete
<1> QED BY <1>2, <1>3

(* A benchmark that does not parse is removed, the run being over.         *)
LEMMA ExitDelete ==
  ASSUME Inv, ExitSound, DeleteBadBenchmark
  PROVE  ExitSound'
<1>1. /\ UNCHANGED <<tool, sample, Points, exit, reports>> /\ ~Running'
  BY DEF DeleteBadBenchmark, inputs, position, Running
<1>2. PICK g \in DOMAIN files : g[2] = "benchmark" /\ files[g] = Truncated /\ Unlink(g[1], g[2])
  BY DEF DeleteBadBenchmark
<1>3. g = <<g[1], "benchmark">>
  BY <1>2 DEF Inv, FilesSound, FilesKnown
<1>4. \A x, m : <<x, m>> # g => File(x, m)' = File(x, m) /\ Has(x, m)' = Has(x, m)
  <2>1. PICK d, n : Unlink(d, n) /\ g = <<d, n>>
    BY <1>2, <1>3
  <2> QED BY <2>1, AfterUnlink
<1>5. \A p : Steps(p)' = Steps(p)
  BY <1>1 DEF Steps
<1>6. ASSUME exit = "ok", NEW i \in DOMAIN Points, NEW p, p = Points[i]
      PROVE  /\ \A k \in DOMAIN Steps(p)' : Has(p.directory, Steps(p)[k].makes)'
             /\ File(p.directory, "benchmark")' # Truncated
             /\ Has(p.directory, "benchmark")' =>
                  /\ reports'["benchmark-summary"] # None
                  /\ \E entry \in Range(reports'["benchmark-summary"]) : entry.case = p.name
  <2>1. /\ \A k \in DOMAIN Steps(p) : Has(p.directory, Steps(p)[k].makes)
        /\ File(p.directory, "benchmark") # Truncated
        /\ Has(p.directory, "benchmark") =>
             /\ reports["benchmark-summary"] # None
             /\ \E entry \in Range(reports["benchmark-summary"]) : entry.case = p.name
    BY <1>6 DEF ExitSound, ExitZeroIsComplete
  <2>2. \A m : <<p.directory, m>> # g
    <3> SUFFICES ASSUME NEW m, <<p.directory, m>> = g PROVE FALSE
      OBVIOUS
    <3>1. <<p.directory, "benchmark">> = g
      BY <1>3
    <3>2. File(p.directory, "benchmark") = Truncated
      BY <1>2, <3>1 DEF File, Has
    <3> QED BY <2>1, <3>2
  <2>3. \A m : File(p.directory, m)' = File(p.directory, m) /\ Has(p.directory, m)' = Has(p.directory, m)
    BY <1>4, <2>2
  <2>4. \A k \in DOMAIN Steps(p)' : Has(p.directory, Steps(p)[k].makes)'
    <3> SUFFICES ASSUME NEW k \in DOMAIN Steps(p)
                 PROVE  \E m : m = Steps(p)[k].makes /\ Has(p.directory, m)'
      BY <1>5
    <3> QED BY <2>1, <2>3
  <2> QED BY <1>1, <2>1, <2>3, <2>4
<1>7. ASSUME exit' = "ok", NEW i \in DOMAIN Points', NEW p, p = Points'[i]
      PROVE  /\ \A k \in DOMAIN Steps(p)' : Has(p.directory, Steps(p)[k].makes)'
             /\ File(p.directory, "benchmark")' # Truncated
             /\ Has(p.directory, "benchmark")' =>
                  /\ reports'["benchmark-summary"] # None
                  /\ \E entry \in Range(reports'["benchmark-summary"]) : entry.case = p.name
  BY <1>1, <1>6, <1>7
<1>8. ExitZeroIsComplete'
  BY <1>7 DEF ExitZeroIsComplete
<1> QED BY <1>1, <1>8 DEF ExitSound

LEMMA CompleteInit == Init => Complete
<1> SUFFICES ASSUME Init PROVE Complete
  OBVIOUS
<1>1. ~Running /\ exit = None /\ DOMAIN files = {} /\ "benchmark-summary" \in DOMAIN reports
  BY DEF Init, Running
<1>2. exit # "ok"
  BY <1>1, ExperimentSweepAssumption
<1> QED BY <1>1, <1>2
        DEF Complete, BenchmarksPlaced, Accounted, PastPoints, ExitSound, ExitZeroIsComplete

LEMMA CompleteNext ==
  ASSUME Inv, Inv', Booked, Complete, Keeps, [Next]_vars
  PROVE  Complete'
<1>1. CASE Command
  BY <1>1, PlacedCommand, AccountedCommand, PastCommand, ExitCommand DEF Complete
<1>2. CASE Start \/ Kill \/ Edit
  <2>1. UNCHANGED files /\ UNCHANGED reports /\ UNCHANGED tool
    BY <1>2 DEF Start, Kill, Edit, inputs
  <2>2. exit' \in {None, "killed"} /\ (at' = 0 \/ (at' = 1 /\ Start))
    BY <1>2 DEF Start, Kill, Edit, Stop, Running
  <2>3. BenchmarksPlaced'
    BY <2>1 DEF Complete, BenchmarksPlaced
  <2>4. Accounted'
    <3>1. CASE at' = 0
      BY <3>1 DEF Accounted, Running
    <3>2. CASE Start
      <4>1. point' = 1 /\ outcomes' = << >>
        BY <3>2 DEF Start, Booked
      <4> QED BY <4>1 DEF Accounted
    <3> QED BY <2>2, <3>1, <3>2
  <2>5. PastPoints'
    BY <2>1, <2>2, PastAtRest DEF Complete, PastPoints, Running
  <2>6. exit' # "ok"
    BY <2>2, ExperimentSweepAssumption
  <2> QED BY <2>3, <2>4, <2>5, <2>6 DEF Complete, ExitSound, ExitZeroIsComplete
<1>3. CASE DeleteBadBenchmark
  <2>1. /\ UNCHANGED inputs /\ UNCHANGED <<at, point, outcomes>> /\ UNCHANGED reports
        /\ UNCHANGED tool /\ ~Running'
    BY <1>3 DEF DeleteBadBenchmark, position, inputs, Running
  <2>2. DOMAIN files' \subseteq DOMAIN files
    BY <1>3 DEF DeleteBadBenchmark, Unlink
  <2>3. BenchmarksPlaced'
    BY <2>1, <2>2 DEF Complete, BenchmarksPlaced
  <2> QED BY <1>3, <2>1, <2>3, PastStays, ExitDelete DEF Complete, Accounted
<1>4. CASE UNCHANGED vars
  <2>1. /\ UNCHANGED inputs /\ UNCHANGED <<at, point, outcomes>> /\ UNCHANGED reports
        /\ UNCHANGED <<tool, sample, Points>> /\ UNCHANGED exit /\ UNCHANGED files
    BY <1>4 DEF vars, position, inputs
  <2>2. BenchmarksPlaced'
    BY <2>1 DEF Complete, BenchmarksPlaced
  <2>3. Grows
    BY <2>1 DEF Grows, Has
  <2>4. Accounted'
    BY <2>1, <2>3, AccountedSame DEF Complete, Running
  <2>5. PastPoints'
    BY <2>1, PastStays DEF Complete
  <2>6. ExitZeroIsComplete' = ExitZeroIsComplete
    BY <2>1 DEF ExitZeroIsComplete, Steps, Has, File
  <2> QED BY <2>1, <2>2, <2>4, <2>5, <2>6 DEF Complete, ExitSound, Running
<1> QED BY <1>1, <1>2, <1>3, <1>4 DEF Next

(* A command returns 0 only when every step of every point has left its    *)
(* file and the summary ranks every measured point.                        *)
THEOREM ExitZero == Spec => []ExitZeroIsComplete
<1>1. Init => Booked /\ Complete
  BY BookedInit, CompleteInit
<1>2. Inv /\ Inv' /\ Booked /\ Complete /\ [Next]_vars => Booked' /\ Complete'
  BY InvNext, BookedNext, CompleteNext DEF Step
<1>3. Complete => ExitZeroIsComplete
  BY DEF Complete, ExitSound
<1> QED BY <1>1, <1>2, <1>3, InvHolds, PTL DEF Spec

----------------------------------------------------------------------------
(* The reports.  Each is true of files that are whole, in the folders that *)
(* its points had when it was written; whole files stay as they are.       *)
ReportNames ==
  {"benchmark-summary", "identity-invariant", "coherent-downmix-comparison",
   "sweep-report", "listening-report"}

ReportsKnown == DOMAIN reports = ReportNames /\ DOMAIN places = ReportNames

Measured(name, median) ==
  \E d : /\ <<name, d>> \in places["benchmark-summary"]
         /\ Whole(d, "benchmark") /\ File(d, "benchmark").median = median

TrueSummary ==
  LET summary == reports["benchmark-summary"] IN
  summary # None =>
    /\ \A k \in DOMAIN summary :
         /\ Measured(summary[k].case, summary[k].median)
         /\ Measured(Reference, summary[k].median - summary[k].delta)
    /\ \A k \in 2 .. Len(summary) : summary[k - 1].median >= summary[k].median

Compared(identity, omitted, zero) ==
  /\ \A name \in {"sample", "impulse"} : Whole(omitted, name) /\ Whole(zero, name)
  /\ identity[2] = SameAudio(omitted, zero, "sample")
  /\ identity[3] = SameAudio(omitted, zero, "impulse")

TrueIdentity ==
  LET identity == reports["identity-invariant"] IN
  identity \notin {None, <<"skipped">>} =>
    \E omitted, zero :
      /\ <<Omitted, omitted>> \in places["identity-invariant"]
      /\ <<Zero, zero>> \in places["identity-invariant"]
      /\ Compared(identity, omitted, zero)

TrueComparison ==
  LET comparison == reports["coherent-downmix-comparison"] IN
  comparison # None =>
    \E control, ablation :
      /\ <<Control, control>> \in places["coherent-downmix-comparison"]
      /\ <<Ablation, ablation>> \in places["coherent-downmix-comparison"]
      /\ Whole(control, "analysis") /\ Whole(ablation, "analysis")
      /\ comparison = <<File(control, "analysis"), File(ablation, "analysis")>>

(* One section of the listening report.                                    *)
ShownOf(directory, shown) ==
  \A k \in DOMAIN shown :
    /\ k \in DOMAIN PointEvidence(directory)
    /\ shown[k] \in {None, PointEvidence(directory)[k]}

TrueListening ==
  LET listening == reports["listening-report"] IN
  listening # None =>
    /\ tool # "diffusion"
    /\ \A i \in DOMAIN listening : ShownOf(listening[i][1], listening[i][2])

Truthful == ReportsKnown /\ TrueSummary /\ TrueIdentity /\ TrueComparison /\ TrueListening

LEMMA ReportWritten ==
  ASSUME ReportsKnown, NEW name \in ReportNames, NEW content, Report(name, content)
  PROVE  /\ ReportsKnown' /\ reports'[name] = content
         /\ \A i \in DOMAIN Points : <<Points[i].name, Points[i].directory>> \in places'[name]
         /\ \A r \in ReportNames \ {name} : reports'[r] = reports[r] /\ places'[r] = places[r]
  BY DEF Report, ReportsKnown, Range

LEMMA MeasuredStays ==
  ASSUME Keeps, places'["benchmark-summary"] = places["benchmark-summary"],
         NEW name, NEW median, Measured(name, median)
  PROVE  Measured(name, median)'
<1>1. PICK d : /\ <<name, d>> \in places["benchmark-summary"]
               /\ Whole(d, "benchmark") /\ File(d, "benchmark").median = median
  BY DEF Measured
<1>2. Whole(d, "benchmark")' /\ File(d, "benchmark")' = File(d, "benchmark")
  BY <1>1, WholeStays
<1> QED BY <1>1, <1>2 DEF Measured

LEMMA SummaryStays ==
  ASSUME TrueSummary, Keeps, reports'["benchmark-summary"] = reports["benchmark-summary"],
         places'["benchmark-summary"] = places["benchmark-summary"]
  PROVE  TrueSummary'
<1> DEFINE summary == reports["benchmark-summary"]
<1>1. SUFFICES ASSUME summary # None, NEW k \in DOMAIN summary
               PROVE  /\ Measured(summary[k].case, summary[k].median)'
                      /\ Measured(Reference, summary[k].median - summary[k].delta)'
  BY DEF TrueSummary
<1>2. PICK case, median, other : /\ case = summary[k].case /\ median = summary[k].median
                                 /\ other = summary[k].median - summary[k].delta
  OBVIOUS
<1>3. Measured(case, median) /\ Measured(Reference, other)
  BY <1>1, <1>2 DEF TrueSummary
<1>4. Measured(case, median)' /\ Measured(Reference, other)'
  BY <1>3, MeasuredStays
<1> QED BY <1>2, <1>4

LEMMA ComparedStays ==
  ASSUME Keeps, NEW identity, NEW omitted, NEW zero, Compared(identity, omitted, zero)
  PROVE  Compared(identity, omitted, zero)'
<1>1. ASSUME NEW name \in {"sample", "impulse"}, NEW d \in {omitted, zero}
      PROVE  Whole(d, name)' /\ File(d, name)' = File(d, name)
  BY WholeStays DEF Compared
<1>2. ASSUME NEW name \in {"sample", "impulse"}
      PROVE  SameAudio(omitted, zero, name)' = SameAudio(omitted, zero, name)
  <2>1. /\ File(omitted, name)' = File(omitted, name)
        /\ File(zero, name)' = File(zero, name)
    BY <1>1
  <2> QED BY <2>1 DEF SameAudio
<1> QED BY <1>1, <1>2 DEF Compared

LEMMA IdentityStays ==
  ASSUME TrueIdentity, Keeps, reports'["identity-invariant"] = reports["identity-invariant"],
         places'["identity-invariant"] = places["identity-invariant"]
  PROVE  TrueIdentity'
<1>1. PICK identity : identity = reports["identity-invariant"]
  OBVIOUS
<1>2. SUFFICES ASSUME identity \notin {None, <<"skipped">>}
               PROVE  \E omitted, zero :
                        /\ <<Omitted, omitted>> \in places["identity-invariant"]
                        /\ <<Zero, zero>> \in places["identity-invariant"]
                        /\ Compared(identity, omitted, zero)'
  BY <1>1 DEF TrueIdentity, Omitted, Zero
<1> QED BY <1>1, <1>2, ComparedStays DEF TrueIdentity

LEMMA ComparisonStays ==
  ASSUME TrueComparison, Keeps,
         reports'["coherent-downmix-comparison"] = reports["coherent-downmix-comparison"],
         places'["coherent-downmix-comparison"] = places["coherent-downmix-comparison"]
  PROVE  TrueComparison'
<1> SUFFICES ASSUME reports["coherent-downmix-comparison"] # None PROVE TrueComparison'
  BY DEF TrueComparison
<1>1. PICK control, ablation :
        /\ <<Control, control>> \in places["coherent-downmix-comparison"]
        /\ <<Ablation, ablation>> \in places["coherent-downmix-comparison"]
        /\ Whole(control, "analysis") /\ Whole(ablation, "analysis")
        /\ reports["coherent-downmix-comparison"]
             = <<File(control, "analysis"), File(ablation, "analysis")>>
  BY DEF TrueComparison
<1>2. /\ Whole(control, "analysis")' /\ File(control, "analysis")' = File(control, "analysis")
      /\ Whole(ablation, "analysis")' /\ File(ablation, "analysis")' = File(ablation, "analysis")
  BY <1>1, WholeStays
<1> QED BY <1>1, <1>2 DEF TrueComparison, Control, Ablation

(* What the listening report of a command shows of a point.                *)
Shown ==
  CASE tool = "tail" -> <<"analysis", "benchmark">>
    [] tool = "damping" -> <<"analysis", "sample", "benchmark">>
    [] tool = "modulation" -> <<"analysis", "sample", "benchmark">>
    [] tool = "spatial" -> <<"analysis">>

LEMMA EvidenceShown ==
  ASSUME tool \in Tools, tool # "diffusion", NEW d
  PROVE  /\ DOMAIN PointEvidence(d) = DOMAIN Shown
         /\ \A k \in DOMAIN Shown : /\ PointEvidence(d)[k] = Evidence(d, Shown[k])
                                    /\ Shown[k] \in {"analysis", "sample", "benchmark"}
<1>1. tool \in {"tail", "damping", "modulation", "spatial"}
  BY ExperimentSweepAssumption
<1>2. CASE tool = "tail"
  <2>1. /\ Shown = <<"analysis", "benchmark">>
        /\ PointEvidence(d) = <<Evidence(d, "analysis"), Evidence(d, "benchmark")>>
    BY <1>2 DEF Shown, PointEvidence, TailEvidence
  <2> QED BY <2>1
<1>3. CASE tool \in {"damping", "modulation"}
  <2>1. /\ Shown = <<"analysis", "sample", "benchmark">>
        /\ PointEvidence(d)
             = <<Evidence(d, "analysis"), Evidence(d, "sample"), Evidence(d, "benchmark")>>
    BY <1>3 DEF Shown, PointEvidence, DampingEvidence, ModulationEvidence
  <2> QED BY <2>1, ElementsOfThree
<1>4. CASE tool = "spatial"
  <2>1. Shown = <<"analysis">> /\ PointEvidence(d) = <<Evidence(d, "analysis")>>
    BY <1>4 DEF Shown, PointEvidence, SpatialEvidence
  <2> QED BY <2>1
<1> QED BY <1>1, <1>2, <1>3, <1>4

ShowsEvidence ==
  tool \in Tools /\ tool # "diffusion" =>
    \A d : /\ DOMAIN PointEvidence(d) = DOMAIN Shown
           /\ \A k \in DOMAIN Shown : PointEvidence(d)[k] = Evidence(d, Shown[k])

LEMMA EvidenceShownNext == ShowsEvidence'
<1>1. ShowsEvidence
  BY EvidenceShown DEF ShowsEvidence
<1> QED BY <1>1, PTL

LEMMA ShownStays ==
  ASSUME tool \in Tools, tool # "diffusion", UNCHANGED tool, Keeps, NEW d, NEW shown,
         ShownOf(d, shown)
  PROVE  ShownOf(d, shown)'
<1>1. tool' \in Tools /\ tool' # "diffusion" /\ Shown' = Shown
  BY DEF Shown
<1>2. /\ DOMAIN PointEvidence(d) = DOMAIN Shown
      /\ \A k \in DOMAIN Shown : /\ PointEvidence(d)[k] = Evidence(d, Shown[k])
                                 /\ Shown[k] \in {"analysis", "sample", "benchmark"}
  BY EvidenceShown
<1>3. /\ DOMAIN PointEvidence(d)' = DOMAIN Shown
      /\ \A k \in DOMAIN Shown : PointEvidence(d)'[k] = Evidence(d, Shown[k])'
  <2>1. /\ DOMAIN PointEvidence(d)' = DOMAIN Shown'
        /\ \A k \in DOMAIN Shown' : PointEvidence(d)'[k] = Evidence(d, Shown[k])'
    BY <1>1, EvidenceShownNext DEF ShowsEvidence
  <2> QED BY <1>1, <2>1
<1> SUFFICES ASSUME NEW k \in DOMAIN shown
             PROVE  k \in DOMAIN PointEvidence(d)' /\ shown[k] \in {None, PointEvidence(d)'[k]}
  BY DEF ShownOf
<1>4. k \in DOMAIN Shown /\ shown[k] \in {None, Evidence(d, Shown[k])}
  BY <1>2 DEF ShownOf
<1>5. PICK n : n = Shown[k] /\ n \in {"analysis", "sample", "benchmark"}
  BY <1>2, <1>4
<1>6. CASE Evidence(d, n) = None
  BY <1>3, <1>4, <1>5, <1>6
<1>7. CASE Evidence(d, n) # None
  <2>1. Whole(d, n)
    BY <1>7 DEF Evidence, Whole, File
  <2>2. File(d, n)' = File(d, n)
    BY <1>5, <2>1, WholeStays
  <2>3. Evidence(d, n)' = Evidence(d, n)
    BY <2>2 DEF Evidence
  <2>4. Evidence(d, Shown[k])' = Evidence(d, n)'
    BY <1>1, <1>5
  <2> QED BY <1>3, <1>4, <1>5, <2>3, <2>4
<1> QED BY <1>6, <1>7

LEMMA ListeningStays ==
  ASSUME TrueListening, tool \in Tools, UNCHANGED tool, Keeps,
         reports'["listening-report"] = reports["listening-report"]
  PROVE  TrueListening'
<1>1. PICK listening : listening = reports["listening-report"]
  OBVIOUS
<1>2. SUFFICES ASSUME listening # None
               PROVE  \A i \in DOMAIN listening : ShownOf(listening[i][1], listening[i][2])'
  BY <1>1 DEF TrueListening
<1>3. ASSUME NEW i \in DOMAIN listening PROVE ShownOf(listening[i][1], listening[i][2])'
  <2>1. PICK d, shown : d = listening[i][1] /\ shown = listening[i][2]
    OBVIOUS
  <2>2. ShownOf(d, shown)'
    BY <1>1, <1>2, <2>1, ShownStays DEF TrueListening
  <2> QED BY <2>1, <2>2
<1> QED BY <1>3

(* What is written is of the points that are past.                         *)
LEMMA OutcomeOf ==
  ASSUME Inv, Booked, Accounted, Running, NEW i \in DOMAIN outcomes
  PROVE  /\ i \in DOMAIN Points /\ outcomes[i].name = Points[i].name
         /\ EntrySound(Points[i], outcomes[i])
<1>1. Len(Points) \in Nat /\ DOMAIN Points = 1 .. Len(Points) /\ point \in 1 .. Len(Points) + 1
  BY PointsListed DEF Inv, Booked
<1>2. Len(outcomes) = point - 1 /\ DOMAIN outcomes = 1 .. Len(outcomes)
  BY DEF Accounted, Booked
<1>3. i \in DOMAIN Points /\ EntrySound(Points[i], outcomes[i])
  BY <1>1, <1>2 DEF Accounted
<1> QED BY <1>3 DEF EntrySound

LEMMA SummaryWritten ==
  ASSUME Inv, Booked, Accounted, ReportsKnown, Running, Summary # None,
         Report("benchmark-summary", Summary), UNCHANGED files
  PROVE  TrueSummary'
<1>1. PICK r \in DOMAIN outcomes : outcomes[r].name = Reference /\ outcomes[r].benchmark # None
  BY DEF Summary, build_benchmark_summary
<1> DEFINE written == Summary
<1> PICK summary : summary = written
  OBVIOUS
<1>2. /\ \A k \in DOMAIN summary : RankedEntry(summary[k])
      /\ \A k \in 2 .. Len(summary) : summary[k - 1].median >= summary[k].median
  BY <1>1, SummaryRanks
<1>3. /\ reports'["benchmark-summary"] = summary
      /\ \A i \in DOMAIN Points :
           <<Points[i].name, Points[i].directory>> \in places'["benchmark-summary"]
  BY ReportWritten DEF ReportNames
<1> HIDE DEF written
<1>4. ASSUME NEW i \in DOMAIN outcomes, outcomes[i].benchmark # None,
             NEW name, name = outcomes[i].name, NEW median, median = outcomes[i].benchmark.median
      PROVE  Measured(name, median)'
  <2>1. PICK d : d = Points[i].directory
    OBVIOUS
  <2>2. /\ <<name, d>> \in places'["benchmark-summary"]
        /\ Whole(d, "benchmark") /\ File(d, "benchmark") = outcomes[i].benchmark
    BY <1>3, <1>4, <2>1, OutcomeOf DEF EntrySound
  <2>3. Whole(d, "benchmark")' /\ File(d, "benchmark")' = File(d, "benchmark")
    BY <2>2 DEF Whole, Has, File
  <2> QED BY <1>4, <2>2, <2>3 DEF Measured
<1>5. ASSUME NEW k \in DOMAIN summary
      PROVE  /\ Measured(summary[k].case, summary[k].median)'
             /\ Measured(Reference, summary[k].median - summary[k].delta)'
  <2>1. PICK case, median, other : /\ case = summary[k].case /\ median = summary[k].median
                                   /\ other = summary[k].median - summary[k].delta
    OBVIOUS
  <2>2. PICK i, j \in DOMAIN outcomes :
          /\ outcomes[i].benchmark # None /\ case = outcomes[i].name
          /\ outcomes[j].benchmark # None /\ Reference = outcomes[j].name
          /\ outcomes[i].benchmark.median = median /\ outcomes[j].benchmark.median = other
    BY <1>2, <1>5, <2>1 DEF RankedEntry
  <2>3. Measured(case, median)' /\ Measured(Reference, other)'
    BY <1>4, <2>2
  <2> QED BY <2>1, <2>3
<1> QED BY <1>2, <1>3, <1>5 DEF TrueSummary

(* A place in main() of one command is in no other.                        *)
LEMMA MainOf ==
  ASSUME tool \in Tools, at \in DOMAIN Main
  PROVE  /\ Main[at] = "identity" => tool = "modulation"
         /\ Main[at] = "comparison" => tool = "spatial"
         /\ Main[at] = "listening" => tool # "diffusion"
         /\ Main[at] \in {"identity", "comparison", "listening"} =>
              \E j \in 1 .. at - 1 : Main[j] = "points"
<1>1. tool \in {"tail", "damping", "modulation", "spatial", "diffusion"}
  BY ExperimentSweepAssumption
<1>2. CASE tool \in {"tail", "damping"}
  <2>1. Main = <<"catalog", "sample", "impulse", "points", "summary", "status", "listening", "exit">>
    BY <1>2 DEF Main, TailMain, DampingMain
  <2>2. /\ DOMAIN Main = 1 .. 8 /\ Main[4] = "points"
        /\ \A j \in 1 .. 8 : /\ Main[j] \notin {"identity", "comparison"}
                             /\ Main[j] = "listening" => j > 4
    BY <2>1
  <2> QED BY <1>2, <2>2
<1>3. CASE tool = "modulation"
  <2>1. Main = <<"catalog", "sample", "impulse", "points", "identity", "summary", "status",
                 "listening", "exit">>
    BY <1>3 DEF Main, ModulationMain
  <2>2. /\ DOMAIN Main = 1 .. 9 /\ Main[4] = "points"
        /\ \A j \in 1 .. 9 : /\ Main[j] # "comparison"
                             /\ Main[j] \in {"identity", "listening"} => j > 4
    BY <2>1
  <2> QED BY <1>3, <2>2
<1>4. CASE tool = "spatial"
  <2>1. Main = <<"catalog", "scopes", "sample", "impulse", "points", "comparison", "status",
                 "listening", "exit">>
    BY <1>4 DEF Main, SpatialMain
  <2>2. /\ DOMAIN Main = 1 .. 9 /\ Main[5] = "points"
        /\ \A j \in 1 .. 9 : /\ Main[j] # "identity"
                             /\ Main[j] \in {"comparison", "listening"} => j > 5
    BY <2>1
  <2> QED BY <1>4, <2>2
<1>5. CASE tool = "diffusion"
  <2>1. Main = <<"catalog", "points", "summary", "status", "exit">>
    BY <1>5 DEF Main, DiffusionMain
  <2>2. /\ DOMAIN Main = 1 .. 5
        /\ \A j \in 1 .. 5 : Main[j] \notin {"identity", "comparison", "listening"}
    BY <2>1
  <2> QED BY <2>2
<1> QED BY <1>1, <1>2, <1>3, <1>4, <1>5

LEMMA AllPast ==
  ASSUME Inv, Booked, Accounted, PastPoints, Running,
         Main[at] \in {"identity", "comparison", "listening"}
  PROVE  DOMAIN outcomes = DOMAIN Points
<1>1. tool \in Tools /\ at \in DOMAIN Main
  BY MainKnown DEF Inv, InputsKnown, Booked, Running
<1>2. point > Len(Points)
  BY <1>1, MainOf DEF PastPoints
<1>3. Len(Points) \in Nat /\ DOMAIN Points = 1 .. Len(Points) /\ point \in 1 .. Len(Points) + 1
  BY PointsListed DEF Inv, Booked
<1>4. Len(outcomes) = Len(Points) /\ DOMAIN outcomes = 1 .. Len(outcomes)
  BY <1>2, <1>3 DEF Accounted, Booked
<1> QED BY <1>3, <1>4

(* A point of a modulation sweep that did not fail has both its renders.   *)
LEMMA BothRendered ==
  ASSUME Inv, Booked, Accounted, PastPoints, Running, tool = "modulation",
         Main[at] = "identity", NEW name, HasPoint(name), ~Failed(name)
  PROVE  /\ \E i \in DOMAIN Points : Points[i].name = name /\ Points[i].directory = DirectoryOf(name)
         /\ \A file \in {"sample", "impulse"} : Whole(DirectoryOf(name), file)
<1> DEFINE i == IndexOf(name)
<1>1. i \in DOMAIN Points /\ Points[i].name = name
  BY DEF HasPoint, IndexOf
<1>2. outcomes[i].status # "failed" /\ DirectoryOf(name) = Points[i].directory
  BY DEF Failed, DirectoryOf
<1> HIDE DEF i
<1>3. i \in DOMAIN outcomes
  BY <1>1, AllPast
<1>4. PointDone(Points[i])
  BY <1>2, <1>3, OutcomeOf DEF EntrySound
<1>5. Steps(Points[i]) = <<RenderStep, ImpulseStep, AnalysisStep, BenchmarkStep>>
  BY StepsListed DEF Inv, InputsKnown
<1>6. ASSUME NEW file \in {"sample", "impulse"} PROVE Has(Points[i].directory, file)
  <2>1. /\ 1 \in DOMAIN Steps(Points[i]) /\ Steps(Points[i])[1] = RenderStep
        /\ 2 \in DOMAIN Steps(Points[i]) /\ Steps(Points[i])[2] = ImpulseStep
    BY <1>5, ElementsOfFour
  <2>2. RenderStep.makes = "sample" /\ ImpulseStep.makes = "impulse"
    BY DEF RenderStep, ImpulseStep
  <2>3. \E k \in DOMAIN Steps(Points[i]) : Steps(Points[i])[k].makes = file
    BY <2>1, <2>2
  <2> QED BY <1>4, <2>3 DEF PointDone
<1>7. ASSUME NEW file \in {"sample", "impulse"} PROVE Whole(Points[i].directory, file)
  <2>1. Fits(file, File(Points[i].directory, file))
    BY <1>6, KnownFile DEF Inv, FilesSound
  <2>2. File(Points[i].directory, file) \in Renders
    BY <2>1 DEF Fits
  <2> QED BY <1>6, <2>2, MarkersApart DEF Whole
<1> QED BY <1>1, <1>2, <1>7

LEMMA IdentityWritten ==
  ASSUME Inv, Booked, Accounted, PastPoints, ReportsKnown, TrueIdentity, depth_identity_invariant,
         Keeps
  PROVE  TrueIdentity'
<1>1. Running /\ Main[at] = "identity" /\ tool = "modulation" /\ UNCHANGED files
  <2>1. Running /\ Main[at] = "identity" /\ UNCHANGED files
    BY DEF depth_identity_invariant, In
  <2>2. tool \in Tools /\ at \in DOMAIN Main
    BY <2>1, MainKnown DEF Inv, InputsKnown, Booked, Running
  <2> QED BY <2>1, <2>2, MainOf
<1>2. CASE UNCHANGED <<reports, places>>
  BY <1>2, IdentityStays
<1>3. CASE HasPoint(Omitted) /\ HasPoint(Zero) /\ (Failed(Omitted) \/ Failed(Zero))
           /\ Report("identity-invariant", <<"skipped">>)
  <2>1. reports'["identity-invariant"] = <<"skipped">>
    BY <1>3, ReportWritten DEF ReportNames
  <2> QED BY <2>1 DEF TrueIdentity
<1>4. ASSUME HasPoint(Omitted), HasPoint(Zero), ~Failed(Omitted), ~Failed(Zero),
             NEW omitted, NEW zero, omitted = DirectoryOf(Omitted), zero = DirectoryOf(Zero),
             NEW identity,
             identity = <<"compared", SameAudio(omitted, zero, "sample"),
                          SameAudio(omitted, zero, "impulse")>>,
             Report("identity-invariant", identity)
      PROVE  TrueIdentity'
  <2>1. /\ reports'["identity-invariant"] = identity
        /\ \A i \in DOMAIN Points :
             <<Points[i].name, Points[i].directory>> \in places'["identity-invariant"]
    BY <1>4, ReportWritten DEF ReportNames
  <2>2. /\ \E i \in DOMAIN Points : Points[i].name = Omitted /\ Points[i].directory = omitted
        /\ \E i \in DOMAIN Points : Points[i].name = Zero /\ Points[i].directory = zero
        /\ \A file \in {"sample", "impulse"} : Whole(omitted, file) /\ Whole(zero, file)
    BY <1>1, <1>4, BothRendered
  <2>3. /\ identity[2] = SameAudio(omitted, zero, "sample")
        /\ identity[3] = SameAudio(omitted, zero, "impulse")
    BY <1>4, ElementsOfThree
  <2>4. Compared(identity, omitted, zero)
    BY <2>2, <2>3 DEF Compared
  <2>5. Compared(identity, omitted, zero)'
    BY <2>4, ComparedStays
  <2>6. /\ <<Omitted, omitted>> \in places'["identity-invariant"]
        /\ <<Zero, zero>> \in places'["identity-invariant"]
    BY <2>1, <2>2
  <2> QED BY <2>1, <2>5, <2>6 DEF TrueIdentity, Omitted, Zero
<1>5. \/ UNCHANGED <<reports, places>>
      \/ /\ HasPoint(Omitted) /\ HasPoint(Zero) /\ (Failed(Omitted) \/ Failed(Zero))
         /\ Report("identity-invariant", <<"skipped">>)
      \/ /\ HasPoint(Omitted) /\ HasPoint(Zero) /\ ~Failed(Omitted) /\ ~Failed(Zero)
         /\ \E omitted, zero, identity :
              /\ omitted = DirectoryOf(Omitted) /\ zero = DirectoryOf(Zero)
              /\ identity = <<"compared", SameAudio(omitted, zero, "sample"),
                              SameAudio(omitted, zero, "impulse")>>
              /\ Report("identity-invariant", identity)
  BY DEF depth_identity_invariant
<1> QED BY <1>2, <1>3, <1>4, <1>5

LEMMA ComparisonWritten ==
  ASSUME Inv, Booked, ReportsKnown, TrueComparison, compare_coherent_downmix, Keeps
  PROVE  TrueComparison'
<1>1. Running /\ Main[at] = "comparison" /\ tool = "spatial" /\ UNCHANGED files
  <2>1. Running /\ Main[at] = "comparison" /\ UNCHANGED files
    BY DEF compare_coherent_downmix, In
  <2>2. tool \in Tools /\ at \in DOMAIN Main
    BY <2>1, MainKnown DEF Inv, InputsKnown, Booked, Running
  <2> QED BY <2>1, <2>2, MainOf
<1>2. CASE UNCHANGED <<reports, places>>
  BY <1>2, ComparisonStays
<1>3. ASSUME HasPoint(Ablation), NEW control, NEW ablation,
             control = DirectoryOf(Control), ablation = DirectoryOf(Ablation),
             Evidence(control, "analysis") # None, Evidence(ablation, "analysis") # None,
             Report("coherent-downmix-comparison",
                    <<Evidence(control, "analysis"), Evidence(ablation, "analysis")>>)
      PROVE  TrueComparison'
  <2>1. HasPoint(Control)
    <3>1. DOMAIN Points # {}
      BY <1>3 DEF HasPoint
    <3>2. 1 \in DOMAIN Points /\ Points[1].name = Control
      BY <1>1, <3>1, SweepReference DEF Inv, Control
    <3> QED BY <3>2 DEF HasPoint
  <2>2. ASSUME NEW name, HasPoint(name)
        PROVE  \E i \in DOMAIN Points : Points[i].name = name /\ Points[i].directory = DirectoryOf(name)
    BY <2>2 DEF HasPoint, DirectoryOf, IndexOf
  <2>3. /\ reports'["coherent-downmix-comparison"]
             = <<Evidence(control, "analysis"), Evidence(ablation, "analysis")>>
        /\ \A i \in DOMAIN Points :
             <<Points[i].name, Points[i].directory>> \in places'["coherent-downmix-comparison"]
    BY <1>3, ReportWritten DEF ReportNames
  <2>4. /\ <<Control, control>> \in places'["coherent-downmix-comparison"]
        /\ <<Ablation, ablation>> \in places'["coherent-downmix-comparison"]
    BY <1>3, <2>1, <2>2, <2>3
  <2>5. ASSUME NEW d, Evidence(d, "analysis") # None
        PROVE  Whole(d, "analysis") /\ Evidence(d, "analysis") = File(d, "analysis")
    BY <2>5 DEF Evidence, Whole, File
  <2>6. ASSUME NEW d PROVE Whole(d, "analysis")' = Whole(d, "analysis")
                           /\ File(d, "analysis")' = File(d, "analysis")
    BY <1>1 DEF Whole, Has, File
  <2>7. /\ Whole(control, "analysis")' /\ Whole(ablation, "analysis")'
        /\ Evidence(control, "analysis") = File(control, "analysis")'
        /\ Evidence(ablation, "analysis") = File(ablation, "analysis")'
    BY <1>3, <2>5, <2>6
  <2> QED BY <2>3, <2>4, <2>7 DEF TrueComparison, Control, Ablation
<1>4. \/ UNCHANGED <<reports, places>>
      \/ /\ HasPoint(Ablation)
         /\ \E control, ablation :
              /\ control = DirectoryOf(Control) /\ ablation = DirectoryOf(Ablation)
              /\ Evidence(control, "analysis") # None /\ Evidence(ablation, "analysis") # None
              /\ Report("coherent-downmix-comparison",
                        <<Evidence(control, "analysis"), Evidence(ablation, "analysis")>>)
  BY DEF compare_coherent_downmix
<1> QED BY <1>2, <1>3, <1>4

LEMMA ListeningWritten ==
  ASSUME Inv, Booked, ReportsKnown, generate_report
  PROVE  TrueListening'
<1>1. Running /\ Main[at] = "listening" /\ tool # "diffusion" /\ UNCHANGED files /\ UNCHANGED tool
  <2>1. Running /\ Main[at] = "listening" /\ UNCHANGED files /\ UNCHANGED tool
    BY DEF generate_report, In, inputs
  <2>2. tool \in Tools /\ at \in DOMAIN Main
    BY <2>1, MainKnown DEF Inv, InputsKnown, Booked, Running
  <2> QED BY <2>1, <2>2, MainOf
<1> PICK listening :
       listening = [i \in DOMAIN outcomes |->
                      <<Points[i].directory, IF outcomes[i].status = "failed" THEN << >>
                                             ELSE PointEvidence(Points[i].directory)>>]
  OBVIOUS
<1>2. reports'["listening-report"] = listening
  BY ReportWritten DEF generate_report, ReportNames
<1>3. ASSUME NEW d PROVE PointEvidence(d)' = PointEvidence(d)
  BY <1>1 DEF PointEvidence, TailEvidence, DampingEvidence, ModulationEvidence, SpatialEvidence,
              Evidence, File, Has
<1>4. ASSUME NEW i \in DOMAIN listening, NEW d, NEW shown,
             d = Points[i].directory,
             shown = IF outcomes[i].status = "failed" THEN << >> ELSE PointEvidence(d)
      PROVE  ShownOf(d, shown)'
  <2>1. CASE shown = << >>
    BY <2>1 DEF ShownOf
  <2>2. CASE shown = PointEvidence(d)
    BY <1>3, <2>2 DEF ShownOf
  <2> QED BY <1>4, <2>1, <2>2
<1>5. ASSUME NEW i \in DOMAIN listening PROVE ShownOf(listening[i][1], listening[i][2])'
  <2>1. PICK d, shown : /\ d = Points[i].directory
                        /\ shown = IF outcomes[i].status = "failed" THEN << >> ELSE PointEvidence(d)
    OBVIOUS
  <2>2. listening[i] = <<d, shown>>
    BY <2>1
  <2>3. ShownOf(d, shown)'
    BY <1>4, <2>1
  <2> QED BY <2>2, <2>3
<1> QED BY <1>1, <1>2, <1>5 DEF TrueListening

LEMMA TruthfulInit == Init => Truthful
<1> SUFFICES ASSUME Init PROVE Truthful
  OBVIOUS
<1>1. ReportsKnown /\ \A r \in ReportNames : reports[r] = None
  BY DEF Init, ReportsKnown, ReportNames
<1> QED BY <1>1 DEF Truthful, TrueSummary, TrueIdentity, TrueComparison, TrueListening, ReportNames

LEMMA ReportsStay ==
  ASSUME Truthful, Keeps, tool \in Tools, UNCHANGED tool, UNCHANGED <<reports, places>>
  PROVE  Truthful'
<1>1. UNCHANGED reports /\ UNCHANGED places
  OBVIOUS
<1> QED BY <1>1, SummaryStays, IdentityStays, ComparisonStays, ListeningStays
        DEF Truthful, ReportsKnown

LEMMA TruthfulCommand ==
  ASSUME Inv, Booked, Complete, Truthful, Keeps, Command
  PROVE  Truthful'
<1>1. tool \in Tools /\ Accounted /\ PastPoints /\ ReportsKnown
  BY DEF Inv, InputsKnown, Complete, Truthful
<1>2. CASE WriteSummary
  <2>1. UNCHANGED tool /\ Running /\ UNCHANGED files
    BY <1>2 DEF WriteSummary, inputs, In
  <2>2. UNCHANGED <<reports, places>>
        \/ (Summary # None /\ Report("benchmark-summary", Summary))
    BY <1>2 DEF WriteSummary, Summary
  <2>3. CASE UNCHANGED <<reports, places>>
    BY <1>1, <2>1, <2>3, ReportsStay
  <2>4. CASE Summary # None /\ Report("benchmark-summary", Summary)
    <3>1. TrueSummary'
      BY <1>1, <2>1, <2>4, SummaryWritten
    <3>2. /\ ReportsKnown'
          /\ \A r \in ReportNames \ {"benchmark-summary"} :
               reports'[r] = reports[r] /\ places'[r] = places[r]
      BY <1>1, <2>4, ReportWritten DEF ReportNames
    <3> QED BY <1>1, <2>1, <3>1, <3>2, IdentityStays, ComparisonStays, ListeningStays
            DEF Truthful, ReportNames
  <2> QED BY <2>2, <2>3, <2>4
<1>3. ASSUME NEW name \in ReportNames \ {"benchmark-summary"},
             UNCHANGED tool, UNCHANGED <<reports, places>> \/ \E content : Report(name, content),
             name = "identity-invariant" => TrueIdentity',
             name = "coherent-downmix-comparison" => TrueComparison',
             name = "listening-report" => TrueListening'
      PROVE  Truthful'
  <2>1. CASE UNCHANGED <<reports, places>>
    BY <1>1, <1>3, <2>1, ReportsStay
  <2>2. CASE \E content : Report(name, content)
    <3>1. /\ ReportsKnown'
          /\ \A r \in ReportNames \ {name} : reports'[r] = reports[r] /\ places'[r] = places[r]
      BY <1>1, <1>3, <2>2, ReportWritten
    <3>2. TrueSummary'
      BY <3>1, SummaryStays DEF Truthful, ReportNames
    <3>3. TrueIdentity'
      BY <1>3, <3>1, IdentityStays DEF Truthful, ReportNames
    <3>4. TrueComparison'
      BY <1>3, <3>1, ComparisonStays DEF Truthful, ReportNames
    <3>5. TrueListening'
      BY <1>1, <1>3, <3>1, ListeningStays DEF Truthful, ReportNames
    <3> QED BY <3>1, <3>2, <3>3, <3>4, <3>5 DEF Truthful
  <2> QED BY <1>3, <2>1, <2>2
<1>4. CASE depth_identity_invariant
  <2>1. TrueIdentity'
    BY <1>1, <1>4, IdentityWritten DEF Truthful
  <2>2. /\ UNCHANGED tool
        /\ UNCHANGED <<reports, places>> \/ \E content : Report("identity-invariant", content)
    BY <1>4 DEF depth_identity_invariant, inputs
  <2> QED BY <1>3, <2>1, <2>2 DEF ReportNames
<1>5. CASE compare_coherent_downmix
  <2>1. TrueComparison'
    BY <1>1, <1>5, ComparisonWritten DEF Truthful
  <2>2. /\ UNCHANGED tool
        /\ \/ UNCHANGED <<reports, places>>
           \/ \E content : Report("coherent-downmix-comparison", content)
    BY <1>5 DEF compare_coherent_downmix, inputs
  <2> QED BY <1>3, <2>1, <2>2 DEF ReportNames
<1>6. CASE WriteStatus
  <2>1. UNCHANGED tool /\ \E content : Report("sweep-report", content)
    BY <1>6 DEF WriteStatus, inputs
  <2> QED BY <1>3, <2>1 DEF ReportNames
<1>7. CASE generate_report
  <2>1. TrueListening'
    BY <1>1, <1>7, ListeningWritten
  <2>2. UNCHANGED tool /\ \E content : Report("listening-report", content)
    BY <1>7 DEF generate_report, inputs
  <2> QED BY <1>3, <2>1, <2>2 DEF ReportNames
<1>8. CASE LoadCatalog \/ RequireScopes \/ RequireSample \/ MatchImpulse \/ CheckStep
           \/ WriteRequest \/ render_case \/ render_from_resolved \/ Analyze \/ benchmark_case
           \/ RepeatRender \/ CompareRepeat \/ WriteDeterminism \/ ChildFails
           \/ FinishPoint \/ FinishPoints \/ Exit
  <2>1. UNCHANGED tool /\ UNCHANGED <<reports, places>>
    BY <1>8 DEF LoadCatalog, RequireScopes, RequireSample, MatchImpulse, CheckStep,
         WriteRequest, render_case, render_from_resolved, Analyze, benchmark_case,
         RepeatRender, CompareRepeat, WriteDeterminism, ChildFails, FinishPoint, FinishPoints,
         Exit, StepFails, inputs
  <2> QED BY <1>1, <2>1, ReportsStay
<1> QED BY <1>2, <1>4, <1>5, <1>6, <1>7, <1>8 DEF Command

LEMMA TruthfulNext ==
  ASSUME Inv, Booked, Complete, Truthful, Keeps, [Next]_vars
  PROVE  Truthful'
<1>1. CASE Command
  BY <1>1, TruthfulCommand
<1>2. CASE Start \/ Kill \/ Edit \/ DeleteBadBenchmark \/ UNCHANGED vars
  <2>1. UNCHANGED tool /\ UNCHANGED <<reports, places>>
    BY <1>2 DEF Start, Kill, Edit, DeleteBadBenchmark, vars, inputs
  <2> QED BY <2>1, ReportsStay DEF Inv, InputsKnown
<1> QED BY <1>1, <1>2 DEF Next

LEMMA TruthSuffices == Truthful => ReportsTrueOfDisk
<1> SUFFICES ASSUME Truthful PROVE ReportsTrueOfDisk
  OBVIOUS
<1> DEFINE summary == reports["benchmark-summary"]
           identity == reports["identity-invariant"]
           comparison == reports["coherent-downmix-comparison"]
           listening == reports["listening-report"]
           Where(report, name) == {place[2] : place \in {q \in places[report] : q[1] = name}}
           Measures(name, median) == \E d \in Where("benchmark-summary", name) :
             Has(d, "benchmark") /\ File(d, "benchmark").median = median
<1>1. ASSUME NEW report, NEW name, NEW d, <<name, d>> \in places[report]
      PROVE  d \in Where(report, name)
  <2>1. PICK q : q = <<name, d>>
    OBVIOUS
  <2>2. q \in places[report] /\ q[1] = name /\ q[2] = d
    BY <1>1, <2>1
  <2> QED BY <2>2
<1> HIDE DEF Where
<1>2. ASSUME NEW name, NEW median, Measured(name, median) PROVE Measures(name, median)
  BY <1>1, <1>2 DEF Measured, Whole
<1> HIDE DEF Measures
<1>3. summary # None =>
        /\ \A k \in DOMAIN summary :
             /\ Measures(summary[k].case, summary[k].median)
             /\ Measures(Reference, summary[k].median - summary[k].delta)
        /\ \A k \in 2..Len(summary) : summary[k - 1].median >= summary[k].median
  BY <1>2 DEF Truthful, TrueSummary
<1>4. identity \notin {None, <<"skipped">>} =>
        \E omitted \in Where("identity-invariant", Omitted) :
          \E zero \in Where("identity-invariant", Zero) :
            \A k \in 1..2 :
              LET name == <<"sample", "impulse">>[k] IN
              /\ Has(omitted, name) /\ Has(zero, name)
              /\ identity[k + 1] = SameAudio(omitted, zero, name)
  <2> SUFFICES ASSUME identity \notin {None, <<"skipped">>}
               PROVE  \E omitted \in Where("identity-invariant", Omitted) :
                        \E zero \in Where("identity-invariant", Zero) :
                          \A k \in 1..2 :
                            LET name == <<"sample", "impulse">>[k] IN
                            /\ Has(omitted, name) /\ Has(zero, name)
                            /\ identity[k + 1] = SameAudio(omitted, zero, name)
    OBVIOUS
  <2>1. PICK omitted, zero : /\ <<Omitted, omitted>> \in places["identity-invariant"]
                             /\ <<Zero, zero>> \in places["identity-invariant"]
                             /\ Compared(identity, omitted, zero)
    BY DEF Truthful, TrueIdentity
  <2>2. /\ omitted \in Where("identity-invariant", Omitted)
        /\ zero \in Where("identity-invariant", Zero)
    BY <1>1, <2>1
  <2>3. ASSUME NEW k \in 1..2, NEW name, name = <<"sample", "impulse">>[k]
        PROVE  /\ Has(omitted, name) /\ Has(zero, name)
               /\ identity[k + 1] = SameAudio(omitted, zero, name)
    <3>1. CASE k = 1
      <4>1. name = "sample" /\ k + 1 = 2
        BY <2>3, <3>1
      <4> QED BY <2>1, <4>1 DEF Compared, Whole
    <3>2. CASE k = 2
      <4>1. name = "impulse" /\ k + 1 = 3
        BY <2>3, <3>2
      <4> QED BY <2>1, <4>1 DEF Compared, Whole
    <3> QED BY <3>1, <3>2
  <2> QED BY <2>2, <2>3
<1>5. comparison # None =>
        \E control \in Where("coherent-downmix-comparison", Control) :
          \E ablation \in Where("coherent-downmix-comparison", Ablation) :
            comparison = <<File(control, "analysis"), File(ablation, "analysis")>>
  BY <1>1 DEF Truthful, TrueComparison
<1>6. listening # None =>
        \A i \in DOMAIN listening : \A k \in DOMAIN listening[i][2] :
          listening[i][2][k] \in {None, PointEvidence(listening[i][1])[k]}
  BY DEF Truthful, TrueListening, ShownOf
<1> QED BY <1>3, <1>4, <1>5, <1>6 DEF ReportsTrueOfDisk, Where, Measures

(* The reports, stale or not, are true of the files beside them.           *)
THEOREM ReportsAreTrue == Spec => []ReportsTrueOfDisk
<1>1. Init => Booked /\ Complete /\ Truthful
  BY BookedInit, CompleteInit, TruthfulInit
<1>2. Inv /\ Inv' /\ Booked /\ Complete /\ Truthful /\ [Next]_vars =>
        Booked' /\ Complete' /\ Truthful'
  BY InvNext, BookedNext, CompleteNext, TruthfulNext DEF Step
<1>3. Truthful => ReportsTrueOfDisk
  BY TruthSuffices
<1> QED BY <1>1, <1>2, <1>3, InvHolds, PTL DEF Spec

----------------------------------------------------------------------------
(* Documents.  _navigate follows the tokens one after another: it is a     *)
(* fold, whose steps the lemmas take from the sets of places that it goes  *)
(* over.                                                                   *)
Follows(f, d, tokens, n) ==
  f = [s \in SUBSET (1 .. n) |->
         IF s = {} THEN d ELSE Child(f[s \ {Max(s)}], tokens[Max(s)])]

LEMMA LastOf ==
  ASSUME NEW n \in Nat, NEW s \in SUBSET (1 .. n + 1)
  PROVE  /\ n + 1 \in s => Max(s) = n + 1 /\ s \ {n + 1} \in SUBSET (1 .. n)
         /\ n + 1 \notin s => s \in SUBSET (1 .. n)
<1>1. ASSUME n + 1 \in s PROVE Max(s) = n + 1
  <2>1. \A y \in s : n + 1 >= y
    OBVIOUS
  <2>2. \A x \in s : (\A y \in s : x >= y) => x = n + 1
    BY <1>1
  <2> QED BY <1>1, <2>1, <2>2 DEF Max
<1> QED BY <1>1

LEMMA Followed ==
  ASSUME NEW d, NEW tokens, NEW n \in Nat
  PROVE  \E f : Follows(f, d, tokens, n)
<1> DEFINE Lost == {m \in Nat : ~\E f : Follows(f, d, tokens, m)}
<1> SUFFICES ASSUME Lost # {} PROVE FALSE
  OBVIOUS
<1>1. PICK m \in Lost : \A k \in Lost : m <= k
  <2>1. Lost \in SUBSET Nat
    OBVIOUS
  <2> HIDE DEF Lost
  <2> QED BY <2>1, LeastElement
<1>2. m \in Nat /\ ~\E f : Follows(f, d, tokens, m)
  OBVIOUS
<1>3. m # 0
  <2>1. Follows([s \in SUBSET (1 .. 0) |-> d], d, tokens, 0)
    <3>1. \A s \in SUBSET (1 .. 0) : s = {}
      OBVIOUS
    <3> QED BY <3>1 DEF Follows
  <2> QED BY <1>2, <2>1
<1>4. PICK f : Follows(f, d, tokens, m - 1)
  <2>1. m - 1 \in Nat /\ ~(m <= m - 1)
    BY <1>2, <1>3
  <2> QED BY <1>1, <2>1
<1> DEFINE n0 == m - 1
           g == [s \in SUBSET (1 .. m) |->
                   IF m \in s THEN Child(f[s \ {m}], tokens[m]) ELSE f[s]]
<1>5. n0 \in Nat /\ n0 + 1 = m
  BY <1>2, <1>3
<1> HIDE DEF n0
<1>6. \A s \in SUBSET (1 .. n0) :
        f[s] = IF s = {} THEN d ELSE Child(f[s \ {Max(s)}], tokens[Max(s)])
  BY <1>4 DEF Follows, n0
<1>7. ASSUME NEW s \in SUBSET (1 .. m)
      PROVE  g[s] = IF s = {} THEN d ELSE Child(g[s \ {Max(s)}], tokens[Max(s)])
  <2>1. CASE m \in s
    <3>1. Max(s) = m /\ s \ {m} \in SUBSET (1 .. n0) /\ s # {}
      BY <1>5, <2>1, LastOf
    <3>2. g[s \ {m}] = f[s \ {m}] /\ g[s] = Child(f[s \ {m}], tokens[m])
      BY <2>1
    <3> HIDE DEF g
    <3> QED BY <3>1, <3>2
  <2>2. CASE m \notin s
    <3>1. s \in SUBSET (1 .. n0)
      BY <1>5, <2>2, LastOf
    <3>2. g[s] = f[s] /\ g[s \ {Max(s)}] = f[s \ {Max(s)}]
      BY <2>2
    <3> HIDE DEF g
    <3> QED BY <1>6, <3>1, <3>2
  <2> QED BY <2>1, <2>2
<1>8. g = [s \in SUBSET (1 .. m) |-> g[s]]
  OBVIOUS
<1> HIDE DEF g
<1>9. Follows(g, d, tokens, m)
  BY <1>7, <1>8 DEF Follows
<1> QED BY <1>2, <1>9

LEMMA NavigateFollows ==
  ASSUME NEW d, NEW S, NEW tokens \in Seq(S)
  PROVE  \E f : Follows(f, d, tokens, Len(tokens)) /\ _navigate(d, tokens) = f[1 .. Len(tokens)]
<1> DEFINE f == CHOOSE f : Follows(f, d, tokens, Len(tokens))
<1>1. Len(tokens) \in Nat /\ DOMAIN tokens = 1 .. Len(tokens)
  OBVIOUS
<1>2. Follows(f, d, tokens, Len(tokens))
  BY <1>1, Followed
<1>3. _navigate(d, tokens) = f[DOMAIN tokens]
  BY <1>1 DEF _navigate, FoldLeft, MapThenFoldSet, Follows
<1> QED BY <1>1, <1>2, <1>3

Walks(f, d, tokens, n) ==
  /\ f[{}] = d
  /\ \A i \in 1 .. n : f[1 .. i] = Child(f[1 .. i - 1], tokens[i])

LEMMA FollowedTo ==
  ASSUME NEW d, NEW tokens, NEW n \in Nat, NEW f, Follows(f, d, tokens, n)
  PROVE  Walks(f, d, tokens, n)
<1>1. \A s \in SUBSET (1 .. n) :
        f[s] = IF s = {} THEN d ELSE Child(f[s \ {Max(s)}], tokens[Max(s)])
  BY DEF Follows
<1>2. ASSUME NEW i \in 1 .. n PROVE f[1 .. i] = Child(f[1 .. i - 1], tokens[i])
  <2>1. i - 1 \in Nat /\ (i - 1) + 1 = i /\ 1 .. i \in SUBSET (1 .. n) /\ i \in 1 .. i
    OBVIOUS
  <2>2. Max(1 .. i) = i
    BY <2>1, LastOf
  <2>3. (1 .. i) \ {i} = 1 .. i - 1
    OBVIOUS
  <2> QED BY <1>1, <2>1, <2>2, <2>3
<1> QED BY <1>1, <1>2 DEF Walks

LEMMA NavigateStart ==
  ASSUME NEW d
  PROVE  _navigate(d, << >>) = d
<1>1. << >> \in Seq({}) /\ Len(<< >>) = 0 /\ 1 .. 0 = {}
  OBVIOUS
<1>2. PICK f : Follows(f, d, << >>, 0) /\ _navigate(d, << >>) = f[{}]
  BY <1>1, NavigateFollows
<1> QED BY <1>2, FollowedTo DEF Walks

LEMMA NavigateNext ==
  ASSUME NEW d, NEW S, NEW path \in Seq(S), NEW token \in S
  PROVE  _navigate(d, Append(path, token)) = Child(_navigate(d, path), token)
<1> DEFINE n == Len(path)
           longer == Append(path, token)
<1>1. /\ n \in Nat /\ longer \in Seq(S) /\ Len(longer) = n + 1 /\ longer[n + 1] = token
      /\ \A i \in 1 .. n : longer[i] = path[i]
  OBVIOUS
<1> HIDE DEF longer, n
<1>2. PICK f : Follows(f, d, path, n) /\ _navigate(d, path) = f[1 .. n]
  BY NavigateFollows DEF n
<1>3. PICK g : Follows(g, d, longer, n + 1) /\ _navigate(d, longer) = g[1 .. n + 1]
  BY <1>1, NavigateFollows
<1>4. /\ f[{}] = d /\ \A i \in 1 .. n : f[1 .. i] = Child(f[1 .. i - 1], path[i])
      /\ g[{}] = d /\ \A i \in 1 .. n + 1 : g[1 .. i] = Child(g[1 .. i - 1], longer[i])
  <2>1. Walks(f, d, path, n)
    BY <1>1, <1>2, FollowedTo
  <2>2. n + 1 \in Nat
    BY <1>1
  <2>3. Walks(g, d, longer, n + 1)
    BY <1>3, <2>2, FollowedTo
  <2> QED BY <2>1, <2>3 DEF Walks
<1> DEFINE Parted == {i \in 0 .. n : f[1 .. i] # g[1 .. i]}
<1>5. Parted = {}
  <2> SUFFICES ASSUME Parted # {} PROVE FALSE
    OBVIOUS
  <2>1. PICK i \in Parted : \A k \in Parted : i <= k
    <3>1. Parted \in SUBSET Nat
      BY <1>1
    <3> HIDE DEF Parted
    <3> QED BY <3>1, LeastElement
  <2>2. i \in 0 .. n /\ f[1 .. i] # g[1 .. i]
    OBVIOUS
  <2>3. i # 0
    <3>1. 1 .. 0 = {}
      OBVIOUS
    <3> QED BY <1>4, <2>2, <3>1
  <2>4. i \in 1 .. n /\ i \in 1 .. n + 1 /\ i - 1 \in 0 .. n /\ ~(i <= i - 1)
    BY <1>1, <2>2, <2>3
  <2>5. f[1 .. i - 1] = g[1 .. i - 1]
    BY <2>1, <2>4
  <2>6. /\ f[1 .. i] = Child(f[1 .. i - 1], path[i])
        /\ g[1 .. i] = Child(g[1 .. i - 1], path[i])
    BY <1>1, <1>4, <2>4
  <2> QED BY <2>2, <2>5, <2>6
<1>6. f[1 .. n] = g[1 .. n]
  BY <1>1, <1>5
<1>7. g[1 .. n + 1] = Child(g[1 .. n], token)
  <2>1. n + 1 \in 1 .. n + 1 /\ (n + 1) - 1 = n
    BY <1>1
  <2> QED BY <1>1, <1>4, <2>1
<1> QED BY <1>2, <1>3, <1>6, <1>7 DEF longer

(* The paths of a document, by their length.                               *)
Longer(d, paths) ==
  UNION {{Append(path, key) : key \in Keys(_navigate(d, path))} : path \in paths}

Levels(f, d, m) ==
  f = [n \in 0 .. m |-> IF n = 0 THEN {<< >>} ELSE Longer(d, f[n - 1])]

LEMMA Levelled ==
  ASSUME NEW d, NEW n \in Nat
  PROVE  \E f : Levels(f, d, n)
<1> DEFINE Lost == {m \in Nat : ~\E f : Levels(f, d, m)}
<1> SUFFICES ASSUME Lost # {} PROVE FALSE
  OBVIOUS
<1>1. PICK m \in Lost : \A k \in Lost : m <= k
  <2>1. Lost \in SUBSET Nat
    OBVIOUS
  <2> HIDE DEF Lost
  <2> QED BY <2>1, LeastElement
<1>2. m \in Nat /\ ~\E f : Levels(f, d, m)
  OBVIOUS
<1>3. m # 0
  <2>1. Levels([k \in 0 .. 0 |-> {<< >>}], d, 0)
    BY DEF Levels
  <2> QED BY <1>2, <2>1
<1>4. PICK f : Levels(f, d, m - 1)
  <2>1. m - 1 \in Nat /\ ~(m <= m - 1)
    BY <1>2, <1>3
  <2> QED BY <1>1, <2>1
<1> DEFINE g == [k \in 0 .. m |-> IF k = m THEN Longer(d, f[m - 1]) ELSE f[k]]
<1>5. \A k \in 0 .. m - 1 : f[k] = IF k = 0 THEN {<< >>} ELSE Longer(d, f[k - 1])
  BY <1>4 DEF Levels
<1>6. ASSUME NEW k \in 0 .. m
      PROVE  g[k] = IF k = 0 THEN {<< >>} ELSE Longer(d, g[k - 1])
  <2>1. CASE k = m
    <3>1. g[k] = Longer(d, f[m - 1])
      BY <2>1
    <3>2. g[k - 1] = f[m - 1]
      BY <1>2, <1>3, <2>1
    <3> HIDE DEF g
    <3> QED BY <1>3, <2>1, <3>1, <3>2
  <2>2. CASE k # m
    <3>1. k \in 0 .. m - 1 /\ (k # 0 => k - 1 \in 0 .. m /\ k - 1 # m)
      BY <1>2, <2>2
    <3>2. g[k] = f[k] /\ (k # 0 => g[k - 1] = f[k - 1])
      BY <2>2, <3>1
    <3> HIDE DEF g
    <3> QED BY <1>5, <3>1, <3>2
  <2> QED BY <2>1, <2>2
<1>7. g = [k \in 0 .. m |-> g[k]]
  OBVIOUS
<1> HIDE DEF g
<1>8. Levels(g, d, m)
  BY <1>6, <1>7 DEF Levels
<1> QED BY <1>2, <1>8

LEMMA PathsLevelled ==
  ASSUME NEW d, MaxDepth \in Nat
  PROVE  \E f : Levels(f, d, MaxDepth) /\ PathsOf(d) = UNION {f[n] : n \in 0 .. MaxDepth}
<1> DEFINE f == CHOOSE f : Levels(f, d, MaxDepth)
<1>1. Levels(f, d, MaxDepth)
  BY Levelled
<1>2. PathsOf(d) = UNION {f[n] : n \in 0 .. MaxDepth}
  BY DEF PathsOf, Levels, Longer
<1> QED BY <1>1, <1>2

(* A path is a sequence, and no longer than the bound.                     *)
IsPath(path) == path \in Seq(Range(path)) /\ Len(path) \in 0 .. MaxDepth

LEMMA LongerPath ==
  ASSUME NEW path, path \in Seq(Range(path)), NEW key
  PROVE  /\ Append(path, key) \in Seq(Range(Append(path, key)))
         /\ Append(path, key) \in Seq(Range(path) \cup {key})
         /\ path \in Seq(Range(path) \cup {key})
         /\ Len(Append(path, key)) = Len(path) + 1
<1> DEFINE S == Range(path) \cup {key}
           longer == Append(path, key)
<1>1. path \in Seq(S) /\ key \in S
  OBVIOUS
<1> HIDE DEF S
<1>2. /\ longer \in Seq(S) /\ Len(longer) = Len(path) + 1
      /\ DOMAIN longer = 1 .. Len(longer) /\ Len(longer) \in Nat
  BY <1>1
<1> HIDE DEF longer
<1>3. longer \in Seq(Range(longer))
  <2>1. \A i \in 1 .. Len(longer) : longer[i] \in Range(longer)
    BY <1>2 DEF Range
  <2>2. longer = [i \in 1 .. Len(longer) |-> longer[i]]
    BY <1>2
  <2> QED BY <1>2, <2>1, <2>2
<1> QED BY <1>1, <1>2, <1>3 DEF S, longer

LevelPaths(f, m) ==
  \A n \in 0 .. m : \A path \in f[n] : path \in Seq(Range(path)) /\ Len(path) = n

LEMMA PathLevels ==
  ASSUME NEW d, NEW m \in Nat, NEW f, Levels(f, d, m)
  PROVE  LevelPaths(f, m)
<1> DEFINE Good(n) == \A path \in f[n] : path \in Seq(Range(path)) /\ Len(path) = n
           Bad == {n \in 0 .. m : ~Good(n)}
<1> SUFFICES ASSUME Bad # {} PROVE FALSE
  BY DEF LevelPaths
<1>1. PICK n \in Bad : \A k \in Bad : n <= k
  <2>1. Bad \in SUBSET Nat
    OBVIOUS
  <2> HIDE DEF Bad
  <2> QED BY <2>1, LeastElement
<1>2. n \in 0 .. m /\ ~Good(n)
  OBVIOUS
<1>3. \A k \in 0 .. m : f[k] = IF k = 0 THEN {<< >>} ELSE Longer(d, f[k - 1])
  BY DEF Levels
<1>4. CASE n = 0
  <2>1. f[n] = {<< >>}
    BY <1>2, <1>3, <1>4
  <2>2. << >> \in Seq(Range(<< >>)) /\ Len(<< >>) = 0
    OBVIOUS
  <2> QED BY <1>2, <1>4, <2>1, <2>2
<1>5. CASE n # 0
  <2>1. n - 1 \in 0 .. m /\ ~(n <= n - 1)
    BY <1>2, <1>5
  <2>2. Good(n - 1)
    BY <1>1, <2>1
  <2>3. f[n] = Longer(d, f[n - 1])
    BY <1>2, <1>3, <1>5
  <2>4. ASSUME NEW path \in f[n] PROVE path \in Seq(Range(path)) /\ Len(path) = n
    <3>1. PICK shorter \in f[n - 1] : \E key : path = Append(shorter, key)
      BY <2>3 DEF Longer
    <3>2. PICK key : path = Append(shorter, key)
      BY <3>1
    <3>3. shorter \in Seq(Range(shorter)) /\ Len(shorter) = n - 1
      BY <2>2
    <3>4. n \in Int /\ n - 1 \in Int
      BY <1>2
    <3>5. path \in Seq(Range(path)) /\ Len(path) = Len(shorter) + 1
      BY <3>2, <3>3, LongerPath
    <3> QED BY <3>3, <3>4, <3>5
  <2> QED BY <1>2, <2>4
<1> QED BY <1>4, <1>5

LEMMA PathsAre ==
  ASSUME NEW d, MaxDepth \in Nat
  PROVE  /\ << >> \in PathsOf(d)
         /\ \A path \in PathsOf(d) :
              /\ IsPath(path)
              /\ Len(path) < MaxDepth =>
                   \A key \in Keys(_navigate(d, path)) : Append(path, key) \in PathsOf(d)
              /\ \/ path = << >>
                 \/ \E shorter \in PathsOf(d) : \E key \in Keys(_navigate(d, shorter)) :
                      path = Append(shorter, key) /\ Len(shorter) < MaxDepth
<1>1. PICK f : Levels(f, d, MaxDepth) /\ PathsOf(d) = UNION {f[n] : n \in 0 .. MaxDepth}
  BY PathsLevelled
<1>2. \A n \in 0 .. MaxDepth : \A path \in f[n] : path \in Seq(Range(path)) /\ Len(path) = n
  <2>1. \A m \in Nat : \A g : Levels(g, d, m) => LevelPaths(g, m)
    BY PathLevels
  <2>2. LevelPaths(f, MaxDepth)
    BY <1>1, <2>1
  <2> QED BY <2>2 DEF LevelPaths
<1>3. \A n \in 0 .. MaxDepth : f[n] = IF n = 0 THEN {<< >>} ELSE Longer(d, f[n - 1])
  BY <1>1 DEF Levels
<1>4. << >> \in PathsOf(d)
  BY <1>1, <1>3
<1>5. ASSUME NEW path \in PathsOf(d), Len(path) < MaxDepth, NEW key \in Keys(_navigate(d, path))
      PROVE  Append(path, key) \in PathsOf(d)
  <2>1. PICK n \in 0 .. MaxDepth : path \in f[n]
    BY <1>1
  <2>2. n + 1 \in 0 .. MaxDepth /\ n + 1 # 0 /\ (n + 1) - 1 = n
    BY <1>2, <1>5, <2>1
  <2>3. f[n + 1] = Longer(d, f[n])
    BY <1>3, <2>2
  <2>4. Append(path, key) \in f[n + 1]
    BY <1>5, <2>1, <2>3 DEF Longer
  <2> QED BY <1>1, <2>2, <2>4
<1>6. ASSUME NEW path \in PathsOf(d), path # << >>
      PROVE  \E shorter \in PathsOf(d) : \E key \in Keys(_navigate(d, shorter)) :
               path = Append(shorter, key) /\ Len(shorter) < MaxDepth
  <2>1. PICK n \in 0 .. MaxDepth : path \in f[n]
    BY <1>1
  <2>2. n # 0
    BY <1>3, <1>6, <2>1
  <2>3. n - 1 \in 0 .. MaxDepth /\ f[n] = Longer(d, f[n - 1]) /\ n - 1 < MaxDepth
    BY <1>3, <2>1, <2>2
  <2>4. PICK shorter \in f[n - 1] : \E key \in Keys(_navigate(d, shorter)) :
               path = Append(shorter, key)
    BY <2>1, <2>3 DEF Longer
  <2>5. shorter \in PathsOf(d) /\ Len(shorter) = n - 1
    BY <1>1, <1>2, <2>3
  <2> QED BY <2>3, <2>4, <2>5
<1>7. ASSUME NEW path \in PathsOf(d) PROVE IsPath(path)
  <2>1. PICK n \in 0 .. MaxDepth : path \in f[n]
    BY <1>1
  <2> QED BY <1>2, <2>1 DEF IsPath
<1> QED BY <1>4, <1>5, <1>6, <1>7

LEMMA PrefixGrows ==
  ASSUME NEW scope, scope \in Seq(Range(scope)), NEW path, path \in Seq(Range(path)), NEW key,
         IsPrefix(scope, path)
  PROVE  IsPrefix(scope, Append(path, key))
<1>1. /\ Append(path, key) \in Seq(Range(path) \cup {key}) /\ path \in Seq(Range(path) \cup {key})
      /\ Len(Append(path, key)) = Len(path) + 1
  BY LongerPath
<1> DEFINE S == Range(path) \cup {key}
           longer == Append(path, key)
<1>2. path \in Seq(S) /\ key \in S
  BY <1>1
<1> HIDE DEF S
<1>3. /\ Len(scope) \in Nat /\ Len(path) \in Nat
      /\ \A i \in 1 .. Len(path) : longer[i] = path[i]
  BY <1>2
<1>4. Len(scope) <= Len(path) /\ SubSeq(scope, 1, Len(scope)) = SubSeq(path, 1, Len(scope))
  BY DEF IsPrefix
<1>5. SubSeq(longer, 1, Len(scope)) = SubSeq(path, 1, Len(scope))
  <2> HIDE DEF longer
  <2>1. \A i \in 1 .. Len(scope) : longer[i] = path[i]
    BY <1>3, <1>4
  <2> QED BY <1>3, <2>1
<1> QED BY <1>1, <1>3, <1>4, <1>5 DEF IsPrefix

(* A path of the comparison, and what it finds there.                      *)
ReachedIn(b, a, path) ==
  \A n \in 0 .. Len(path) - 1 :
    Alike(_navigate(b, SubSeq(path, 1, n)), _navigate(a, SubSeq(path, 1, n)))

DiffersAt(b, a, path) ==
  /\ ~Alike(_navigate(b, path), _navigate(a, path))
  /\ _navigate(b, path) # _navigate(a, path)

LEMMA ChangedAre ==
  ASSUME NEW b, NEW a, NEW path
  PROVE  path \in changed_pointer_paths(b, a) <=>
           path \in PathsOf(b) \cup PathsOf(a) /\ ReachedIn(b, a, path) /\ DiffersAt(b, a, path)
BY DEF changed_pointer_paths, ReachedIn, DiffersAt

LEMMA AlikeBoth == \A b, a : Alike(b, a) <=> Alike(a, b)
BY DEF Alike

LEMMA ChangedBoth ==
  ASSUME NEW b, NEW a
  PROVE  changed_pointer_paths(b, a) = changed_pointer_paths(a, b)
<1>1. ASSUME NEW path PROVE ReachedIn(b, a, path) <=> ReachedIn(a, b, path)
  BY AlikeBoth DEF ReachedIn
<1>2. ASSUME NEW path PROVE DiffersAt(b, a, path) <=> DiffersAt(a, b, path)
  BY AlikeBoth DEF DiffersAt
<1>3. \A path : path \in changed_pointer_paths(b, a) <=> path \in changed_pointer_paths(a, b)
  BY <1>1, <1>2, ChangedAre
<1> QED BY <1>3

LEMMA ReachedNext ==
  ASSUME NEW b, NEW a, NEW path, path \in Seq(Range(path)), NEW key, ReachedIn(b, a, path),
         Alike(_navigate(b, path), _navigate(a, path))
  PROVE  ReachedIn(b, a, Append(path, key))
<1>1. /\ Append(path, key) \in Seq(Range(path) \cup {key}) /\ path \in Seq(Range(path) \cup {key})
      /\ Len(Append(path, key)) = Len(path) + 1
  BY LongerPath
<1> DEFINE S == Range(path) \cup {key}
           longer == Append(path, key)
<1>2. path \in Seq(S) /\ key \in S
  BY <1>1
<1> HIDE DEF S
<1>3. Len(path) \in Nat /\ Len(longer) = Len(path) + 1
      /\ \A i \in 1 .. Len(path) : longer[i] = path[i]
  BY <1>2
<1> HIDE DEF longer
<1>4. ASSUME NEW n \in 0 .. Len(path) PROVE SubSeq(longer, 1, n) = SubSeq(path, 1, n)
  BY <1>3
<1>5. SubSeq(path, 1, Len(path)) = path
  BY <1>2
<1>6. ASSUME NEW n \in 0 .. Len(longer) - 1
      PROVE  Alike(_navigate(b, SubSeq(longer, 1, n)), _navigate(a, SubSeq(longer, 1, n)))
  <2>1. n \in 0 .. Len(path) - 1 \/ n = Len(path)
    BY <1>3
  <2>2. n \in 0 .. Len(path)
    BY <1>3
  <2> QED BY <1>4, <1>5, <2>1, <2>2 DEF ReachedIn
<1> QED BY <1>6 DEF ReachedIn, longer

(* The nodes of a document.                                                *)
LEMMA NodeKinds ==
  ASSUME NEW node, IsNode(node)
  PROVE  node.kind \in {"leaf", "object", "array"} /\ node # Refused
BY DEF IsNode, Refused

LEMMA NoChild ==
  ASSUME NEW node, node.kind = "object", NEW key, key \notin DOMAIN node.fields
  PROVE  Child(node, key) = Refused
BY DEF Child

LEMMA ChildOfObject ==
  ASSUME NEW node, node.kind = "object", NEW key \in DOMAIN node.fields
  PROVE  Child(node, key) = node.fields[key]
BY DEF Child

LEMMA ChildOfArray ==
  ASSUME NEW node, IsNode(node), node.kind = "array", NEW i \in 1 .. Len(node.items)
  PROVE  Child(node, TokenOf(i - 1)) = node.items[i] /\ TokenOf(i - 1) \in Keys(node)
<1>1. /\ Len(node.items) \in Nat /\ TokenOf(i - 1) \in DOMAIN IntegerOf
      /\ IntegerOf[TokenOf(i - 1)] = i - 1
      /\ node = Array([k \in 1 .. Len(node.items) |-> node.items[k]])
  BY DEF IsNode
<1>2. DOMAIN node.items = 1 .. Len(node.items)
  BY <1>1 DEF Array
<1>3. i - 1 \in 0 .. Len(node.items) - 1 /\ (i - 1) + 1 = i
  BY <1>1
<1> QED BY <1>1, <1>2, <1>3 DEF Child, Keys

LEMMA KeysOfArray ==
  ASSUME NEW node, IsNode(node), node.kind = "array"
  PROVE  Keys(node) = {TokenOf(i - 1) : i \in 1 .. Len(node.items)}
<1>1. node = Array([k \in 1 .. Len(node.items) |-> node.items[k]])
  BY DEF IsNode
<1>2. DOMAIN node.items = 1 .. Len(node.items)
  BY <1>1 DEF Array
<1> QED BY <1>2 DEF Keys

(* What the comparison finds at a path of both documents that has not      *)
(* changed: the same node, or containers that it goes into.                *)
Agree(b, a, path) ==
  /\ path \in PathsOf(b) \cap PathsOf(a)
  /\ ReachedIn(b, a, path)
  /\ ~DiffersAt(b, a, path)

LEMMA AgreeNext ==
  ASSUME MaxDepth \in Nat, NEW b, NEW a, IsDocument(b), IsDocument(a),
         NEW path, Agree(b, a, path), Len(path) < MaxDepth,
         NEW key \in Keys(_navigate(b, path)),
         Append(path, key) \notin changed_pointer_paths(b, a)
  PROVE  Agree(b, a, Append(path, key))
<1> DEFINE x == _navigate(b, path)
           y == _navigate(a, path)
           longer == Append(path, key)
<1>1. path \in PathsOf(b) /\ path \in PathsOf(a) /\ ReachedIn(b, a, path)
      /\ (Alike(x, y) \/ x = y)
  BY DEF Agree, DiffersAt
<1>2. path \in Seq(Range(path)) /\ longer \in PathsOf(b)
  BY <1>1, PathsAre DEF IsPath
<1>3. path \in Seq(Range(path) \cup {key}) /\ key \in Range(path) \cup {key}
  BY <1>2, LongerPath
<1>4. _navigate(b, longer) = Child(x, key) /\ _navigate(a, longer) = Child(y, key)
  BY <1>3, NavigateNext
<1>5. IsNode(x) /\ IsNode(y) /\ IsNode(_navigate(b, longer))
  BY <1>1, <1>2 DEF IsDocument
<1> HIDE DEF longer
<1>6. Alike(x, y)
  <2>1. key \in Keys(x)
    OBVIOUS
  <2> HIDE DEF x, y
  <2>2. CASE x = y
    <3>1. x.kind \in {"object", "array"}
      BY <1>5, <2>1, NodeKinds DEF Keys
    <3> QED BY <2>2, <3>1 DEF Alike
  <2> QED BY <1>1, <2>2
<1>7. ReachedIn(b, a, longer)
  BY <1>1, <1>2, <1>6, ReachedNext DEF longer
<1>8. ~DiffersAt(b, a, longer)
  BY <1>2, <1>7, ChangedAre DEF longer
<1>9. key \in Keys(y)
  <2>1. key \in Keys(x)
    OBVIOUS
  <2>2. CASE x.kind = "object" /\ y.kind = "object"
    <3>1. ASSUME key \notin Keys(y) PROVE FALSE
      <4>1. key \notin DOMAIN y.fields
        <5> HIDE DEF y
        <5> QED BY <2>2, <3>1 DEF Keys
      <4>2. _navigate(a, longer) = Refused
        BY <1>4, <2>2, <4>1, NoChild
      <4>3. _navigate(b, longer) \in {Leaf(_navigate(b, longer).value)}
              \/ _navigate(b, longer).kind \in {"object", "array"}
        BY <1>5 DEF IsNode
      <4>4. _navigate(b, longer).kind # "refused" /\ _navigate(b, longer) # Refused
        BY <1>5, NodeKinds
      <4>5. Refused.kind = "refused"
        BY DEF Refused
      <4>6. ~Alike(_navigate(b, longer), _navigate(a, longer))
        BY <4>2, <4>5 DEF Alike
      <4> QED BY <1>8, <4>2, <4>4, <4>6 DEF DiffersAt
    <3> QED BY <3>1
  <2>3. CASE x.kind = "array" /\ y.kind = "array" /\ Len(x.items) = Len(y.items)
    <3> HIDE DEF x, y
    <3> QED BY <1>5, <2>1, <2>3, KeysOfArray
  <2> QED BY <1>6, <2>2, <2>3 DEF Alike
<1>10. longer \in PathsOf(a)
  BY <1>1, <1>9, PathsAre DEF longer
<1> QED BY <1>2, <1>7, <1>8, <1>10 DEF Agree, longer

LEMMA AgreeBoth ==
  ASSUME NEW b, NEW a, NEW path
  PROVE  Agree(b, a, path) <=> Agree(a, b, path)
BY AlikeBoth DEF Agree, ReachedIn, DiffersAt

(* Every change lies in a part of the paths that is closed under going     *)
(* deeper: the documents agree at all the others.                          *)
LEMMA AgreeOutside ==
  ASSUME MaxDepth \in Nat, NEW b, NEW a, IsDocument(b), IsDocument(a), NEW Part,
         changed_pointer_paths(b, a) \subseteq Part,
         \A path \in PathsOf(b) \cup PathsOf(a) : \A key :
           path \in Part /\ Append(path, key) \in PathsOf(b) \cup PathsOf(a) => Append(path, key) \in Part
  PROVE  \A path \in (PathsOf(b) \cup PathsOf(a)) \ Part : Agree(b, a, path)
<1> DEFINE Paths == PathsOf(b) \cup PathsOf(a)
           Odd == {n \in 0 .. MaxDepth :
                     \E path \in Paths \ Part : Len(path) = n /\ ~Agree(b, a, path)}
<1>1. \A path \in Paths : IsPath(path)
  BY PathsAre
<1> SUFFICES ASSUME Odd # {} PROVE FALSE
  BY <1>1 DEF IsPath
<1>2. PICK n \in Odd : \A k \in Odd : n <= k
  <2>1. Odd \in SUBSET Nat
    OBVIOUS
  <2> HIDE DEF Odd
  <2> QED BY <2>1, LeastElement
<1>3. PICK path \in Paths \ Part : Len(path) = n /\ ~Agree(b, a, path)
  OBVIOUS
<1>4. ASSUME path = << >> PROVE FALSE
  <2>1. path \in PathsOf(b) /\ path \in PathsOf(a)
    BY <1>4, PathsAre
  <2>2. ReachedIn(b, a, path)
    BY <1>4 DEF ReachedIn
  <2>3. ~DiffersAt(b, a, path)
    BY <1>3, <2>2, ChangedAre
  <2> QED BY <1>3, <2>1, <2>2, <2>3 DEF Agree
<1>5. ASSUME NEW shorter \in Paths, NEW key, path = Append(shorter, key), Len(shorter) < MaxDepth,
             key \in Keys(_navigate(b, shorter)) \/ key \in Keys(_navigate(a, shorter))
      PROVE  FALSE
  <2>1. shorter \notin Part
    BY <1>3, <1>5
  <2>2. Agree(b, a, shorter)
    <3>1. Len(path) = Len(shorter) + 1 /\ Len(shorter) \in 0 .. MaxDepth
      BY <1>1, <1>5, LongerPath DEF IsPath
    <3>2. Len(shorter) \notin Odd
      BY <1>2, <1>3, <3>1
    <3> QED BY <2>1, <3>1, <3>2
  <2>3. path \notin changed_pointer_paths(b, a) /\ path \notin changed_pointer_paths(a, b)
    BY <1>3, ChangedBoth
  <2>4. Agree(a, b, shorter)
    BY <2>2, AgreeBoth
  <2>5. CASE key \in Keys(_navigate(b, shorter))
    <3>1. Agree(b, a, path)
      BY <1>5, <2>2, <2>3, <2>5, AgreeNext
    <3> QED BY <1>3, <3>1
  <2>6. CASE key \in Keys(_navigate(a, shorter))
    <3>1. Agree(a, b, path)
      BY <1>5, <2>3, <2>4, <2>6, AgreeNext
    <3> QED BY <1>3, <3>1, AgreeBoth
  <2> QED BY <1>5, <2>5, <2>6
<1> HIDE DEF Odd
<1>6. path # << >> /\ (path \in PathsOf(b) \/ path \in PathsOf(a))
  BY <1>3, <1>4
<1>7. CASE path \in PathsOf(b)
  <2>1. PICK shorter \in PathsOf(b) : \E key \in Keys(_navigate(b, shorter)) :
          path = Append(shorter, key) /\ Len(shorter) < MaxDepth
    BY <1>6, <1>7, PathsAre
  <2> QED BY <1>5, <2>1
<1>8. CASE path \in PathsOf(a)
  <2>1. PICK shorter \in PathsOf(a) : \E key \in Keys(_navigate(a, shorter)) :
          path = Append(shorter, key) /\ Len(shorter) < MaxDepth
    BY <1>6, <1>8, PathsAre
  <2> QED BY <1>5, <2>1
<1> QED BY <1>6, <1>7, <1>8

LEMMA ChildrenSame ==
  ASSUME MaxDepth \in Nat, NEW b, NEW a, IsDocument(b), IsDocument(a),
         NEW path \in PathsOf(b), path \in PathsOf(a), NEW key \in Keys(_navigate(b, path)),
         \A longer \in PathsOf(b) :
           Len(longer) = Len(path) + 1 =>
             longer \in PathsOf(a) /\ _navigate(b, longer) = _navigate(a, longer)
  PROVE  /\ Child(_navigate(b, path), key) = Child(_navigate(a, path), key)
         /\ Child(_navigate(b, path), key) # Refused
<1> DEFINE longer == Append(path, key)
<1>1. IsPath(path)
  BY PathsAre
<1>2. path \in Seq(Range(path) \cup {key}) /\ key \in Range(path) \cup {key}
      /\ Len(longer) = Len(path) + 1
  BY <1>1, LongerPath DEF IsPath
<1>3. Len(path) < MaxDepth
  BY <1>1 DEF IsDocument, IsPath
<1>4. longer \in PathsOf(b)
  BY <1>3, PathsAre
<1>5. /\ _navigate(b, longer) = Child(_navigate(b, path), key)
      /\ _navigate(a, longer) = Child(_navigate(a, path), key)
  BY <1>2, NavigateNext
<1> HIDE DEF longer
<1>6. _navigate(b, longer) = _navigate(a, longer)
  BY <1>2, <1>4
<1>7. _navigate(b, longer) # Refused
  BY <1>4, NodeKinds DEF IsDocument
<1> QED BY <1>5, <1>6, <1>7

LEMMA NodesSame ==
  ASSUME NEW x, NEW y, IsNode(x), IsNode(y), Alike(x, y),
         \A key \in Keys(x) : Child(x, key) = Child(y, key) /\ Child(x, key) # Refused,
         \A key \in Keys(y) : Child(x, key) = Child(y, key) /\ Child(y, key) # Refused
  PROVE  x = y
<1>1. CASE x.kind = "object" /\ y.kind = "object"
  <2>1. Keys(x) = DOMAIN x.fields /\ Keys(y) = DOMAIN y.fields
    BY <1>1 DEF Keys
  <2>2. DOMAIN x.fields = DOMAIN y.fields
    BY <1>1, <2>1, NoChild
  <2>3. \A key \in DOMAIN x.fields : x.fields[key] = y.fields[key]
    BY <1>1, <2>1, <2>2, ChildOfObject
  <2>4. /\ x = Object([k \in DOMAIN x.fields |-> x.fields[k]])
        /\ y = Object([k \in DOMAIN y.fields |-> y.fields[k]])
    BY <1>1 DEF IsNode
  <2>5. [k \in DOMAIN x.fields |-> x.fields[k]] = [k \in DOMAIN y.fields |-> y.fields[k]]
    BY <2>2, <2>3
  <2> QED BY <2>4, <2>5
<1>2. CASE x.kind = "array" /\ y.kind = "array" /\ Len(x.items) = Len(y.items)
  <2>1. \A i \in 1 .. Len(x.items) : x.items[i] = y.items[i]
    BY <1>2, ChildOfArray
  <2>2. /\ x = Array([i \in 1 .. Len(x.items) |-> x.items[i]])
        /\ y = Array([i \in 1 .. Len(y.items) |-> y.items[i]])
    BY <1>2 DEF IsNode
  <2>3. [i \in 1 .. Len(x.items) |-> x.items[i]] = [i \in 1 .. Len(y.items) |-> y.items[i]]
    BY <1>2, <2>1
  <2> QED BY <2>2, <2>3
<1> QED BY <1>1, <1>2 DEF Alike

(* The comparison finds a change wherever two documents are not the same.  *)
LEMMA UnchangedSame ==
  ASSUME MaxDepth \in Nat, NEW b, NEW a, IsDocument(b), IsDocument(a),
         changed_pointer_paths(b, a) = {}
  PROVE  b = a
<1> DEFINE Paths == PathsOf(b) \cup PathsOf(a)
           Odd == {n \in 0 .. MaxDepth :
                     \E path \in Paths :
                       Len(path) = MaxDepth - n /\ _navigate(b, path) # _navigate(a, path)}
<1>1. \A path \in Paths : IsPath(path)
  BY PathsAre
<1>2. \A path \in Paths : Agree(b, a, path)
  <2>1. \A path \in Paths \ {} : Agree(b, a, path)
    BY AgreeOutside
  <2> QED BY <2>1
<1>3. ASSUME Odd # {} PROVE FALSE
  <2>1. PICK n \in Odd : \A k \in Odd : n <= k
    <3>1. Odd \in SUBSET Nat
      BY <1>1
    <3> HIDE DEF Odd
    <3> QED BY <1>3, <3>1, LeastElement
  <2>2. PICK path \in Paths :
          n \in 0 .. MaxDepth /\ Len(path) = MaxDepth - n /\ _navigate(b, path) # _navigate(a, path)
    OBVIOUS
  <2>3. path \in PathsOf(b) /\ path \in PathsOf(a) /\ Alike(_navigate(b, path), _navigate(a, path))
    BY <1>2, <2>2 DEF Agree, DiffersAt
  <2>4. ASSUME NEW longer \in Paths, Len(longer) = Len(path) + 1
        PROVE  /\ longer \in PathsOf(b) /\ longer \in PathsOf(a)
               /\ _navigate(b, longer) = _navigate(a, longer)
    <3>1. n - 1 \in 0 .. MaxDepth /\ Len(longer) = MaxDepth - (n - 1) /\ ~(n <= n - 1)
      BY <1>1, <2>2, <2>4 DEF IsPath
    <3>2. n - 1 \notin Odd
      BY <2>1, <3>1
    <3>3. _navigate(b, longer) = _navigate(a, longer)
      BY <3>1, <3>2
    <3> QED BY <1>2, <3>3 DEF Agree
  <2>5. ASSUME NEW key \in Keys(_navigate(b, path))
        PROVE  /\ Child(_navigate(b, path), key) = Child(_navigate(a, path), key)
               /\ Child(_navigate(b, path), key) # Refused
    BY <2>3, <2>4, ChildrenSame
  <2>6. ASSUME NEW key \in Keys(_navigate(a, path))
        PROVE  /\ Child(_navigate(a, path), key) = Child(_navigate(b, path), key)
               /\ Child(_navigate(a, path), key) # Refused
    BY <2>3, <2>4, ChildrenSame
  <2>7. IsNode(_navigate(b, path)) /\ IsNode(_navigate(a, path))
    BY <2>3 DEF IsDocument
  <2>8. _navigate(b, path) = _navigate(a, path)
    BY <2>3, <2>5, <2>6, <2>7, NodesSame
  <2> QED BY <2>2, <2>8
<1>4. << >> \in Paths /\ Len(<< >>) = MaxDepth - MaxDepth /\ MaxDepth \in 0 .. MaxDepth
  BY PathsAre
<1>5. _navigate(b, << >>) = _navigate(a, << >>)
  BY <1>3, <1>4
<1> QED BY <1>5, NavigateStart

LEMMA ShapesSame ==
  ASSUME NEW x, NEW y, Alike(x, y) \/ x = y
  PROVE  Shape(x) = Shape(y)
BY DEF Alike, Shape

LEMMA ShapesApart ==
  ASSUME NEW x, NEW y, IsNode(x), IsNode(y), Shape(x) = Shape(y)
  PROVE  Alike(x, y) \/ x = y
<1>1. /\ \A z : z.kind = "leaf" => Shape(z) = z
      /\ \A z : z.kind = "array" => Shape(z) = [kind |-> "array", length |-> Len(z.items)]
      /\ \A z : z.kind = "object" => Shape(z) = [kind |-> "object"]
  BY DEF Shape
<1>2. x.kind \in {"leaf", "object", "array"} /\ y.kind \in {"leaf", "object", "array"}
  BY NodeKinds
<1>3. Shape(x).kind = x.kind /\ Shape(y).kind = y.kind
  BY <1>1, <1>2
<1>4. CASE x.kind = "leaf"
  BY <1>1, <1>3, <1>4
<1>5. CASE x.kind = "object"
  BY <1>3, <1>5 DEF Alike
<1>6. CASE x.kind = "array"
  <2>1. y.kind = "array"
    BY <1>3, <1>6
  <2>2. Shape(x).length = Len(x.items) /\ Shape(y).length = Len(y.items)
    BY <1>1, <1>6, <2>1
  <2> QED BY <1>6, <2>1, <2>2 DEF Alike
<1> QED BY <1>2, <1>4, <1>5, <1>6

(* The isolation check, which compares the documents node by node, accepts *)
(* exactly the documents that differ, and only under the scope.            *)
LEMMA IsolationIsScope ==
  ASSUME MaxDepth \in Nat, NEW b, NEW a, IsDocument(b), IsDocument(a),
         NEW scope, scope \in Seq(Range(scope))
  PROVE  validate_point_isolation(b, a, scope) <=> a # b /\ Without(a, scope) = Without(b, scope)
<1> DEFINE Paths == PathsOf(b) \cup PathsOf(a)
           Part == {path \in Paths : IsPrefix(scope, path)}
           changed == changed_pointer_paths(b, a)
           Kept(d) == {path \in PathsOf(d) : ~IsPrefix(scope, path)}
<1>1. \A path \in Paths : IsPath(path)
  BY PathsAre
<1>2. validate_point_isolation(b, a, scope) <=> changed # {} /\ changed \subseteq Part
  <2>1. changed \subseteq Paths
    BY ChangedAre
  <2> QED BY <2>1 DEF validate_point_isolation
<1>3. \A path \in Paths : \A key :
        path \in Part /\ Append(path, key) \in Paths => Append(path, key) \in Part
  BY <1>1, PrefixGrows DEF IsPath
<1>4. ASSUME changed # {}, changed \subseteq Part
      PROVE  a # b /\ Without(a, scope) = Without(b, scope)
  <2>1. \A path \in Paths \ Part : Agree(b, a, path)
    <3> HIDE DEF Part
    <3> QED BY <1>3, <1>4, AgreeOutside
  <2>2. Kept(a) = Kept(b)
    BY <2>1 DEF Agree
  <2>3. ASSUME NEW path \in Kept(b)
        PROVE  Shape(_navigate(a, path)) = Shape(_navigate(b, path))
    <3>1. Agree(b, a, path)
      BY <2>1
    <3> QED BY <3>1, ShapesSame DEF Agree, DiffersAt
  <2>4. Without(a, scope) = Without(b, scope)
    <3>1. /\ Without(a, scope) = [path \in Kept(a) |-> Shape(_navigate(a, path))]
          /\ Without(b, scope) = [path \in Kept(b) |-> Shape(_navigate(b, path))]
      BY DEF Without
    <3> HIDE DEF Kept
    <3> QED BY <2>2, <2>3, <3>1
  <2>5. a # b
    BY <1>4, ChangedAre DEF DiffersAt
  <2> QED BY <2>4, <2>5
<1>5. ASSUME a # b, Without(a, scope) = Without(b, scope)
      PROVE  changed # {} /\ changed \subseteq Part
  <2>1. changed # {}
    BY <1>5, UnchangedSame
  <2>2. ASSUME NEW path \in changed, path \notin Part PROVE FALSE
    <3>1. path \in Paths /\ DiffersAt(b, a, path) /\ ~IsPrefix(scope, path)
      BY <2>2, ChangedAre
    <3>2. /\ Without(a, scope) = [p \in Kept(a) |-> Shape(_navigate(a, p))]
          /\ Without(b, scope) = [p \in Kept(b) |-> Shape(_navigate(b, p))]
      BY DEF Without
    <3>3. path \in Kept(a) \/ path \in Kept(b)
      BY <3>1
    <3>4. Kept(a) = Kept(b)
      <4> HIDE DEF Kept
      <4> QED BY <1>5, <3>2
    <3>5. Shape(_navigate(a, path)) = Shape(_navigate(b, path))
      <4> HIDE DEF Kept
      <4> QED BY <1>5, <3>2, <3>3, <3>4
    <3>6. IsNode(_navigate(a, path)) /\ IsNode(_navigate(b, path))
      BY <3>3, <3>4 DEF IsDocument
    <3> QED BY <3>1, <3>5, <3>6, ShapesApart DEF DiffersAt
  <2> QED BY <2>1, <2>2
<1> QED BY <1>2, <1>4, <1>5

----------------------------------------------------------------------------
(* What the spatial sweep renders.                                         *)
LEMMA PointMade ==
  ASSUME InputsKnown, tool # "diffusion", NEW i \in DOMAIN Points
  PROVE  \E p : /\ Points[i] = Requesting(tool, catalog, p) /\ "name" \in DOMAIN p
                /\ \/ p.name = Reference
                   \/ \E a \in DOMAIN catalog.axes : p.name[1] = catalog.axes[a].name
<1>1. tool \in Tools /\ catalog \in Catalogs(tool) /\ Points = Plan(tool, catalog)
  BY DEF InputsKnown
<1>2. LoadsIn(tool, catalog)
  BY <1>1 DEF Plan
<1>3. /\ DOMAIN Points = DOMAIN sweep_points(catalog)
      /\ Points[i] = Requesting(tool, catalog, sweep_points(catalog)[i])
  BY <1>1, <1>2 DEF Plan
<1>4. NamesAxis(catalog, sweep_points(catalog)[i])
  BY <1>1, <1>2, <1>3, SweepPointsSequence
<1> QED BY <1>3, <1>4 DEF NamesAxis

Scoped == \A a \in DOMAIN catalog.axes : "scope" \in DOMAIN catalog.axes[a]

LEMMA IsolatedInScope ==
  ASSUME InputsKnown, tool = "spatial", Scoped, NEW i \in DOMAIN Points,
         Points[i].request # Refused
  PROVE  Points[i].isolated <=> InScope(Points[i])
<1>1. PICK p : /\ Points[i] = Requesting(tool, catalog, p) /\ "name" \in DOMAIN p
               /\ \/ p.name = Reference
                  \/ \E a \in DOMAIN catalog.axes : p.name[1] = catalog.axes[a].name
  BY PointMade
<1> DEFINE document == materialize(catalog.reference, p.overrides)
           scope == _axis_scope(catalog, p.name)
<1>2. /\ Points[i].name = p.name /\ Points[i].request = document
      /\ Points[i].isolated = Isolated(catalog, p, document)
  <2>1. Points[i].name = p.name
    BY <1>1, RequestingFields
  <2>2. Points[i].request = document
    BY <1>1 DEF Requesting
  <2>3. Points[i].isolated = (tool = "spatial" => Isolated(catalog, p, document))
    BY <1>1, Zenon DEF Requesting
  <2>4. Isolated(catalog, p, document) \in BOOLEAN
    BY DEF Isolated
  <2> QED BY <2>1, <2>2, <2>3, <2>4
<1> HIDE DEF document
<1>3. CASE scope = None
  BY <1>2, <1>3 DEF Isolated, InScope
<1>4. CASE scope # None
  <2>1. p.name # Reference
    BY <1>4 DEF _axis_scope
  <2>2. PICK axis \in Range(catalog.axes) : axis.name = p.name[1] /\ scope = axis.scope
    <3>1. \E axis \in Range(catalog.axes) : axis.name = p.name[1]
      BY <1>1, <2>1 DEF Range
    <3> QED BY <2>1, <3>1 DEF _axis_scope
  <2>3. "scope" \in DOMAIN axis
    BY DEF Scoped, Range
  <2>4. LoadsIn("spatial", catalog) /\ catalog \in Catalogs("spatial") /\ "spatial" \in Tools
        /\ Points[i] \in Range(Plan("spatial", catalog))
    BY DEF InputsKnown, Plan, Range
  <2>5. /\ MaxDepth \in Nat /\ IsDocument(catalog.reference) /\ IsDocument(document)
        /\ scope \in Seq(Range(scope))
    BY <1>2, <2>2, <2>3, <2>4, ExperimentSweepAssumption
  <2> HIDE DEF scope
  <2>6. validate_point_isolation(catalog.reference, document, scope) <=>
          document # catalog.reference /\ Without(document, scope) = Without(catalog.reference, scope)
    BY <2>5, IsolationIsScope
  <2> QED BY <1>2, <1>4, <2>6 DEF Isolated, InScope, scope
<1> QED BY <1>3, <1>4

(* A point is past the check of its scope before anything is done with it. *)
Admitted ==
  /\ faults \in Nat
  /\ tool = "spatial" =>
       /\ at > 2 => Scoped
       /\ InPoint /\ ~(step = 1 /\ phase = "check") => Current.isolated

LEMMA AdmittedInit == Init => Admitted
<1> SUFFICES ASSUME Init PROVE Admitted
  OBVIOUS
<1>1. at = 0 /\ step = 1 /\ phase = "check" /\ faults = 0
  BY DEF Init
<1> QED BY <1>1 DEF Admitted

(* How a step of a command moves it.                                       *)
LEMMA CommandMoves ==
  ASSUME Inv, Command
  PROVE  /\ UNCHANGED inputs /\ faults' \in {faults, faults + 1}
         /\ \/ \E code : Stop(code)
            \/ Proceed /\ ~InPoint
            \/ InStep /\ UNCHANGED <<at, point>>
            \/ \E status, benchmark : EndPoint(status, benchmark)
<1>1. CASE LoadCatalog \/ RequireScopes \/ RequireSample \/ MatchImpulse
           \/ depth_identity_invariant \/ WriteSummary \/ compare_coherent_downmix
           \/ WriteStatus \/ generate_report \/ Exit
  <2>1. ~InPoint
    BY <1>1, AtOnePlace
       DEF LoadCatalog, RequireScopes, RequireSample, MatchImpulse,
           depth_identity_invariant, WriteSummary, compare_coherent_downmix,
           WriteStatus, generate_report, Exit
  <2> QED BY <1>1, <2>1
       DEF LoadCatalog, RequireScopes, RequireSample, MatchImpulse,
           depth_identity_invariant, WriteSummary, compare_coherent_downmix,
           WriteStatus, generate_report, Exit
<1>2. CASE FinishPoints
  <2>1. point > Len(Points) /\ Len(Points) \in Nat /\ point \in Nat
    BY <1>2, PointsListed DEF FinishPoints, Inv, Place, PositionKnown
  <2> QED BY <1>2, <2>1 DEF FinishPoints, InPoint
<1>3. CASE CheckStep
  BY <1>3 DEF CheckStep, Enter
<1>4. CASE WriteRequest \/ render_case \/ render_from_resolved \/ Analyze
  BY <1>4 DEF WriteRequest, render_case, render_from_resolved, Analyze, Doing, Enter, StepDone,
              StepFails
<1>5. CASE benchmark_case \/ WriteDeterminism
  BY <1>5 DEF benchmark_case, WriteDeterminism, Doing, Enter, StepDone
<1>6. CASE RepeatRender \/ CompareRepeat
  BY <1>6 DEF RepeatRender, CompareRepeat, Doing, Enter, StepFails
<1>7. CASE ChildFails \/ FinishPoint
  BY <1>7 DEF ChildFails, FinishPoint, StepFails
<1> QED BY <1>1, <1>2, <1>3, <1>4, <1>5, <1>6, <1>7 DEF Command

(* Only a step in progress touches the files.                              *)
LEMMA CommandWrites ==
  ASSUME Command, files' # files
  PROVE  phase # "check"
<1>1. CASE LoadCatalog \/ RequireScopes \/ RequireSample \/ MatchImpulse \/ FinishPoints
           \/ depth_identity_invariant \/ WriteSummary \/ compare_coherent_downmix
           \/ WriteStatus \/ generate_report \/ Exit \/ CheckStep \/ ChildFails \/ FinishPoint
  BY <1>1 DEF LoadCatalog, RequireScopes, RequireSample, MatchImpulse, FinishPoints,
              depth_identity_invariant, WriteSummary, compare_coherent_downmix, WriteStatus,
              generate_report, Exit, CheckStep, ChildFails, FinishPoint
<1>2. CASE WriteRequest \/ render_case \/ render_from_resolved \/ Analyze \/ benchmark_case
           \/ RepeatRender \/ CompareRepeat \/ WriteDeterminism
  BY <1>2 DEF WriteRequest, render_case, render_from_resolved, Analyze, benchmark_case,
              RepeatRender, CompareRepeat, WriteDeterminism
<1> QED BY <1>1, <1>2 DEF Command

(* The axes have been looked at before the sample is.                      *)
LEMMA SecondPlace ==
  ASSUME Inv, Command, tool = "spatial", at = 2, Proceed
  PROVE  Scoped
<1>1. Main[at] = "scopes"
  BY DEF Main, SpatialMain
<1>2. \A name : In(name) => name = "scopes"
  BY <1>1 DEF In
<1>3. RequireScopes
  <2>1. CASE LoadCatalog \/ RequireSample \/ MatchImpulse \/ FinishPoints
             \/ depth_identity_invariant \/ WriteSummary \/ compare_coherent_downmix
             \/ WriteStatus \/ generate_report \/ Exit
    BY <1>2, <2>1 DEF LoadCatalog, RequireSample, MatchImpulse, FinishPoints,
                      depth_identity_invariant, WriteSummary, compare_coherent_downmix,
                      WriteStatus, generate_report, Exit
  <2>2. CASE WriteRequest \/ render_case \/ render_from_resolved \/ Analyze \/ benchmark_case
             \/ RepeatRender \/ CompareRepeat \/ WriteDeterminism \/ CheckStep \/ ChildFails
             \/ FinishPoint
    <3>1. In("points")
      BY <2>2 DEF WriteRequest, render_case, render_from_resolved, Analyze, benchmark_case,
                  RepeatRender, CompareRepeat, WriteDeterminism, CheckStep, ChildFails,
                  FinishPoint, Doing, InStep
    <3> QED BY <1>2, <3>1
  <2>3. CASE RequireScopes
    BY <2>3
  <2> QED BY <2>1, <2>2, <2>3 DEF Command
<1>4. ~\E code : Stop(code)
  BY DEF Proceed, Stop
<1> QED BY <1>3, <1>4 DEF RequireScopes, Scoped

LEMMA AdmittedCommand ==
  ASSUME Inv, Inv', Admitted, Command
  PROVE  Admitted'
<1>1. UNCHANGED <<tool, catalog, sample, Points>> /\ UNCHANGED inputs
      /\ faults' \in {faults, faults + 1}
  BY CommandMoves DEF inputs
<1>2. faults' \in Nat
  BY <1>1 DEF Admitted
<1>3. Scoped' = Scoped
  BY <1>1 DEF Scoped
<1>4. at \in Nat /\ PositionKnown /\ PositionKnown'
  BY DEF Inv, Place, PositionKnown
<1>5. ASSUME tool = "spatial", at' > 2 PROVE Scoped'
  <2>1. CASE \E code : Stop(code)
    BY <1>5, <2>1 DEF Stop
  <2>2. CASE Proceed
    <3>1. at' = at + 1
      BY <2>2 DEF Proceed
    <3>2. at > 2 \/ at = 2
      BY <1>4, <1>5, <3>1
    <3> QED BY <1>3, <1>5, <2>2, <3>2, SecondPlace DEF Admitted
  <2>3. CASE UNCHANGED at
    BY <1>3, <1>5, <2>3 DEF Admitted
  <2>4. CASE \E status, benchmark : EndPoint(status, benchmark)
    BY <1>3, <1>5, <2>4 DEF Admitted, EndPoint
  <2> QED BY <2>1, <2>2, <2>3, <2>4, CommandMoves
<1>6. ASSUME tool = "spatial", InPoint', ~(step' = 1 /\ phase' = "check") PROVE Current'.isolated
  <2>1. InStep /\ UNCHANGED <<at, point>>
    <3>1. CASE \E code : Stop(code)
      BY <1>6, <3>1 DEF Stop
    <3>2. CASE Proceed /\ ~InPoint
      <4>1. step' = 1 /\ phase' = "check"
        BY <1>4, <3>2 DEF PositionKnown, Proceed
      <4> QED BY <1>6, <4>1
    <3>3. CASE \E status, benchmark : EndPoint(status, benchmark)
      BY <1>6, <3>3 DEF EndPoint
    <3> QED BY <3>1, <3>2, <3>3, CommandMoves
  <2>2. Current' = Current /\ InPoint
    BY <1>1, <2>1, SamePoint DEF InStep, InPoint
  <2>3. CASE ~(step = 1 /\ phase = "check")
    BY <1>6, <2>2, <2>3 DEF Admitted
  <2>4. CASE step = 1 /\ phase = "check"
    <3>1. CheckStep
      <4>1. In("points") /\ ~(point > Len(Points)) /\ ~(step > Len(Steps(Current)))
        <5>1. Len(Points) \in Nat /\ Len(Steps(Current)) \in Nat
          BY PointsListed, StepsKnown DEF Inv, InputsKnown, MakesInOrder
        <5> QED BY <1>4, <2>1, <5>1 DEF InStep, PositionKnown
      <4>2. ASSUME NEW name, In(name) PROVE name = "points"
        BY <4>1, <4>2 DEF In
      <4>3. CASE LoadCatalog \/ RequireScopes \/ RequireSample \/ MatchImpulse
                 \/ depth_identity_invariant \/ WriteSummary \/ compare_coherent_downmix
                 \/ WriteStatus \/ generate_report \/ Exit
        BY <4>2, <4>3 DEF LoadCatalog, RequireScopes, RequireSample, MatchImpulse,
             depth_identity_invariant, WriteSummary, compare_coherent_downmix,
             WriteStatus, generate_report, Exit
      <4>4. CASE WriteRequest \/ render_case \/ render_from_resolved \/ Analyze
                 \/ benchmark_case \/ RepeatRender \/ CompareRepeat \/ WriteDeterminism
                 \/ ChildFails
        BY <2>4, <4>4 DEF WriteRequest, render_case, render_from_resolved, Analyze,
             benchmark_case, RepeatRender, CompareRepeat, WriteDeterminism, ChildFails
      <4>5. CASE FinishPoint \/ FinishPoints
        BY <4>1, <4>5 DEF FinishPoint, FinishPoints
      <4> QED BY <4>3, <4>4, <4>5 DEF Command
    <3>2. ~\E status, benchmark : EndPoint(status, benchmark)
      <4> SUFFICES ASSUME NEW status, NEW benchmark, EndPoint(status, benchmark) PROVE FALSE
        OBVIOUS
      <4>1. point' = point /\ point \in Nat
        BY <1>4, <2>1 DEF PositionKnown
      <4>2. point' = point + 1
        BY DEF EndPoint
      <4> QED BY <4>1, <4>2
    <3>3. Current.isolated
      BY <1>6, <2>4, <3>1, <3>2 DEF CheckStep
    <3> QED BY <2>2, <3>3
  <2> QED BY <2>3, <2>4
<1> QED BY <1>1, <1>2, <1>5, <1>6 DEF Admitted

LEMMA AdmittedNext ==
  ASSUME Inv, Inv', Admitted, [Next]_vars
  PROVE  Admitted'
<1>1. CASE Command
  BY <1>1, AdmittedCommand
<1>2. CASE UNCHANGED vars
  <2>1. UNCHANGED <<inputs, at, point, step, phase, faults>>
        /\ UNCHANGED <<tool, catalog, sample, Points>>
    BY <1>2 DEF vars, inputs, position
  <2>2. Current' = Current /\ InPoint' = InPoint /\ Scoped' = Scoped
    BY <2>1, SamePoint DEF Scoped
  <2> QED BY <2>1, <2>2 DEF Admitted
<1>3. CASE Start \/ Kill \/ Edit \/ DeleteBadBenchmark
  <2>1. at' \in {0, 1} /\ step' = 1 /\ phase' = "check"
    <3>1. CASE Start
      BY <3>1 DEF Start, Running, Inv, Place, PositionKnown, InPoint, In
    <3>2. CASE Kill
      BY <3>2 DEF Kill, Stop
    <3>3. CASE Edit \/ DeleteBadBenchmark
      <4>1. ~Running /\ UNCHANGED <<at, step, phase>>
        BY <3>3 DEF Edit, DeleteBadBenchmark, position
      <4> QED BY <4>1 DEF Running, Inv, Place, PositionKnown, InPoint, In
    <3> QED BY <1>3, <3>1, <3>2, <3>3
  <2>2. faults' \in {faults, faults + 1}
    BY <1>3 DEF Start, Kill, Edit, DeleteBadBenchmark
  <2> QED BY <2>1, <2>2 DEF Admitted
<1> QED BY <1>1, <1>2, <1>3 DEF Next

LEMMA SpatialStart ==
  ASSUME Inv, InStep, tool = "spatial", step = 1
  PROVE  Steps(Current)[step].does = "render"
<1>1. Steps(Current) = <<RenderStep, ImpulseStep, AnalysisStep, RepeatStep>>
  BY StepsListed DEF Inv, InputsKnown
<1>2. Steps(Current)[1] = RenderStep
  BY <1>1, ElementsOfFour
<1> QED BY <1>2 DEF RenderStep

(* A point in its first step is left only by way of the checks.            *)
LEMMA PointLeft ==
  ASSUME Inv, Admitted, Next, tool = "spatial", InStep, Requested # Refused,
         point' = point + 1, step = 1, faults' = faults
  PROVE  ~(Current.isolated /\ Readable(Current))
<1>1. /\ point \in Nat \ {0} /\ at \in Nat /\ faults \in Nat /\ InPoint /\ Running
      /\ Steps(Current)[step].does = "render" /\ Len(Steps(Current)) \in Nat
      /\ Len(Points) \in Nat
  <2>1. InPoint /\ step \in DOMAIN Steps(Current)
    BY StepAtHand
  <2>2. Len(Steps(Current)) \in Nat
    BY StepsKnown DEF Inv, InputsKnown, MakesInOrder
  <2> QED BY <2>1, <2>2, SpatialStart, PointsListed
          DEF Inv, Place, PositionKnown, InPoint, In, Admitted
<1>2. ~\E code : Stop(code)
  BY <1>1 DEF Stop
<1>3. ~UNCHANGED point
  BY <1>1
<1>4. ASSUME NEW name, In(name) PROVE name = "points"
  BY <1>1, <1>4 DEF InPoint, In
<1>5. ASSUME NEW what, Doing(what) PROVE what = "render"
  BY <1>1, <1>5 DEF Doing
<1>6. CASE LoadCatalog \/ RequireScopes \/ RequireSample \/ MatchImpulse
           \/ depth_identity_invariant \/ WriteSummary \/ compare_coherent_downmix
           \/ WriteStatus \/ generate_report \/ Exit
  BY <1>4, <1>6 DEF LoadCatalog, RequireScopes, RequireSample, MatchImpulse,
           depth_identity_invariant, WriteSummary, compare_coherent_downmix,
           WriteStatus, generate_report, Exit
<1>7. CASE render_from_resolved \/ Analyze \/ benchmark_case \/ RepeatRender \/ CompareRepeat
           \/ WriteDeterminism
  BY <1>5, <1>7 DEF render_from_resolved, Analyze, benchmark_case, RepeatRender, CompareRepeat,
                    WriteDeterminism
<1>8. CASE ChildFails \/ Kill \/ Edit
  BY <1>1, <1>8 DEF ChildFails, Kill, Edit
<1>9. CASE FinishPoint \/ FinishPoints
  BY <1>1, <1>9 DEF FinishPoint, FinishPoints, InStep
<1>10. CASE Start \/ DeleteBadBenchmark
  BY <1>1, <1>10 DEF Start, DeleteBadBenchmark
<1>11. CASE WriteRequest
  BY <1>3, <1>11 DEF WriteRequest, Enter
<1>12. CASE render_case
  BY <1>3, <1>12 DEF render_case, StepDone
<1>13. CASE CheckStep
  <2>1. ~Enter("do") /\ ~(UNCHANGED <<at, point, phase, newWork, outcomes, exit>>)
    BY <1>3 DEF Enter
  <2> QED BY <1>13, <2>1 DEF CheckStep
<1> QED BY <1>6, <1>7, <1>8, <1>9, <1>10, <1>11, <1>12, <1>13 DEF Next, Command

LEMMA ScopedStep ==
  ASSUME Inv, Admitted, Next, tool = "spatial", InStep, Requested # Refused
  PROVE  /\ <<Current.directory, "sample">> \in DOMAIN files' \ DOMAIN files => InScope(Current)
         /\ point' = point + 1 /\ step = 1 /\ faults' = faults =>
              ~(InScope(Current) /\ Readable(Current))
<1>1. InPoint /\ point \in DOMAIN Points /\ Running
  <2>1. InPoint
    BY StepAtHand
  <2> QED BY <2>1, PointAtHand DEF Inv, Place, InPoint, In
<1>2. at > 2
  <2>1. at \in Nat /\ at # 0 /\ Main[at] = "points" /\ Main = SpatialMain
    BY <1>1 DEF Inv, Place, PositionKnown, InPoint, In, Running, Main
  <2>2. SpatialMain[1] # "points" /\ SpatialMain[2] # "points"
    BY DEF SpatialMain
  <2> QED BY <2>1, <2>2
<1>3. Scoped
  BY <1>2 DEF Admitted
<1>4. Current.isolated <=> InScope(Current)
  BY <1>1, <1>3, IsolatedInScope DEF Inv, Current, Requested
<1>5. ASSUME <<Current.directory, "sample">> \in DOMAIN files' \ DOMAIN files
      PROVE  Current.isolated
  <2>1. files' # files
    BY <1>5
  <2>2. Command
    <3>1. CASE Start \/ Kill \/ Edit
      BY <2>1, <3>1 DEF Start, Kill, Edit
    <3>2. CASE DeleteBadBenchmark
      BY <1>1, <3>2 DEF DeleteBadBenchmark
    <3> QED BY <3>1, <3>2 DEF Next
  <2>3. phase # "check"
    BY <2>1, <2>2, CommandWrites
  <2> QED BY <1>1, <2>3 DEF Admitted
<1>6. ASSUME point' = point + 1, step = 1, faults' = faults
      PROVE  ~(Current.isolated /\ Readable(Current))
  BY <1>6, PointLeft
<1> QED BY <1>4, <1>5, <1>6

(* The spatial sweep renders the points that stay within the scope of      *)
(* their axis, all of them and no others.                                  *)
THEOREM RenderedWithinScope == Spec => RenderedInScope
<1>1. Init => Admitted
  BY AdmittedInit
<1>2. Inv /\ Inv' /\ Admitted /\ [Next]_vars => Admitted'
  BY AdmittedNext
<1>3. Inv /\ Inv' /\ Admitted /\ [Next]_vars =>
        [tool = "spatial" /\ InStep /\ Requested # Refused =>
           /\ <<Current.directory, "sample">> \in DOMAIN files' \ DOMAIN files => InScope(Current)
           /\ point' = point + 1 /\ step = 1 /\ faults' = faults =>
                ~(InScope(Current) /\ Readable(Current))]_vars
  BY ScopedStep
<1> QED BY <1>1, <1>2, <1>3, InvHolds, PTL DEF Spec, RenderedInScope

----------------------------------------------------------------------------
(* render_folder.py.  The inductive invariant says what the loop of main() *)
(* keeps up from one source to the next: what is no longer to do has been  *)
(* written, under a name that no other source of the plan has, while       *)
(* request.json is away or is the configuration at work.                   *)
USE FolderRenderAssumption

Audio == [source : Files, config : Configs]

(* The last run that started has these parameters until it ends ...        *)
FolderTypes ==
  /\ sources \subseteq Files /\ plan \subseteq Files /\ todo \subseteq plan
  /\ pc \in {"idle", "render", "write"}
  /\ wavs \in [Outputs -> {Nothing, Partial} \cup Audio]
  /\ request \in Configs \cup {Nothing, Partial}
  /\ config \in Configs \cup {Nothing, Partial}
  /\ fromCopy \in BOOLEAN /\ broken \in BOOLEAN
  /\ finished \subseteq Outputs

(* ... its outputs have names of their own, and the folder's request.json  *)
(* is what it reads or is away ...                                         *)
RunKnown ==
  pc # "idle" =>
    /\ suffix \in SuffixValues
    /\ \A f, g \in plan : OutputName(f, suffix) = OutputName(g, suffix) => f = g
    /\ request = IF fromCopy THEN config ELSE Nothing

(* ... all but what is still to do has been made ...                       *)
MadeSoFar ==
  pc # "idle" =>
    \A f \in plan \ todo :
      wavs[OutputName(f, suffix)] = [source |-> f, config |-> config]

(* ... and what is written is the source at hand.                          *)
WritesAtHand ==
  pc = "write" =>
    /\ todo # {} /\ config \in Configs
    /\ rendered = [source |-> AtHand, config |-> config]

FolderInv ==
  /\ FolderTypes /\ RunKnown /\ MadeSoFar /\ WritesAtHand
  /\ RequestDescribesItsRun

----------------------------------------------------------------------------
LEMMA MinIsElement ==
  ASSUME NEW S \in SUBSET Nat, S # {}
  PROVE  Min(S) \in S
<1>1. \E x \in S : \A y \in S : x <= y
  BY LeastElement
<1> QED BY <1>1 DEF Min

(* The source at hand is one that is still to do, and its output has a     *)
(* place in the folder.                                                    *)
LEMMA AtHandKnown ==
  ASSUME FolderInv, pc # "idle", todo # {}
  PROVE  /\ AtHand \in todo /\ AtHand \in plan /\ AtHand \in Files
         /\ OutputName(AtHand, suffix) \in Outputs
<1>1. todo \in SUBSET Nat
  BY DEF FolderInv, FolderTypes
<1>2. AtHand \in todo
  BY <1>1, MinIsElement DEF AtHand
<1> QED BY <1>2 DEF FolderInv, FolderTypes, RunKnown

----------------------------------------------------------------------------
LEMMA FolderInvInit == FolderInit => FolderInv
  BY DEF FolderInit, FolderInv, FolderTypes, RunKnown, MadeSoFar, WritesAtHand,
         RequestDescribesItsRun, Audio

LEMMA ChangeSourcesInv == ASSUME FolderInv, ChangeSources PROVE FolderInv'
  BY DEF FolderInv, FolderTypes, RunKnown, MadeSoFar, WritesAtHand, RequestDescribesItsRun,
         ChangeSources, AtHand, folderVars, runVars, historyVars

(* A run that starts has everything to do, and checked the names.          *)
LEMMA PreparedInv ==
  ASSUME FolderInv, NEW s \in SuffixValues, DistinctOutputs(s), Prepared(s),
         config' \in Configs \cup {Nothing, Partial}, fromCopy' \in BOOLEAN,
         request' = IF fromCopy' THEN config' ELSE Nothing,
         request' \in {Nothing, request}
  PROVE  FolderInv'
<1>1. /\ plan' = sources /\ todo' = sources /\ suffix' = s /\ pc' = "render"
      /\ UNCHANGED <<sources, wavs, finished, broken>>
  BY DEF Prepared, historyVars
<1>2. FolderTypes'
  BY <1>1 DEF FolderInv, FolderTypes, Prepared
<1>3. RunKnown'
  BY <1>1 DEF RunKnown, DistinctOutputs
<1>4. MadeSoFar' /\ WritesAtHand'
  BY <1>1 DEF MadeSoFar, WritesAtHand
<1>5. RequestDescribesItsRun'
  BY <1>1 DEF FolderInv, RequestDescribesItsRun
<1> QED BY <1>2, <1>3, <1>4, <1>5 DEF FolderInv

LEMMA StartRunInv ==
  ASSUME FolderInv, NEW c \in Configs, NEW s \in SuffixValues, StartRun(c, s)
  PROVE  FolderInv'
  BY PreparedInv DEF StartRun

LEMMA StartFromCopyInv ==
  ASSUME FolderInv, NEW s \in SuffixValues, StartFromCopy(s)
  PROVE  FolderInv'
<1>1. request \in Configs \cup {Nothing, Partial}
  BY DEF FolderInv, FolderTypes
<1> QED BY <1>1, PreparedInv DEF StartFromCopy

LEMMA RenderOneInv == ASSUME FolderInv, RenderOne PROVE FolderInv'
<1>1. /\ pc = "render" /\ pc' = "write" /\ todo # {} /\ config \in Configs
      /\ rendered' = [source |-> AtHand, config |-> config]
      /\ UNCHANGED <<sources, wavs, request, config, suffix, plan, fromCopy,
                     todo, finished, broken>>
  BY DEF RenderOne, folderVars, runVars, historyVars
<1>2. AtHand' = AtHand
  BY <1>1 DEF AtHand
<1>3. WritesAtHand'
  BY <1>1, <1>2 DEF WritesAtHand
<1>4. FolderTypes' /\ RunKnown' /\ MadeSoFar' /\ RequestDescribesItsRun'
  BY <1>1 DEF FolderInv, FolderTypes, RunKnown, MadeSoFar, RequestDescribesItsRun
<1> QED BY <1>3, <1>4 DEF FolderInv

(* The output written is no other source's, and its configuration is the   *)
(* published one if there is one.                                          *)
LEMMA WriteWavInv == ASSUME FolderInv, WriteWav PROVE FolderInv'
<1> DEFINE out == OutputName(AtHand, suffix)
<1>1. /\ pc = "write" /\ pc' = "render"
      /\ wavs' = [wavs EXCEPT ![out] = rendered] /\ todo' = todo \ {AtHand}
      /\ UNCHANGED <<sources, request, config, suffix, plan, fromCopy,
                     finished, broken>>
  BY DEF WriteWav, runVars, historyVars
<1>2. /\ todo # {} /\ config \in Configs
      /\ rendered = [source |-> AtHand, config |-> config]
  BY <1>1 DEF FolderInv, WritesAtHand
<1>3. AtHand \in todo /\ AtHand \in plan /\ AtHand \in Files /\ out \in Outputs
  BY <1>1, <1>2, AtHandKnown
<1>4. rendered \in Audio /\ rendered.config = config /\ rendered \notin {Nothing, Partial}
  BY <1>2, <1>3 DEF Audio
<1>5. /\ wavs'[out] = rendered
      /\ \A n \in Outputs : n # out => wavs'[n] = wavs[n]
  BY <1>1, <1>3 DEF FolderInv, FolderTypes
<1>6. FolderTypes'
  BY <1>1, <1>4 DEF FolderInv, FolderTypes
<1>7. RunKnown' /\ WritesAtHand'
  BY <1>1 DEF FolderInv, RunKnown, WritesAtHand
<1>8. MadeSoFar'
  <2> SUFFICES ASSUME NEW f \in plan, f \notin todo'
               PROVE  wavs'[OutputName(f, suffix)] = [source |-> f, config |-> config]
    BY <1>1 DEF MadeSoFar
  <2>1. CASE f = AtHand
    BY <1>2, <1>5, <2>1
  <2>2. CASE f # AtHand
    <3>1. f \in plan \ todo
      BY <1>1, <2>2
    <3>2. OutputName(f, suffix) # out /\ OutputName(f, suffix) \in Outputs
      BY <1>1, <1>3, <2>2 DEF FolderInv, RunKnown, FolderTypes
    <3> QED BY <1>1, <1>5, <3>1, <3>2 DEF FolderInv, MadeSoFar
  <2> QED BY <2>1, <2>2
<1>9. RequestDescribesItsRun'
  <2> SUFFICES ASSUME request \in Configs, NEW n \in finished
               PROVE  IF wavs'[n] \in {Nothing, Partial} THEN wavs'[n] = Partial /\ broken
                      ELSE wavs'[n].config = request
    BY <1>1 DEF RequestDescribesItsRun
  <2>1. CASE n = out
    <3>1. config = request
      BY <1>1 DEF FolderInv, RunKnown
    <3> QED BY <1>4, <1>5, <2>1, <3>1
  <2>2. CASE n # out
    <3>1. wavs'[n] = wavs[n]
      BY <1>5, <2>2 DEF FolderInv, FolderTypes
    <3> QED BY <3>1 DEF FolderInv, RequestDescribesItsRun
  <2> QED BY <2>1, <2>2
<1> QED BY <1>6, <1>7, <1>8, <1>9 DEF FolderInv

(* What is published is what every output of the plan was made with.       *)
LEMMA PublishInv == ASSUME FolderInv, Publish PROVE FolderInv'
<1>1. /\ pc = "render" /\ pc' = "idle" /\ todo = {}
      /\ request' = IF fromCopy THEN request ELSE config
      /\ finished' = {OutputName(f, suffix) : f \in plan} \cup
                     (IF fromCopy THEN finished ELSE {})
      /\ broken' = (fromCopy /\ broken)
      /\ UNCHANGED <<sources, wavs, config, suffix, plan, fromCopy, todo, rendered>>
  BY DEF Publish, runVars
<1>2. request' = config
  BY <1>1 DEF FolderInv, RunKnown
<1>3. \A f \in plan : /\ OutputName(f, suffix) \in Outputs
                      /\ wavs[OutputName(f, suffix)] = [source |-> f, config |-> config]
  BY <1>1 DEF FolderInv, FolderTypes, RunKnown, MadeSoFar
<1>4. FolderTypes'
  BY <1>1, <1>2, <1>3 DEF FolderInv, FolderTypes
<1>5. RunKnown' /\ MadeSoFar' /\ WritesAtHand'
  BY <1>1 DEF RunKnown, MadeSoFar, WritesAtHand
<1>6. RequestDescribesItsRun'
  <2> SUFFICES ASSUME config \in Configs, NEW n \in finished'
               PROVE  IF wavs[n] \in {Nothing, Partial} THEN wavs[n] = Partial /\ broken'
                      ELSE wavs[n].config = config
    BY <1>1, <1>2 DEF RequestDescribesItsRun
  <2>1. CASE \E f \in plan : n = OutputName(f, suffix)
    <3>1. PICK f \in plan : n = OutputName(f, suffix)
      BY <2>1
    <3>2. wavs[n] = [source |-> f, config |-> config] /\ f \in Files
      BY <1>3, <3>1 DEF FolderInv, FolderTypes
    <3>3. wavs[n] \in Audio /\ wavs[n].config = config
      BY <3>2 DEF Audio
    <3> QED BY <3>3 DEF Audio
  <2>2. CASE fromCopy /\ n \in finished
    <3>1. request = config /\ broken' = broken
      BY <1>1, <2>2 DEF FolderInv, RunKnown, FolderTypes
    <3> QED BY <2>2, <3>1 DEF FolderInv, RequestDescribesItsRun
  <2> QED BY <1>1, <2>1, <2>2
<1> QED BY <1>4, <1>5, <1>6 DEF FolderInv

(* Wherever a run stops, what it leaves half written is either not         *)
(* described by any request.json or known to be broken.                    *)
LEMMA StopRunInv == ASSUME FolderInv, StopRun PROVE FolderInv'
<1>1. /\ pc # "idle" /\ pc' = "idle" /\ broken' = (broken \/ fromCopy)
      /\ UNCHANGED <<sources, config, suffix, plan, fromCopy, todo, rendered, finished>>
  BY DEF StopRun, runVars
<1>2. RunKnown' /\ MadeSoFar' /\ WritesAtHand'
  BY <1>1 DEF RunKnown, MadeSoFar, WritesAtHand
<1>3. CASE UNCHANGED <<wavs, request>>
  <2>1. FolderTypes' /\ RequestDescribesItsRun'
    BY <1>1, <1>3 DEF FolderInv, FolderTypes, RequestDescribesItsRun
  <2> QED BY <1>2, <2>1 DEF FolderInv
<1>4. CASE pc = "write" /\ UNCHANGED request
           /\ wavs' = [wavs EXCEPT ![OutputName(AtHand, suffix)] = Partial]
  <2> DEFINE out == OutputName(AtHand, suffix)
  <2>1. todo # {}
    BY <1>4 DEF FolderInv, WritesAtHand
  <2>2. out \in Outputs
    BY <1>1, <2>1, AtHandKnown
  <2>3. /\ wavs'[out] = Partial
        /\ \A n \in Outputs : n # out => wavs'[n] = wavs[n]
    BY <1>4, <2>2 DEF FolderInv, FolderTypes
  <2>4. FolderTypes'
    BY <1>1, <1>4, <2>2 DEF FolderInv, FolderTypes
  <2>5. request \in Configs => fromCopy
    BY <1>1 DEF FolderInv, RunKnown
  <2>6. RequestDescribesItsRun'
    <3> SUFFICES ASSUME request \in Configs, NEW n \in finished
                 PROVE  IF wavs'[n] \in {Nothing, Partial} THEN wavs'[n] = Partial /\ broken'
                        ELSE wavs'[n].config = request
      BY <1>1, <1>4 DEF RequestDescribesItsRun
    <3>1. CASE n = out
      BY <1>1, <2>3, <2>5, <3>1
    <3>2. CASE n # out
      <4>1. wavs'[n] = wavs[n]
        BY <2>3, <3>2 DEF FolderInv, FolderTypes
      <4> QED BY <1>1, <4>1 DEF FolderInv, RequestDescribesItsRun
    <3> QED BY <3>1, <3>2
  <2> QED BY <1>2, <2>4, <2>6 DEF FolderInv
<1>5. CASE request' = Partial /\ UNCHANGED wavs
  <2>1. FolderTypes' /\ RequestDescribesItsRun'
    BY <1>1, <1>5 DEF FolderInv, FolderTypes, RequestDescribesItsRun
  <2> QED BY <1>2, <2>1 DEF FolderInv
<1> QED BY <1>3, <1>4, <1>5 DEF StopRun

LEMMA FolderInvNext == ASSUME FolderInv, [FolderNext]_folderRenderVars PROVE FolderInv'
<1>1. CASE FolderNext
  BY <1>1, ChangeSourcesInv, StartRunInv, StartFromCopyInv, RenderOneInv, WriteWavInv,
     PublishInv, StopRunInv DEF FolderNext
<1>2. CASE UNCHANGED folderRenderVars
  BY <1>2 DEF folderRenderVars, folderVars, runVars, historyVars, FolderInv, FolderTypes, RunKnown,
     MadeSoFar, WritesAtHand, RequestDescribesItsRun, AtHand
<1> QED BY <1>1, <1>2

----------------------------------------------------------------------------
THEOREM FolderInvariance == FolderSpec => []FolderInv
  BY FolderInvInit, FolderInvNext, PTL DEF FolderSpec

(* The folder always holds what the runs could have left in it.            *)
THEOREM FolderTypesCorrect == FolderSpec => []FolderTypeOK
<1>1. FolderInv => FolderTypeOK
  BY DEF FolderInv, FolderTypes, WritesAtHand, FolderTypeOK, Audio
<1> QED BY <1>1, FolderInvariance, PTL

(* request.json never names another configuration than that of the WAVs it *)
(* was published for, whatever failed since (render_folder.py:267-271).    *)
THEOREM RequestsDescribe == FolderSpec => []RequestDescribesItsRun
<1>1. FolderInv => RequestDescribesItsRun
  BY DEF FolderInv
<1> QED BY <1>1, FolderInvariance, PTL

(* A run that gets to its end has rendered every source of its plan, and   *)
(* none over another (render_folder.py:236-241).                           *)
THEOREM PlansCompleted == FolderSpec => []PlanComplete
<1>1. FolderInv => PlanComplete
  BY DEF FolderInv, MadeSoFar, PlanComplete
<1> QED BY <1>1, FolderInvariance, PTL

=============================================================================
