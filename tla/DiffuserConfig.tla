---------------------------- MODULE DiffuserConfig ----------------------------
(***************************************************************************)
(* How a Diffuser is resolved from a request, and how a resolved Diffuser  *)
(* -- one just resolved, or one read from a resolved.json -- is validated  *)
(* (src/config/ResolveConfig.cpp).  Seeded draws are choices: whatever     *)
(* the seed, the result is one of those reached here.                      *)
(*                                                                         *)
(* Times are in quarters of a sample, so that rounding is exact.  Left out *)
(* are what is a copy of something else here (milliseconds, the Modulation *)
(* trajectories), polarity signs and matrix elements.                      *)
(***************************************************************************)
EXTENDS ChannelLayout, FiniteSetsExt, Sequences

CONSTANTS
  Requests,       (* Requested Diffusers, defaults filled in:               *)
                  (*   [channels, lengths, steps, total, doubling, step],   *)
                  (* where lengths is lengthsMs, or << >> if it is absent,  *)
                  (* and step, the options of a Diffusion Step by index, is *)
                  (*   [strategy, mix, shuffle, excursion, modulated].      *)
  Documents,      (* Resolved Diffusers that come from a file.              *)
  MemoryBudget,
  SampleBytes, MetadataBytes, ModulationBytes   (* 8, 24 and 25.            *)

(* kModulationInterpolationMarginSamples                                   *)
InterpolationMargin == 3

VARIABLES
  request,      (* The request; None for a Diffuser from a file.            *)
  phase,        (* derive, step, delays, shuffle, modulate, validate,       *)
                (* accepted or refused.                                     *)
  lengths,      (* expectedStepLengths.                                     *)
  document,     (* The resolved Diffuser: [channels, total, steps].         *)
  index,        (* Of the step being resolved.                              *)
  delays,       (* Its delays, by Channel.                                  *)
  permutation, position   (* Its shuffle, and how far it is.                *)

vars == <<request, phase, lengths, document, index, delays, permutation, position>>

None == [channels |-> 0]

ChannelsOf(n) == 0 .. n - 1

Empty == [i \in {} |-> 0]

Identity(n) == [i \in ChannelsOf(n) |-> i]

Total(values) == MapThenSumSet(LAMBDA i : values[i], DOMAIN values)

----------------------------------------------------------------------------
(* The request's time budget.                                              *)

StepCount(r) == IF r.lengths = << >> THEN r.steps ELSE Len(r.lengths)

ExactTotal(r) == IF r.lengths = << >> THEN r.total ELSE Total(r.lengths)

(* diffuserStepWeights, by step.                                           *)
Weights(r) ==
  IF r.lengths # << >> THEN [i \in ChannelsOf(Len(r.lengths)) |-> r.lengths[i + 1]]
  ELSE [i \in ChannelsOf(r.steps) |-> IF r.doubling THEN 2^i ELSE 1]

(* deriveSampleBudget: round half up; an unusable budget is Overflow.      *)
SampleBudget(r) ==
  LET rounded == (ExactTotal(r) + 2) \div 4
  IN  IF \/ ExactTotal(r) <= 0
         \/ ExactTotal(r) >= 4 * (WordSize - 1)
         \/ rounded >= WordSize - 1
         \/ rounded = 0
      THEN Overflow ELSE rounded

(* Mutant: every step gets the rounded-down share only.                    *)
ApportionDown(samples, weights) ==
  [i \in DOMAIN weights |-> (samples * weights[i]) \div Total(weights)]

(* apportionStepSamples: the largest remainder, earlier steps first.       *)
Apportion(samples, weights) ==
  LET sum       == Total(weights)
      base      == [i \in DOMAIN weights |-> (samples * weights[i]) \div sum]
      rest(i)   == (samples * weights[i]) % sum
      before(i) == {j \in DOMAIN weights :
                      rest(j) > rest(i) \/ (rest(j) = rest(i) /\ j < i)}
      remaining == samples - Total(base)
  IN  [i \in DOMAIN weights |->
         base[i] + (IF Cardinality(before(i)) < remaining THEN 1 ELSE 0)]

----------------------------------------------------------------------------
(* The memory estimate.                                                    *)

Active(step) == step.mask # {}

ActiveSteps(d) == {k \in DOMAIN d.steps : Active(d.steps[k])}

(* resolveModulationHeadroomSamples: the ceiling, and the margin.          *)
Headroom(step) == (step.excursion + 3) \div 4 + InterpolationMargin

(* resolveDiffuserModulationReachSamples                                   *)
Reach(d) == Wrap(Total([k \in ActiveSteps(d) |-> Headroom(d.steps[k])]))

EstimatedBytes(channels, maxBuffer, stepCount, modulationBytes) ==
  LET delayBytes    == CheckedMul(CheckedMul(channels, maxBuffer), SampleBytes)
      matrixBytes   == CheckedMul(CheckedMul(CheckedMul(channels, channels), SampleBytes),
                                  stepCount)
      metadataBytes == CheckedMul(CheckedMul(channels, MetadataBytes), stepCount)
  IN  CheckedAdd(CheckedAdd(CheckedAdd(delayBytes, matrixBytes), metadataBytes),
                 modulationBytes)

(* checkDiffuserMemoryBudget                                               *)
Affordable(channels, maxBuffer, stepCount, modulationBytes) ==
  EstimatedBytes(channels, maxBuffer, stepCount, modulationBytes)
    \in 0 .. MemoryBudget

(* estimateDiffuserModulationBytes                                         *)
EstimatedModulationBytes(d) ==
  IF ActiveSteps(d) = {} THEN 0
  ELSE CheckedMul(CheckedMul(d.channels, ModulationBytes), Cardinality(ActiveSteps(d)))

Buffers(d) ==
  UNION {{d.steps[k].buffers[c] : c \in DOMAIN d.steps[k].buffers} : k \in DOMAIN d.steps}

(* The validator's own check, on what was resolved.                        *)
AffordableDocument(d) ==
  Affordable(d.channels, Max({d.total} \cup Buffers(d)), Len(d.steps),
             EstimatedModulationBytes(d))

----------------------------------------------------------------------------
(* resolveDiffuser, step by step.                                          *)

Channels == request.channels

Option == request.step[index + 1]

StepLength == lengths[index]

Positions == Wrap(StepLength + 1)

NeedsDistinctPositions(strategy) == strategy \in {"segmented-random", "even"}

IsPowerOfTwo(n) == \E i \in 0 .. n : n = 2^i

ValidMix(mix, channels) == mix = "hadamard" => IsPowerOfTwo(channels)

(* canDeriveChannelValues                                                  *)
Derivable(option, length, channels) ==
  /\ ValidMix(option.mix, channels)
  /\ NeedsDistinctPositions(option.strategy) => Wrap(length + 1) >= channels

(* Channels are 32-bit numbers, so that their square is a word; the sizes  *)
(* are those of sizeof; every requested time is positive (ConfigJson.cpp:  *)
(* 494-499), and so is every weight made of one or by doubling.            *)
ASSUME DiffuserConfigAssumption ==
  /\ MemoryBudget \in Word
  /\ SampleBytes \in Nat /\ SampleBytes >= 2
  /\ MetadataBytes \in Nat /\ ModulationBytes \in Nat
  /\ \A r \in Requests :
       /\ r.channels \in Nat \ {0} /\ r.channels * r.channels <= WordSize
       /\ StepCount(r) \in Nat /\ ExactTotal(r) \in Nat
       /\ \A i \in DOMAIN Weights(r) : Weights(r)[i] \in Nat \ {0}
       /\ \A k \in 1 .. StepCount(r) :
            /\ r.step[k].strategy \in {"segmented-random", "uniform-random", "even"}
            /\ r.step[k].shuffle \in BOOLEAN
            /\ r.step[k].excursion \in Nat

Init ==
  /\ lengths = Empty
  /\ index = 0 /\ delays = Empty /\ permutation = Empty /\ position = 0
  /\ \/ /\ phase = "derive"
        /\ request \in Requests
        /\ document = [channels |-> request.channels, total |-> 0, steps |-> << >>]
     \/ /\ phase = "validate"
        /\ request = None
        /\ document \in Documents

(* Step lengths, unless the budget of time or, estimated for them, that of *)
(* memory is exceeded.                                                     *)
Derive ==
  LET samples == SampleBudget(request)
  IN  /\ phase = "derive"
      /\ IF StepCount(request) > 0 /\ samples # Overflow
               /\ Affordable(request.channels, samples, StepCount(request), 0)
         THEN /\ lengths' = Apportion(samples, Weights(request))
              /\ document' = [document EXCEPT !.total = samples]
              /\ phase' = "step"
         ELSE phase' = "refused" /\ UNCHANGED <<lengths, document>>
      /\ UNCHANGED <<request, index, delays, permutation, position>>

(* diffuser.steps.push_back                                                *)
PushBack(step) ==
  /\ document' = [document EXCEPT !.steps = Append(@, step)]
  /\ index' = index + 1

Step(d, p, mask, buffers) ==
  [length |-> StepLength, strategy |-> Option.strategy, mix |-> Option.mix,
   shuffle |-> Option.shuffle, delays |-> d, permutation |-> p,
   excursion |-> Option.excursion, mask |-> mask, buffers |-> buffers]

(* A step whose values cannot be derived is left without them, for the     *)
(* validator to refuse; after the last one comes the reach.                *)
BeginStep ==
  /\ phase = "step"
  /\ UNCHANGED <<request, lengths>>
  /\ \/ /\ index = StepCount(request)
        /\ document' = [document EXCEPT !.total = Wrap(@ + Reach(document))]
        /\ phase' = "validate"
        /\ UNCHANGED <<index, delays, permutation, position>>
     \/ /\ index < StepCount(request)
        /\ Derivable(Option, StepLength, Channels)
        /\ phase' = "delays"
        /\ delays' = Empty
        /\ permutation' = Identity(Channels)
        /\ position' = Channels - 1
        /\ UNCHANGED <<document, index>>
     \/ /\ index < StepCount(request)
        /\ ~Derivable(Option, StepLength, Channels)
        /\ PushBack(Step(Empty, Empty, {}, Empty))
        /\ UNCHANGED <<phase, delays, permutation, position>>

Boundary(segment) == PartitionBoundary(Positions, Channels, segment)

(* What Channel c's delay may be, over all seeds.                          *)
DelayDraws(c) ==
  CASE Option.strategy = "segmented-random" ->
         {Wrap(Boundary(c) + v) : v \in Draws(Wrap(Boundary(c + 1) - Boundary(c)))}
    [] Option.strategy = "even" -> {EvenDelay(StepLength, Channels, c)}
    [] Option.strategy = "uniform-random" -> Draws(Positions)

DrawDelay ==
  LET c == Cardinality(DOMAIN delays)
  IN  /\ phase = "delays"
      /\ \E delay \in DelayDraws(c) :
           delays' = [i \in ChannelsOf(c + 1) |-> IF i = c THEN delay ELSE delays[i]]
      /\ phase' = IF c + 1 < Channels THEN "delays"
                  ELSE IF Option.shuffle THEN "shuffle" ELSE "modulate"
      /\ UNCHANGED <<request, lengths, document, index, permutation, position>>

(* Mutant: one half of the swap.                                           *)
ShuffleHalf ==
  /\ phase = "shuffle"
  /\ IF position > 0
     THEN /\ \E selected \in Draws(Wrap(position + 1)) :
               permutation' = [permutation EXCEPT ![position] = permutation[selected]]
          /\ position' = position - 1
          /\ UNCHANGED phase
     ELSE phase' = "modulate" /\ UNCHANGED <<permutation, position>>
  /\ UNCHANGED <<request, lengths, document, index, delays>>

(* seededPermutation                                                       *)
Shuffle ==
  /\ phase = "shuffle"
  /\ IF position > 0
     THEN /\ \E selected \in Draws(Wrap(position + 1)) :
               permutation' = Swapped(permutation, position, selected)
          /\ position' = position - 1
          /\ UNCHANGED phase
     ELSE phase' = "modulate" /\ UNCHANGED <<permutation, position>>
  /\ UNCHANGED <<request, lengths, document, index, delays>>

(* modulationFitsDelay                                                     *)
Fits(delay, excursion) == 4 * delay - excursion > 4 * InterpolationMargin

BufferSize(step, c) ==
  IF c \in step.mask THEN step.delays[c] + Headroom(step) ELSE step.delays[c]

(* resolveModulation: the mask is the first entries of another permutation,*)
(* so any set of that many Channels.                                       *)
Modulate ==
  /\ phase = "modulate"
  /\ \E mask \in kSubset(IF Option.excursion = 0 THEN 0 ELSE Option.modulated,
                         ChannelsOf(Channels)) :
       LET step == Step(delays, permutation, mask, delays)
       IN  IF \A c \in mask : Fits(delays[c], step.excursion)
           THEN /\ PushBack([step EXCEPT !.buffers =
                     [c \in DOMAIN delays |-> BufferSize(step, c)]])
                /\ phase' = "step"
           ELSE phase' = "refused" /\ UNCHANGED <<document, index>>
  /\ UNCHANGED <<request, lengths, delays, permutation, position>>

----------------------------------------------------------------------------
(* validateDiffuserStage                                                   *)

IsPermutation(p, n) ==
  /\ DOMAIN p = ChannelsOf(n)
  /\ {p[c] : c \in DOMAIN p} = ChannelsOf(n)

(* Distinct unless drawn with replacement; sorted, one in every segment.   *)
ValidDelays(step, n) ==
  LET holders(k) == {c \in ChannelsOf(n) :
        /\ step.delays[c] >= PartitionBoundary(Wrap(step.length + 1), n, k)
        /\ step.delays[c] < PartitionBoundary(Wrap(step.length + 1), n, k + 1)}
  IN  /\ DOMAIN step.delays = ChannelsOf(n)
      /\ \A c \in ChannelsOf(n) : step.delays[c] <= step.length
      /\ step.strategy # "uniform-random" =>
           \A c, e \in ChannelsOf(n) : c # e => step.delays[c] # step.delays[e]
      /\ step.strategy = "segmented-random" =>
           \A k \in ChannelsOf(n) : Cardinality(holders(k)) = 1
      /\ step.strategy = "even" =>
           \A c \in ChannelsOf(n) : step.delays[c] = EvenDelay(step.length, n, c)

(* validateResolvedModulation, and the buffers it rules.                   *)
ValidModulation(step, n) ==
  /\ DOMAIN step.buffers = ChannelsOf(n)
  /\ step.mask \subseteq ChannelsOf(n)
  /\ \A c \in step.mask : Fits(step.delays[c], step.excursion)
  /\ \A c \in ChannelsOf(n) : step.buffers[c] = BufferSize(step, c)

ValidStep(step, n) ==
  /\ step.length \notin {0, WordSize - 1}
  /\ ValidMix(step.mix, n)
  /\ NeedsDistinctPositions(step.strategy) => Wrap(step.length + 1) >= n
  /\ ValidDelays(step, n)
  /\ IsPermutation(step.permutation, n)
  /\ step.shuffle \/ step.permutation = Identity(n)
  /\ ValidModulation(step, n)

StepLengths(d) == [k \in ChannelsOf(Len(d.steps)) |-> d.steps[k + 1].length]

(* Only a request says how long its steps should be.                       *)
ValidDocument(d) ==
  /\ d.steps # << >>
  /\ d.total # 0
  /\ AffordableDocument(d)
  /\ request # None => StepLengths(d) = lengths
  /\ \A k \in DOMAIN d.steps : ValidStep(d.steps[k], d.channels)
  /\ Wrap(Wrap(Total(StepLengths(d))) + Reach(d)) = d.total

Validate ==
  /\ phase = "validate"
  /\ phase' = IF ValidDocument(document) THEN "accepted" ELSE "refused"
  /\ UNCHANGED <<request, lengths, document, index, delays, permutation, position>>

Next == Derive \/ BeginStep \/ DrawDelay \/ Shuffle \/ Modulate \/ Validate

Spec == Init /\ [][Next]_vars

----------------------------------------------------------------------------
(* Properties *)

(* The words are words, a step in progress has one delay per Channel drawn *)
(* so far, none longer than the step, and every draw is possible.          *)
TypeOK ==
  /\ phase \in {"derive", "step", "delays", "shuffle", "modulate", "validate",
                "accepted", "refused"}
  /\ \A i \in DOMAIN lengths : lengths[i] \in Word
  /\ phase \in {"delays", "shuffle", "modulate"} =>
       /\ index \in DOMAIN lengths
       /\ DOMAIN delays = ChannelsOf(Cardinality(DOMAIN delays))
       /\ \A c \in DOMAIN delays : delays[c] \in 0 .. StepLength
  /\ phase = "delays" => DOMAIN delays # ChannelsOf(Channels)
  /\ phase = "modulate" => DOMAIN delays = ChannelsOf(Channels)

(* The segments of a step's positions are disjoint, not empty, and leave   *)
(* out no position: each Channel's delay comes from its own, whatever the  *)
(* remainder of the division (ResolveConfig.cpp:480-487).                  *)
SegmentsTile ==
  phase = "delays" /\ Option.strategy = "segmented-random" =>
    /\ Boundary(0) = 0
    /\ Boundary(Channels) = StepLength + 1
    /\ \A c \in ChannelsOf(Channels) : Boundary(c) < Boundary(c + 1)
    /\ \A c \in DOMAIN delays : delays[c] \in Boundary(c) .. Boundary(c + 1) - 1

(* After every swap the shuffle is still a permutation of the Channels,    *)
(* so none is lost or doubled on its way through the step.                 *)
PermutationKept ==
  phase \in {"delays", "shuffle", "modulate"} =>
    IsPermutation(permutation, Channels)

(* The raw draws that boundedRandom does not reject fall on each value     *)
(* equally often: no delay is favoured (ResolveConfig.cpp:328-345).        *)
DrawsUniform ==
  phase = "delays" /\ Option.strategy # "even" =>
    LET c == Cardinality(DOMAIN delays)
        bound == IF Option.strategy = "uniform-random" THEN Positions
                 ELSE Wrap(Boundary(c + 1) - Boundary(c))
        hits(v) == Cardinality({raw \in RawDraws(bound) : raw % bound = v})
    IN  \A v \in 0 .. bound - 1 : hits(v) = hits(0) /\ hits(v) > 0

(* Resolver and validator agree, though they are separate code: once a     *)
(* value could be derived for every Channel of every step, the result is   *)
(* refused only for its memory or for a step without a sample.             *)
ResolvedIsAccepted ==
  /\ phase = "validate"
  /\ request # None
  /\ \A k \in DOMAIN document.steps :
       /\ document.steps[k].length > 0
       /\ Derivable(request.step[k], document.steps[k].length, document.channels)
  /\ AffordableDocument(document)
  => ValidDocument(document)

(* An accepted Diffuser's delay lines and mix matrices fit in the budget,  *)
(* counted without any wrapping: "A Diffuser is rejected before it         *)
(* allocates if its estimated DSP memory (delay lines plus per-step mix    *)
(* matrices) exceeds the budget"                                           *)
(* (docs/guides/configure-the-composition.md:254-255).                     *)
BudgetCovers ==
  phase = "accepted" =>
    Total([k \in DOMAIN document.steps |->
             Total(document.steps[k].buffers) + document.channels * document.channels])
      * SampleBytes <= MemoryBudget

=============================================================================
