# Formal verification of RVRBoTron

RVRBoTron is an offline reverberator: a C++ renderer (`rvrbotron render`) that
turns a WAV file and a configuration into a Render Result, and Python tools
around it (a local web bench, a folder renderer, experiment sweeps, analyzers).
This directory holds TLA+ modules translated from that code, TLC configurations
that check them on small instances, and TLAPS proofs for every value of the
constants.

Paths below are relative to the repository root; `PROJECT.json` maps every
definition to the lines it stands for.

    tlc -workers 2 -config MCFeedbackLoop.cfg MCFeedbackLoop.tla    # check a run
    tlapm FeedbackLoop_proofs.tla                                   # check proofs

## 1. The system

Two kinds of difficulty meet here. The renderer is sequential, but it processes
audio in *chunks* through rings that are read before they are written, and
claims that how the stream is cut changes nothing. Around it, several processes
and threads share files: the bench's handler threads and its renderer child, and
any number of renderers, folder runs and sweeps that may die at any moment.

| Component | State | Operations | Talks to | Hard behaviour | Correct when |
|---|---|---|---|---|---|
| Delay line ring (`dsp/DelayLine`) | cells, position | read, write, block forms, fractional reads | owned by the loop, Pre-delay, Diffusion Steps | chunks longer than the delay or the ring; fractional reads ahead of the writes | every read gives the sample of the past its lookback names |
| Feedback Loop (`dsp/FeedbackLoop`) | a ring, shelf and allpass state per Channel; Modulation's frame counter | `processBlock` | called by `Reverb::process`; owns rings, mix, Modulation | whole chunk read before any is written; state carried over every boundary | chunked = frame by frame |
| Reverb pipeline (`dsp/Reverb` and the stages) | the stages' rings, scratch buffers | `process`, capture | called by the renderer; calls every stage | chunk length from Block-size bound and capturing | same audio however it is cut, captures in stage order |
| Modulation (`dsp/Modulation`) | frame counter, four cached targets per Channel | `excursion`, advance | loop and Diffusion Steps | cache keyed by index, shared by both paths | lookbacks within the Excursion; the same for every way to ask |
| Mix matrices | none | `mix` | loop, steps | numerics | orthogonal |
| Configuration resolution (`config/ResolveConfig`) | none | request -> resolved configuration, validation | renderer | 64-bit sizes, partitions, rounding, seeded draws | what is accepted is safe to build; a resolved document is accepted again |
| Configuration documents (`cli/ConfigJson`, `config/ResolvedConfigJson`) | none | parse, write | renderer | optional fields, all-or-none groups | round trip |
| Renderer command line (`cli/main`, `RenderResultTransaction`) | working directory, frame counts, signal flag | render, publish, clean up | files; signals | failure, interruption or death at any step; other renderers | a result is complete or absent, for good |
| WAV files, hashes, metadata | file offsets | read/write frames | renderer | 32-bit size fields; input hashed after it was read | headers agree with the data |
| Benchmark | none | measure | renderer | - | - |
| Research Bench server (`tools/research_bench/serve.py`) | Session: two locks, source, newest result, counter, child; files beneath the session root | POST source/render, GET output, signal, close | handler threads, renderer child, main thread | locks held over network reads and children; signal at any moment; daemon threads outlive the server | one renderer, none orphaned, answers match requests, shutdown ends |
| Research Bench page (`static/bench.js`) | editor text, selector, `activeTemplate`, `lastLoadedText`, `lastRenderedText` | edit, choose, render, upload | server, over HTTP | late, lost and reordered answers; several tabs | labels say what is there |
| Folder renderer (`tools/render_folder.py`) | destination folder | plan, render each, publish `request.json` | renderer, files | death or failure between files; reruns with another configuration | `request.json` describes its run |
| Experiment runner and sweeps (`tools/experiment_runner.py`, five `run_*.py`) | a folder per point, reports beside them | load a catalog, materialize a point, its resumable steps, reports | renderer, analyzers, the user's edits | resumption by presence, after kills, failed children and edits; several reports of what is on disk | a point's folder is of one configuration, exit 0 means complete, reports are true, reruns end the work |
| Analyzers (`tools/analyze_*.py`) | one JSON artifact each | verify provenance, publish exclusively | Render Results | several at once; an artifact already there; files replaced meanwhile | never replaced, never half-written, evidence of this render, no good render refused |
| Equivalence tools (`tools/extract_*`, `compare_*`) | a summary, a report | extract, compare by baseline or in pairs | analyzers, the CI's jobs | tolerances are not transitive; optional metrics | a comparison that passes holds of every two platforms |
| Fixtures, evaluation scripts | none | pure functions of files | - | - | - |

Interactions: the bench and the folder renderer start `rvrbotron render`, which
reads a request or a resolved configuration, resolves and validates it, builds a
`Reverb`, streams the input through it in blocks no longer than the Block-size
bound, and publishes a directory with `output.wav`, `resolved.json`,
`request.json` and `render.json` by one rename. Analyzers read that directory,
verify its hashes and link their evidence into it. A sweep starts the renderer,
an analyzer and the benchmark for each point of a catalog. The CI extracts
summaries of the evidence of each platform and compares them.

`PROJECT.json` lists each component with its status, and under `hazards` what in
this code is hard to test, at the line where it bites, with the properties that
cover it or the reason why none does yet.

## 2. What is modelled

| Module | Code | State -> variables, operations -> actions |
|---|---|---|
| `DelayRing` | `DelayLine.h`, `DelayLine.cpp` | Pure functions of (ring length, cells, position): positions, one-sample and block writes, block reads, the points of the two fractional reads. |
| `DelayLine` | the same, and its owners `Predelay`, `DiffusionStep` | `cells`, `position` as in the code; `written`, `heard` are history. One action per pair of read and write an owner makes: `ReadThenWrite`, `DelayBlock`, `ReadBlockThenWrite`, `SwayThenWrite`, `SwayBlockThenWrite`. |
| `FeedbackConfig` | `ModulationResolution.cpp`, `FeedbackLoop.cpp`, `Reverb.cpp` | Ring sizes, Block-size bound, chunk length, and what resolution guarantees (`FeedbackConfigAssumption`). Sample arithmetic is uninterpreted operators. |
| `FeedbackNetwork` | specification only | The loop as a frame-by-frame network over whole histories: no rings, no chunks. |
| `FeedbackLoop` | `FeedbackLoop::processBlock`, `Reverb::process` | Rings, positions, recursive state, frame counter; `Process` (a call), `ReadChunk`, `StepFrame`, `WriteChunk`. Refines `FeedbackNetwork`. |
| `ChannelLayout` | `ResolveConfig.cpp` | Pure functions on words of `WordSize` values: checked products and sums, partition boundaries, even delays, bounded draws, one swap of a shuffle. |
| `DiffuserConfig` | `ResolveConfig.cpp`, `ModulationResolution.cpp` | A Diffuser on its way from a request to a resolved configuration, or from a file, through validation. One action per step of the resolver: `Derive` (time and memory budgets, step lengths), then for each Diffusion Step `BeginStep`, `DrawDelay` per Channel, `Shuffle` per swap, `Modulate`, and at the end `Validate`. |
| `ResearchBench` | `serve.py` | The Session, both locks, each handler thread's program counter, the child processes, the main thread, and the session root on disk. One action per step between which another thread may act. |
| `RenderResult` | `main.cpp`, `RenderResultTransaction.cpp` | Each renderer's program counter, frame counts, signal flag; working directories and output path on disk. |
| `FolderRender` | `render_folder.py` | The raw folder, the destination's WAVs and `request.json`, the run in progress. |
| `ExperimentRunner` | `experiment_runner.py`, isolation in `run_spatial_sweep.py` | Pure: loading a catalog, its points, JSON-Pointer operations on documents (trees), what a point changes and whether it stays in its scope, the impulse of a sample, the ranking of benchmarks. |
| `ExperimentSweep` | `experiment_runner.py`, `run_{tail,damping,modulation,spatial}_sweep.py`, `run_diffusion_catalog.py` | `files` below the points, `reports` beside them (`places` is history: where the points of each were), and the command in progress: its place in `main()`, its point, step and phase. Each `main()` is the sequence of its parts; one action per part (`LoadCatalog`, `RequireScopes`, `MatchImpulse`, each step of a point, `Report`s, `Exit`), and `Kill`, `ChildFails`, `Edit`, `DeleteBadBenchmark` between any two. |
| `WriteOnce` | specification only | A store in which a name is given one content for good. |
| `ArtifactPublication` | `publish_artifact` in the seven analyzers | Each process's program counter, offer and temporary file, and the artifacts; one action per system call of `publish_artifact`, with `Fail` and `Kill`. Refines `WriteOnce` (`Store == INSTANCE WriteOnce WITH ...`). |
| `Analyzers` | `analyze_*.py`, what the renderer wrote from `main.cpp` and `Reverb.cpp` | A Render Result file by file (hash and frames), what each analyzer verifies of it and what its evidence is computed from; `Replace` and `EditResolved` change files meanwhile. Extends `ArtifactPublication`. |
| `Equivalence` | `extract_*_equivalence.py`, `compare_*_equivalence.py`, the jobs of `ci.yml` | Summaries and reports of the four comparisons: `Extract`, `ExtractKilled`, `Compare`. Extends `Analyzers`. |

`MC*.tla` give the constants values; `*_proofs.tla` hold theorems (`Tools_proofs` those
of `FolderRender` and of `ExperimentSweep`).

What is abstracted, and why it does not matter to the properties:

- *Samples* in the loop are uninterpreted, and in the runs hashed modulo 10007: a
  sample from the wrong place, lost, or counted twice shows in everything
  computed from it. Floating-point values are out of scope.
- *Interpolation* is modelled by which stored samples it is given (adjacent two,
  or four for lagrange3) and a memory for the allpass; the polynomial is not.
- *Seeds*: a seeded draw is a choice among what its arithmetic can return, so a
  run covers every seed. Times of a request are in quarter samples, so that
  rounding is exact; apportionment is in exact rationals. Milliseconds beside
  sample counts, Modulation trajectories, polarity signs and matrix elements
  are left out of a resolved Diffuser.
- *Files* are their identity, a count of frames, or `Partial` after a write that
  stopped. The bench identifies a source's name with its bytes.
- *Stage captures* all have the same frames at the same places: one file in
  `RenderResult`; in `Analyzers` each capture is a file of its own.
- *Configurations* in a sweep are trees of JSON nodes; a render is the
  configuration and the sample it was made from, an analysis what it was made
  of, a benchmark a median. What a report shows is what it was computed from.
- *Evidence* is the list of files it was computed from, with their hashes, and an
  opaque measurement; in a comparison a measurement is five small values, one of
  each kind the summaries hold (a level, an optional fit, a flag, an optional
  ratio, a number of bins).
- An analyzer opens its first file in one step and all the others in the next;
  a file is hashed and read at once.
- A refused HTTP request changes nothing and is no action.

## 3. What the runs show

| Run | Instance and bounds | Checked |
|---|---|---|
| `delay_line` | Seven lines: fixed with rings 1, 2, 3, 4 and delay 2 in ring 5; lagrange3 with delay 4 in ring 6; adjacent with delay 3 in ring 5. Samples {0,1}, chunks up to 4, 9 frames. | `RingHoldsHistory`, `HeardExact`: whatever mixture of frame and block operations, every read is exact. Chunks are shorter than, equal to and longer than rings and delays; every ring wraps. |
| `feedback_loop` | Two Channels, delays 5 (modulated, Excursion 1, lagrange3, ring 9) and 4, 18 frames, impulses at two places and noise, four trajectories including both extremes. | `RingsHoldHistory`, `ChunkInFlight`, and `ImplementsNetwork`: for every way of cutting 18 frames into `process()` calls the loop is the frame-by-frame network. The modulated delay is the shortest its Excursion allows, so the chunk length is at its limit. The large ring wraps twice. |
| `diffuser_config` | 217 requests: 1 to 4 Channels, 0 to 3 steps, every strategy, budgets from none to past the last word, Modulation that fits, does not, or does for some draws. Words of 128 values, samples of 2 bytes, 100 bytes of budget: products and sums overflow just beyond the budget. | `SegmentsTile`, `PermutationKept`, `DrawsUniform`, `ResolvedIsAccepted`, `BudgetCovers`. Three Channels leave a remainder in every partition; the largest budgets would fit if a size wrapped. |
| `diffuser_config_file` | Diffusers of one Channel and two steps, as a file may hold them. | **Violated**: `BudgetCovers`. |
| `research_bench` | Two clients, two sources, two texts, two renders, one signal at any moment. | `OneRenderer`, `NoOrphan`, `RenderedAsAsked`, `NewestResultKept`, `ReaderSafe`, and the liveness properties `ShutdownCompletes`, `RenderAnswered`. Two clients suffice for every contention of a non-reentrant lock; the second render is what replaces the first's result. |
| `research_bench_removal` | One of each. | **Violated**: `SessionRemoved`. |
| `render_result` | Three renderers of one output path, two names for working directories, blocks of 2 frames; jobs with and without tail, captures and request. | `CompleteOrAbsent`, `ResultStays`, `OnlyTheDeadLeaveTraces`. Three renderers over two names make reservation fail and lose races; inputs end on and off a block's boundary, one without a tail. |
| `render_result_overwrite` | One renderer and somebody who makes an empty directory. | **Violated**: `NothingOverwritten`. |
| `folder_render` | Three sources, of which two collide when letter case is folded; two suffixes, two configurations, three runs. | `RequestDescribesItsRun`, `PlanComplete`. Three runs: one to publish, one to disturb, one to publish again. |
| `folder_render_presence` | The same. | **Violated**: `PresenceMeansComplete`. |
| `experiment_sweep` | The five commands; catalogs of one axis: a good one, one whose override was edited under the same label, one with a value put before the other, which moves the folders of both, duplicate labels, a pointer to nothing, a point outside its scope; samples of one and two Channels and a Git LFS pointer; two medians; two faults (kills, failing children, edits). | `PointCoherent`, `ExitZeroIsComplete`, `ReportsTrueOfDisk`, `ResumedNotRepeated`, `RenderedInScope`, and the liveness property `Recovers`. Two faults suffice for an edit after a kill and for a kill of the run that recovers from a kill. |
| `equivalence` | Two analyzers of any kind at one Render Result of seven shapes (Dry only, Diffuser, loop, both, with Early taps, Pre-delay, silence floor, non-finite output), failing or killed anywhere, with one file replaced, lost or edited; then two other platforms with any of five measurements, in several orders and precisions. | `PublicationInv`, `EvidenceOfThisRender`, `UntouchedIsAnalyzed`, `EquivalenceSound`, and the refinement `PublishedOnce`. Two processes suffice to race for a name; three platforms are the least for which being near is not transitive. |

Deadlock is checked in `experiment_sweep`, whose user can always run a command
again: no part of a command gets stuck. It is not in the other runs
(`CHECK_DEADLOCK FALSE`), because those systems may stop: streams end at the bound on frames, processes end, the
launcher exits. Threads waiting on each other in the bench are what
`ShutdownCompletes` and `RenderAnswered` exclude.

**Bounds.** `MaxFrames`, `MaxChunk`, `MaxRenders`, `MaxRuns`, `MaxFaults`,
`MaxDepth` (how deep a configuration nests) and `MaxChanges` are bounds of the
models; `Candidates` stands for the code's 1000 names. Each appears in a guard
and is named in its module.

**Fairness** is stated in `ResearchBench!FairSpec` and `ExperimentSweep!Spec`;
nothing else is checked for liveness. In the bench: weak fairness of the main thread's steps and of each handler's own
steps: a runnable thread is scheduled. Strong fairness of `Refuse`, the main
thread's acquisition of `process_lock`: it is contended by handlers that release
it after a `Popen` or an assignment, and a lock that is released again and again
is eventually acquired. Nothing is assumed of clients (one may stall in the
middle of its body forever), of signals, or of renderers; `RenderAnswered` has
the renderer's progress as an explicit antecedent. In the sweeps: weak fairness
of the command's own steps (it is a sequential program whose children end) and
of `Start` (the user runs it again), and strong fairness of
`DeleteBadBenchmark`: the docstring of `run_resumable_steps`
(`experiment_runner.py:426`) leaves it to the user to delete a benchmark that is
truncated. Kills, failures and edits have no fairness; `Recovers` is about what
happens once they stop, which the bound on faults makes sure of.

### Findings

1. `SessionRemoved` (`serve.py:414`). `close()` removes the session root while
   daemon handler threads still run; one that has read its body makes the root
   again with `mkdir(parents=True)` during or after the removal, and it stays.
   The docstring says it is removed on shutdown.
2. `NothingOverwritten` (`RenderResultTransaction.cpp:55`). On Linux, publishing
   is an existence check and then `rename(2)`, which replaces an empty directory
   made in between. The guide says an existing path is never overwritten. A
   Render Result is never overwritten: `ResultStays` holds, because a directory
   with files in it makes the rename fail.
3. `PresenceMeansComplete` (`render_folder.py:304`). `request.json` can be
   present beside a half-written WAV, or one another configuration rendered. The
   comment there says its presence means the folder is complete and described.
4. `BudgetCovers` (`ResolveConfig.cpp:2020`). The validator sums step lengths
   with a `+=` that wraps; all other sizes there are checked. A resolved Diffuser
   whose total equals the wrapped sum is accepted, although the estimate, made
   from that total, is less than its delay lines take. No request resolves to
   one (`diffuser_config`): it takes a `resolved.json` with absurd lengths. The
   guide says a Diffuser beyond the budget is rejected before it allocates.

### Observed while modelling

Behaviour the models contain, on which no run is spent:

- `load_catalog` raises `TypeError`, not `CatalogError`, for a name or label that
  is not hashable. An axis name with "/" or a `"scope"` of `null` makes
  `_axis_scope` return `None`, and the point's isolation is then not checked
  (`run_spatial_sweep.py:468`).
- A catalog edited under the same labels is resumed with the results of the old
  configuration. They stay coherent (`PointCoherent`); they are not of the
  catalog now given.
- A `benchmark-summary` of an earlier run stays when the Reference fails in a
  later one; it is still true of the disk. Benchmarks beside the ranked one are
  never parsed, so a truncated one is accepted.
- `depth_identity_invariant` says that nothing is published without the two
  points; the code publishes a "skipped" record (`run_modulation_sweep.py:520`).
- The comment at `analyze_early_support.py:68` says that no Pre-delay exists
  ahead of Split yet. It does, and such renders are refused; `InScope` says so.
- `relative` (a Modulation's relative magnitude) absent on the platform whose
  label comes first is not compared, on another it fails; `EquivalenceSound`
  leaves that metric out of what two platforms must both have. A precision
  that one platform alone reports passes.
- The tail and baseline analyzers do not verify the hash of `output.wav`, which
  is why `EvidenceOfThisRender` speaks of the output for `downmix` only.
- `analyze_render.py` publishes under one name with and without `--source`, so
  the second of the two is refused.

## 4. What is proved

| Theorem | Says, for every value of the constants |
|---|---|
| `DelayLine_proofs!TypeCorrect`, `RingCorrect`, `ReadsCorrect` | `Spec => []TypeOK`, `[]RingHoldsHistory`, `[]HeardExact`: any ring length, delay, chunk length and set of samples. |
| `FeedbackLoop_proofs!TypeCorrect`, `RingsCorrect`, `InFlightCorrect` | `Spec => []TypeOK`, `[]RingsHoldHistory`, `[]ChunkInFlight`. |
| `FeedbackLoop_proofs!ChunkedLoopImplementsNetwork` | `Spec => Network!Spec`: any Channels, delays, Excursion, chunk limit, sample operators, and any way of cutting the stream. |
| `DiffuserConfig_proofs!TypeCorrect`, `SegmentsCorrect`, `ShuffleCorrect` | `Spec => []TypeOK`, `[]SegmentsTile`, `[]PermutationKept`: any size of word, any budget, any requests, any draws. |
| `DiffuserConfig_proofs!DrawsAreUniform` | `Spec => []DrawsUniform`: whatever the bound, rejection leaves each value equally many raw words. |
| `DiffuserConfig_proofs!ResolverAgrees` | `Spec => []ResolvedIsAccepted`: what the resolver makes of a request, the validator accepts, unless memory or an empty step forbids. |
| `DiffuserConfig_proofs!BudgetIsCovered` | `Spec => [](request # None => BudgetCovers)`: a requested Diffuser that was accepted fits in memory, counted without wrapping. For one from a file it is false (finding 4). |
| `Equivalence_proofs!PublicationAccounts`, `TemporariesAreRemoved` | `PublicationSpec => []PublicationInv`, `[]OnlyTheDeadLeaveTemporaries`: any number of processes, names and contents. |
| `Equivalence_proofs!PublicationIsWriteOnce` | `PublicationSpec => PublishedOnce`, that is `Store!Spec`: with `os.link` (POSIX) and with `os.rename` (Windows). |
| `Equivalence_proofs!AnalyzersKeepAccounts`, `AnalyzersPublishOnce` | `Spec => []PublicationInv` and `Spec => PublishedOnce` of the whole job, analyzers and changing files included. |
| `Equivalence_proofs!EvidenceIsSound`, `NoneIsRefused` | `Spec => []EvidenceOfThisRender`, `[]UntouchedIsAnalyzed`: any renders, processes, and changes to the files. |
| `Equivalence_proofs!ComparisonIsSound` | `Spec => []EquivalenceSound`: any number of platforms and precisions, any measurements and tolerances, the reports of any of the four comparisons. |
| `RenderResult_proofs!TypeCorrect`, `ResultComplete`, `TracesOfTheDead` | `Spec => []TypeOK`, `[]CompleteOrAbsent`, `[]OnlyTheDeadLeaveTraces`: any number of renderers, jobs, block size and names. |
| `RenderResult_proofs!PublishedStays` | `Spec => ResultStays`. |
| `ResearchBench_proofs!TypesCorrect`, `OneRendererAtMost`, `NoRendererOutlives`, `RendersAsAsked`, `NewestResultStays`, `ReadersAreSafe` | `Spec =>` `[]TypeOK`, `[]OneRenderer`, `[]NoOrphan`, `[]RenderedAsAsked`, `[]NewestResultKept`, `[]ReaderSafe`: any number of clients, sources, texts and renders, through any shutdown. |
| `ResearchBench_proofs!ResultsAdvance` | `Spec => [][ResultAdvances /\ PublishedOnce]_vars`: the served result is only replaced by the newest render, which is there; no number is written twice. |
| `Tools_proofs!FolderTypesCorrect`, `RequestsDescribe`, `PlansCompleted` | `FolderSpec =>` `[]FolderTypeOK`, `[]RequestDescribesItsRun`, `[]PlanComplete`: any files, configurations, suffixes and interruptions. |
| `Tools_proofs!TypeCorrect`, `PointsCoherent`, `ExitZero` | `Spec =>` `[]TypeOK`, `[]PointCoherent`, `[]ExitZeroIsComplete` of the experiments: the five commands, any catalogs, samples and medians, killed, failing and edited between any two steps. |
| `Tools_proofs!NothingRepeated` | `Spec => ResumedNotRepeated` of the experiments. |
| `Tools_proofs!ReportsAreTrue` | `Spec => []ReportsTrueOfDisk`: summary, identity record, comparison and listening report, each as the last run that wrote it left it. |
| `Tools_proofs!RenderedWithinScope` | `Spec => RenderedInScope`: the spatial sweep renders what differs from the Reference under its axis's scope and nowhere else, and refuses none of it; any documents and scopes. |

*Assumptions.* `DelayLineAssumption` (a ring is at least as long as its delay, and
fractional lookbacks fit it) and `FeedbackConfigAssumption` (positive delays,
delay less Excursion above the interpolation margin, lookbacks within the
Excursion). Both state what configuration resolution establishes, and TLC
evaluates them on the instances. `DiffuserConfigAssumption` says that the number
of Channels fits in half a word's bits (it is a `uint32_t`), that a sample has at
least two bytes, and of each request that its weights are positive, its Excursions
natural and its strategies among the three. Nothing is assumed of sums, nor of the
sample operators.

*Argument for the ring.* `RingHoldsHistory` says that the cell `i` holds the
sample whose age is `CellAge(position, i)`, the distance from `i` round to the
write position. `DelayRing_proofs` shows that a block write of any length, also
one longer than the ring, whose overwritten prefix the code skips, moves every
age by the block's length and puts the last samples at the ages below it. It is
inductive together with the types. `HeardExact` follows since every read is at
the cell of the age it asks for; a chunk's reads are shifted by the frames that
are due before them.

*Argument for the loop.* The inductive invariant is
`TypeOK /\ RingsHoldHistory /\ ChunkInFlight`. The last is the strengthening:
between chunks memory is the network's; within one, the points already read are
those the *network* will look back to, although nothing of the chunk is written.
This holds because a chunk is shorter than every lookback in it
(`ChunkFrames < BlockSizeBound`, or a single frame), and because the ring has
headroom for the longest lookback and the interpolator's oldest point. Every
action but `WriteChunk` is then a stutter of the network, and `WriteChunk` is one
of its `Extend` steps.

*Argument for the Diffuser.* What can go wrong is that arithmetic on words wraps.
`DiffuserConfig_proofs` first shows that it does not where the number of Channels has
half the bits of a word: `PartitionBoundary` is then exact, starts at 0, ends at
the number of positions and is strictly increasing. The invariant `Inv` says that
step lengths leave room for one more position, which holds because a budget that
can be paid for at two bytes a sample is less than half of the last word
(`AffordableBound`); that the first Channels have delays from their own segments;
and that the shuffle so far is a permutation, which a swap preserves.

That the resolver agrees with the validator needs what is *in* the document as
well (`Resolved`, checked by TLC on the run's instance before it was proved): the
total is shared among the steps without loss and half a word is free
(`TimeShared`), the step being drawn follows its strategy (`AsAsked`), every step
so far is as requested and, where it could be derived at all, what `ValidStep`
wants (`StepsMade`). `Total` is a fold over a set. Its value is pinned down
without induction over data: the finite sets of steps on which sums do not exist,
or differ, would have a smallest member (`LeastElement`, `OverSubsets`), and taking
out the element that the fold takes out first contradicts it. From this follow the
laws of sums (`PartSum`, `PartMonotone`, `PartScale`, `PartReindexed`, ...).
`ApportionExact` then says that the largest-remainder shares add up to the total:
the remainders' ranks are all different (`RanksDistinct`), so exactly as many steps
get one more sample as there are samples left. The headroom of a modulated step is at
most its length, so that the total with headroom is below a word and the
validator's recount is exact; `AffordableExact` gives the rest of the budget, and a
buffer is no longer than its step with headroom (`BudgetKept`).

*Argument for publication.* `PublicationInv` is inductive as it stands: what each
step relies on (`StepsInOrder`: a process about to link has written its whole
content, one that has an offer and no answer holds no name yet) gives the two
accounts. For the refinement, `Link` is the store's `Hold`, the two steps that
find the name taken are `Compare`, `Offer` is `Offer`, and every other step,
failures and kills among them, leaves names, offers and answers alone. `PublicationAssumption` only keeps contents apart from the markers.

*Argument for the analyzers.* `Inv` in `Equivalence_proofs` adds to
`PublicationInv` what is read and offered. What a reader relies on is said of an
artifact's name and content alone (`Sound`): it is established where an analyzer
accepts the files it has read, and then carried along by the offer, its temporary
file and its artifact (`OffersSound`, `ArtifactsSound`), since nothing but
publication writes artifacts. That no analyzer refuses an untouched result needs
what it has already read to be what the renderer wrote (`Untouched`), and a
computation for each tool: the lemmas show that the frames it expects, the
captures it looks for and the onset of the signal are those the renderer made,
for every shape of Composition. Each step of an analyzer is a step of publication
or leaves it alone (`PublicationStep`), which lifts the refinement to the whole
job. `AnalyzersAssumption` says of a render what `validateShape` and the request's
validation accept; without it the second property is false (an Early tap needs a
Diffuser, an empty Composition has no captures).

*Argument for the comparison.* `ComparisonInv` is inductive: a report is of a broken
summary and says "error", or its entries are measurements, no two of one platform
and precision, and its verdict is that of `compare` on them. The rest is about
`compare`, which works on the list it has sorted: `VerdictOf` and `ComparisonOf` say
what it computes as functions of the *set* of entries, which no order on the command
line changes (`Before` is a strict order where labels differ). Where every pair is
compared, any two platforms are one of the pairs. Where all are compared with a
baseline, the two are each within the tolerance of it, so within twice that of
each other (`Apart`). `EquivalenceAssumption` types measurements, makes
tolerances natural numbers, and gives a platform one entry per precision, as the
matrix of `ci.yml` does.

*Argument for the renderer.* `CompleteOrAbsent` is not inductive: it takes an
account of each renderer. `Inv` in `RenderResult_proofs` says, by program counter,
how far its counts have come (`Progress`), what is in its working directory by
then (`Filled`), that it has one (`Reserved`) and that every directory on disk is
its owner's and of an owner that has not ended (`Owned`). The lemma `OthersKept`
shows once that a step of one renderer, which touches its own directory only,
keeps the accounts of all others; each action then has only its own account to
keep. `PublishedStays` needs no invariant. `RenderResultAssumption` types the
jobs and keeps the markers apart from directories and counts.

*Argument for the Bench.* No property of `ResearchBench` is inductive, because
none says who is where. `Inv` gives each handler an account (`Holds`): it holds
`lock` at exactly the steps of the section, `process_lock` exactly while it
publishes the process, is `active_process` exactly while it awaits, and has a
living child only there. With the lock held by one handler at a time, one child
follows. `Shutdown` ties the main thread in: once it is past taking
`process_lock` no child is being spawned, the one alive is the one it waits for,
and then none is, although the handlers go on; both closes are counted because
the second comes while the first's removals are visible. `Keeps` is what a
handler relies on while others go on: its render number is the newest and is not
served yet, its directory is empty until its child publishes, and the request
file still has its text or is gone with the session root (a render by its file's
name needs this, not only by what was posted). `Stored` says which results may be
on disk: the served one and that of the render under way. The last two make
`NewestResultKept` and `ReaderSafe` inductive. The action property
`ResultsAdvance` uses the same invariant: that a number grows is a fact about
`Keeps`, not about the assignment. `ResearchBenchAssumption` keeps the markers
apart from names and numbers.

*Argument for the folder.* `PlanComplete` needs that what has been taken off the
list has been made and is not written over (`MadeSoFar`), which rests on the
output names being distinct, checked before anything is written (`RunKnown`).
`RequestDescribesItsRun` needs that a run which is not from the copy has removed
`request.json` first. The order in which sources are rendered is by least
element; `LeastElement` derives it from the library's well-foundedness of the
naturals. `FolderRenderAssumption` keeps markers apart from WAVs and types names.

*Argument for the experiments.* A file below a point may be incomplete only while
the step that makes it is in progress, or after a benchmark was killed. `Inv` in
`Tools_proofs` says so by place: every file is sound for its point and for the
files it was made of (`FilesSound`), and of the point at hand, the files of
earlier steps are there and that of the step in progress is missing or truncated
(`Place`). `Keeps` is the matching fact about steps: one that writes below a point
writes a file that was not there. `PointsCoherent` and `NothingRepeated` follow.
`Complete` gives exit status 0 its meaning: benchmarks are only where the command
asks for them (`BenchmarksPlaced`); each outcome is that of a point whose files
are there (`Accounted`); past the points, the summary that was written is that of
the outcomes and ranks them all (`PastPoints`, with `AllRanked`: counting those
ahead of an entry is a bijection to the ranks, ties included). The order of the
steps is computed once, for each command, from the sequences in the model
(`StepsListed`).

`ReportsTrueOfDisk` relates files of different runs: a report may be stale, and an
edit may since have moved the folders of its points, which carry the indices of
axis and value. So the model remembers, in the history variable `places`, where the
points were that a report is of. `Truthful` is the inductive invariant: what each
report says is true of files in those places *that are whole*. That is what makes
it inductive, as a whole file stays (`Keeps`, `WholeStays`), a missing or truncated
one does not: evidence a report could not read may be there later. When a report is written,
`Accounted` says what is on disk for each outcome; that `identity` and `comparison`
come after all the points, and that the Reference is one of them, makes the
points they look for found (`AllPast`, `BothRendered`, `SweepReference`).

`RenderedInScope` says what the check of a scope is *for* in other terms than the
check: `InScope` compares the two documents with what lies under the pointer left
out, while `validate_point_isolation` recurses into both at once and looks at the
paths where it found a difference. `IsolationIsScope` shows that they are the same
for any two documents. Where all changes lie in a part of the paths that is closed
under going deeper, the documents agree at every path outside it, the shortest
that does not being a contradiction (`AgreeOutside`); where there is no change at
all they are the same document, from the deepest nodes up (`UnchangedSame`). That
`_navigate` goes token by token and `PathsOf` is closed under it are `NavigateNext` and
`PathsAre`. The rest is about steps: `Admitted` says that a point past its first
check is isolated, also when its earlier files are resumed, and that every axis has
a scope by then.

`ExperimentSweepAssumption` keeps markers apart from contents, and
says that medians are integers, Channels and sources are naturals, and the arrays
of a catalog that loads are sequences. Of the spatial sweep's catalogs it says that
the Reference, and what a point makes of it, are documents that nest no deeper than
`MaxDepth` (`IsDocument`: in particular `int` reads back the token of an index), and
that scopes are sequences of tokens. TLC evaluates it for the catalogs of the run.

*Only model-checked.* Liveness, which is out of the prover's reach:
`ShutdownCompletes`, `RenderAnswered` and `Recovers`.

## 5. Not modelled, and why

- Floating-point numerics (filters, polynomials, orthogonality, analysis), SHA-256
  and RIFF details: values, not control.
- Benchmark, fixture generators, `evaluate_allpass_interpolation.py`: pure
  sequential functions. `analyze_diffusion.py --compare` and the wording and
  layout of reports.
- Two sweeps over one output folder at once, and children that outlive a sweep
  killed by SIGKILL: nothing in the code excludes either.
- A failing `unlink` of a temporary file (`publish_artifact` then leaves it), and
  `os.name == "nt"` in the runs (the constant `Posix` covers it in the proofs).
- Platforms with the same label: the comparison's order is then that of the
  files; the labels of the CI's jobs are distinct.
- A power loss (the files are not flushed before the rename): the model's crash is
  that of a process.
- A negative lookback (unsigned wrap, `DelayLine.h:215`) and frame counters of 2^53
  and more (`Modulation.cpp:99`): resolution keeps lookbacks above the
  interpolation margin, and no stream is that long. A signal before the bench's
  handlers are installed takes the system's default action.
- A second signal while the bench's handler runs: Python may nest handlers inside
  `process_lock`; one signal is modelled.

## 6. Plan

In order, the most important behaviour first. The list of runs is kept short: a
module gets one run, and a second only for a disagreement found; modules that
work in sequence (resolve, write, read back, validate) share one.

1. **Core, done**: `DelayRing`, `DelayLine`, `FeedbackConfig`, `FeedbackNetwork`,
   `FeedbackLoop`, their runs and proofs; `ResearchBench`; `RenderResult`;
   `FolderRender`.
2. **`ChannelLayout`, `DiffuserConfig`, done**: the Diffuser resolved and
   validated, its draws and its memory budget, with proofs of its layout.
3. **`ResolveConfig`** and **`ConfigJson`**: the Feedback Loop, Split, downmix and
   early taps beside the Diffuser; the written document and its replay.
   `AcceptedIsSafe` (acceptance implies `FeedbackConfigAssumption`, which closes
   the loop's proofs), `RoundTrip`, and what is built before the budget of
   memory is checked: the Diffuser's values are estimated first, the loop's are
   not.
4. **`ReverbPipeline`** composing Pre-delay, Split, early reflections, diffusion,
   loop and downmix with captures, refining the frame-by-frame pipeline; and
   **`ModulationTargets`**: the cache of random targets, against their definition.
5. **`BenchPage`** composed with an abstract `BenchServer` that `ResearchBench` is
   shown to implement: late, lost and reordered answers; no unsaved edit lost,
   the latest choice wins, labels say what is there.
6. **`ExperimentRunner`, `ExperimentSweep`, done**: resumption by presence over
   crashes, failures and edits; **`WriteOnce`, `ArtifactPublication`,
   `Analyzers`, `Equivalence`, done**: exclusive publication by link, what the
   evidence is of, and what its comparison says.
7. **`WavHeader`**: chunk walk and 32-bit sizes.

Theorems to add: the acceptance theorem of item 3.
