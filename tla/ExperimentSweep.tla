--------------------------- MODULE ExperimentSweep ---------------------------
(***************************************************************************)
(* The five experiment commands (tools/run_tail_sweep.py,                  *)
(* run_damping_sweep.py, run_modulation_sweep.py, run_spatial_sweep.py and *)
(* run_diffusion_catalog.py) over one output folder, run again and again:  *)
(* each takes the points of a catalog through resumable steps that start   *)
(* the renderer, the analyzer and the benchmark, and ends with reports.  A *)
(* command may be killed anywhere, a child may fail, the user may edit the *)
(* catalog or replace the sample between two runs, and deletes a benchmark *)
(* that does not parse.                                                    *)
(*                                                                         *)
(* Renders and analyses are published whole (RenderResult,                 *)
(* ArtifactPublication), so they are one step here; a file written in      *)
(* place is Truncated first.  Children die with the command.               *)
(***************************************************************************)
EXTENDS ExperimentRunner

CONSTANTS
  Tools,          (* Which of the five commands are checked.               *)
  Catalogs(_),    (* The catalogs a command may be given.                  *)
  Samples,        (* The samples of one stem: [content, channels].         *)
  OutputOf(_),    (* The audio of a configuration, up to its source.       *)
  Medians,        (* Measured block times.                                 *)
  None, Truncated,
  MaxFaults       (* Bound on kills, failures of children and edits.       *)

VARIABLES
  tool,
  catalog, sample,    (* The files given on the command line.              *)
  Points,             (* The points of that catalog.                       *)
  at,                 (* Position in main(); 0 when nothing runs.          *)
  point, step, phase, (* Position in the points, and within a step.        *)
  newWork,            (* did_new_work                                      *)
  outcomes,
  exit,               (* How the last run ended.                           *)
  files,              (* <<directory, name>> -> content, below the points. *)
  reports,            (* The files beside them, by name.                   *)
  places,             (* History: where the points were that a report is   *)
                      (* of, as pairs <<name, directory>>.                 *)
  faults

inputs == <<tool, catalog, sample, Points>>
position == <<at, point, step, phase, newWork, outcomes, exit>>
vars == <<inputs, position, files, reports, places, faults>>

(***************************************************************************)
(* What a command does with a point: each step makes one file of the       *)
(* point's directory.                                                      *)
(***************************************************************************)
RenderedThenAnalyzed ==
  <<[makes |-> "sample",   does |-> "render"],
    [makes |-> "impulse",  does |-> "render resolved"],
    [makes |-> "analysis", does |-> "analyze"]>>

TailSteps == Append(RenderedThenAnalyzed, [makes |-> "benchmark", does |-> "benchmark"])
DampingSteps == Append(RenderedThenAnalyzed, [makes |-> "benchmark", does |-> "benchmark"])
ModulationSteps == Append(RenderedThenAnalyzed, [makes |-> "benchmark", does |-> "benchmark"])
SpatialSteps == Append(RenderedThenAnalyzed, [makes |-> "determinism", does |-> "repeat"])

(* One of the four other block sizes stands for all: nothing reads them.   *)
QuantitativeSteps(name) ==
  <<[makes |-> "sample",    does |-> "render"],
    [makes |-> "analysis",  does |-> "analyze"],
    [makes |-> "benchmark", does |-> "benchmark"]>> \o
  IF name = Reference
  THEN <<[makes |-> "benchmark-32", does |-> "benchmark"]>>
  ELSE << >>

(* A listening case whose sample is not there has no step, and is skipped. *)
ListeningSteps(available) ==
  IF available THEN <<[makes |-> "sample", does |-> "render"]>> ELSE << >>

Steps(p) ==
  CASE tool = "tail" -> TailSteps
    [] tool = "damping" -> DampingSteps
    [] tool = "modulation" -> ModulationSteps
    [] tool = "spatial" -> SpatialSteps
    [] tool = "diffusion" /\ p.listening -> ListeningSteps(sample.content # "absent")
    [] tool = "diffusion" /\ ~p.listening -> QuantitativeSteps(p.name)

(* The diffusion catalog names its cases, and pairs listening cases with   *)
(* them.                                                                   *)
load_diffusion_catalog(c) ==
  LET names == [i \in DOMAIN c.cases |-> c.cases[i].name] IN
  /\ {"formatVersion", "reference", "cases", "listeningCases"} \subseteq DOMAIN c
  /\ c.formatVersion = 1
  /\ Distinct(names)
  /\ Reference \in Range(names)
  /\ Distinct([i \in DOMAIN c.listeningCases |-> c.listeningCases[i].name])
  /\ \A i \in DOMAIN c.listeningCases : c.listeningCases[i].pairedQuantitativeCase \in Range(names)

DiffusionPoints(c) ==
  LET Paired(l) == CHOOSE case \in Range(c.cases) : case.name = l.pairedQuantitativeCase IN
  [i \in DOMAIN c.cases |->
     [name |-> c.cases[i].name, directory |-> <<"cases", c.cases[i].name>>,
      overrides |-> c.cases[i].overrides, source |-> c.cases[i].source, listening |-> FALSE]] \o
  [i \in DOMAIN c.listeningCases |->
     [name |-> c.listeningCases[i].name,
      directory |-> <<"listening", c.listeningCases[i].name>>,
      overrides |-> Paired(c.listeningCases[i]).overrides, listening |-> TRUE]]

LoadsIn(t, c) == IF t = "diffusion" THEN load_diffusion_catalog(c) ELSE load_catalog(c)
Loads == LoadsIn(tool, catalog)

(* The scope of the axis of a point; None for the Reference.               *)
_axis_scope(c, name) ==
  IF name = Reference THEN None
  ELSE (CHOOSE axis \in Range(c.axes) : axis.name = name[1]).scope

(* The spatial sweep checks a point before its first step, resumed or not; *)
(* the others materialize it only to render it.                            *)
Isolated(c, p, request) ==
  LET scope == _axis_scope(c, p.name) IN
  request # Refused /\ (scope = None \/ validate_point_isolation(c.reference, request, scope))

(* A point with its Requested Configuration.                               *)
Requesting(t, c, p) ==
  LET request == materialize(c.reference, p.overrides) IN
  [field \in DOMAIN p \cup {"request", "isolated"} |->
     CASE field = "request"  -> request
       [] field = "isolated" -> t = "spatial" => Isolated(c, p, request)
       [] OTHER              -> p[field]]

(* The points of a catalog that loads, computed when it is chosen.         *)
Plan(t, c) ==
  LET points == CASE ~LoadsIn(t, c) -> << >>
                  [] LoadsIn(t, c) /\ t = "diffusion" -> DiffusionPoints(c)
                  [] LoadsIn(t, c) /\ t # "diffusion" -> sweep_points(c)
  IN  [i \in DOMAIN points |-> Requesting(t, c, points[i])]

AllPoints == UNION {UNION {Range(Plan(t, c)) : c \in Catalogs(t)} : t \in Tools}

(* What is in the files: a render or an analysis is the configuration and  *)
(* the Channels it was made of.                                            *)
Requests == {p.request : p \in AllPoints}
Renders == [config : Requests, channels : Nat]
Benchmarks == [config : Requests, median : Medians]
Summaries == Seq([case : {p.name : p \in AllPoints}, median : Int, delta : Int])

(* The arrays of a catalog that points are made of.                        *)
Arrays(t, c) ==
  IF t = "diffusion" THEN {c.cases, c.listeningCases}
  ELSE {c.axes} \cup {c.axes[i].values : i \in DOMAIN c.axes}

ASSUME ExperimentSweepAssumption ==
  /\ Tools \subseteq {"tail", "damping", "modulation", "spatial", "diffusion"}
  /\ MaxFaults \in Nat /\ MaxDepth \in Nat
  /\ Medians \subseteq Int
  /\ None # Truncated /\ None # "ok" /\ None \notin Summaries
  /\ {None, Truncated} \cap (Renders \cup Benchmarks) = {}
  /\ \A t \in Tools : \A c \in Catalogs(t) :
       LoadsIn(t, c) => \A array \in Arrays(t, c) : array \in Seq(Range(array))
  /\ "spatial" \in Tools => \A c \in Catalogs("spatial") : LoadsIn("spatial", c) =>
       /\ IsDocument(c.reference)
       /\ \A p \in Range(Plan("spatial", c)) : p.request # Refused => IsDocument(p.request)
       /\ \A axis \in Range(c.axes) :
            "scope" \in DOMAIN axis => axis.scope \in Seq(Range(axis.scope))
  /\ \A s \in Samples : s.channels \in Nat
  /\ "diffusion" \in Tools => \A c \in Catalogs("diffusion") : \A p \in Range(Plan("diffusion", c)) :
       ~p.listening => p.source \in Nat

(***************************************************************************)
(* main() of each command.                                                 *)
(***************************************************************************)
TailMain == <<"catalog", "sample", "impulse", "points", "summary", "status", "listening", "exit">>
DampingMain == <<"catalog", "sample", "impulse", "points", "summary", "status", "listening", "exit">>
ModulationMain == <<"catalog", "sample", "impulse", "points", "identity", "summary", "status",
                    "listening", "exit">>
SpatialMain == <<"catalog", "scopes", "sample", "impulse", "points", "comparison", "status",
                 "listening", "exit">>
DiffusionMain == <<"catalog", "points", "summary", "status", "exit">>

Main == CASE tool = "tail" -> TailMain
          [] tool = "damping" -> DampingMain
          [] tool = "modulation" -> ModulationMain
          [] tool = "spatial" -> SpatialMain
          [] tool = "diffusion" -> DiffusionMain

Running == at # 0
In(name) == Running /\ Main[at] = name

Stop(code) ==
  /\ at' = 0 /\ point' = 1 /\ step' = 1 /\ phase' = "check" /\ newWork' = FALSE
  /\ outcomes' = << >>
  /\ exit' = code

Proceed ==
  /\ at' = at + 1
  /\ UNCHANGED <<point, step, phase, newWork, outcomes, exit>>

(* Reading the catalog, the sample and the matching impulse, in the order  *)
(* of main().                                                              *)
Start ==
  /\ ~Running
  /\ at' = 1 /\ exit' = None
  /\ UNCHANGED <<inputs, point, step, phase, newWork, outcomes, files, reports, places, faults>>

LoadCatalog ==
  /\ In("catalog")
  /\ IF Loads THEN Proceed ELSE Stop("error")
  /\ UNCHANGED <<inputs, files, reports, places, faults>>

RequireScopes ==
  /\ In("scopes")
  /\ IF \A i \in DOMAIN catalog.axes : "scope" \in DOMAIN catalog.axes[i] THEN Proceed ELSE Stop("error")
  /\ UNCHANGED <<inputs, files, reports, places, faults>>

(* A sample that is not there is no failure: the command returns 0.        *)
RequireSample ==
  /\ In("sample")
  /\ IF sample_unavailable_reason(sample) THEN Stop("skipped") ELSE Proceed
  /\ UNCHANGED <<inputs, files, reports, places, faults>>

MatchImpulse ==
  /\ In("impulse")
  /\ IF matching_impulse(sample) = 0 THEN Stop("error") ELSE Proceed
  /\ UNCHANGED <<inputs, files, reports, places, faults>>

(***************************************************************************)
(* The points.                                                             *)
(***************************************************************************)
Has(directory, name) == <<directory, name>> \in DOMAIN files
File(directory, name) == IF Has(directory, name) THEN files[<<directory, name>>] ELSE None
Write(directory, name, content) ==
  files' = [f \in DOMAIN files \cup {<<directory, name>>} |->
              IF f = <<directory, name>> THEN content ELSE files[f]]
Unlink(directory, name) ==
  files' = [f \in DOMAIN files \ {<<directory, name>>} |-> files[f]]

Current == Points[point]
InStep == In("points") /\ point <= Len(Points) /\ step <= Len(Steps(Current))
Doing(what) == InStep /\ Steps(Current)[step].does = what
Target == Steps(Current)[step].makes

EndPoint(status, benchmark) ==
  /\ outcomes' = Append(outcomes, [name |-> Current.name, status |-> status,
                                   benchmark |-> benchmark])
  /\ point' = point + 1 /\ step' = 1 /\ phase' = "check" /\ newWork' = FALSE
  /\ UNCHANGED <<at, exit>>

StepDone ==
  /\ step' = step + 1 /\ phase' = "check" /\ newWork' = TRUE
  /\ UNCHANGED <<at, point, outcomes, exit>>

Enter(where) ==
  /\ phase' = where
  /\ UNCHANGED <<at, point, step, newWork, outcomes, exit>>

Requested == Current.request

(* The Channels of what a point renders: the sample, or the mono or stereo *)
(* source of a quantitative case.                                          *)
ChannelsOf(p) == IF tool = "diffusion" /\ ~p.listening THEN p.source ELSE sample.channels
Readable(p) == (tool = "diffusion" /\ ~p.listening) \/ sample.content = "audio"

(* A bug: a step is done whether its file is there or not.                 *)
CheckStepAlways ==
  /\ InStep /\ phase = "check"
  /\ IF \/ tool = "spatial" /\ step = 1 /\ ~Current.isolated
        \/ Doing("render") /\ Requested = Refused
     THEN EndPoint("failed", None)
     ELSE Enter("do")
  /\ UNCHANGED <<inputs, files, reports, places, faults>>

(* run_resumable_steps: a step whose file is there is not done again.      *)
CheckStep ==
  /\ InStep /\ phase = "check"
  /\ IF \/ tool = "spatial" /\ step = 1 /\ ~Current.isolated
        \/ ~Has(Current.directory, Target) /\ Doing("render") /\ Requested = Refused
     THEN EndPoint("failed", None)
     ELSE IF Has(Current.directory, Target)
     THEN /\ step' = step + 1
          /\ UNCHANGED <<at, point, phase, newWork, outcomes, exit>>
     ELSE Enter("do")
  /\ UNCHANGED <<inputs, files, reports, places, faults>>

StepFails == EndPoint("failed", None) /\ UNCHANGED <<inputs, reports, places>>

(* The Requested Configuration is written, over an earlier one, and given  *)
(* to the renderer.                                                        *)
WriteRequest ==
  /\ Doing("render") /\ phase = "do"
  /\ Write(Current.directory, "request", Requested)
  /\ Enter("render")
  /\ UNCHANGED <<inputs, reports, places, faults>>

render_case ==
  /\ Doing("render") /\ phase = "render"
  /\ IF Readable(Current)
     THEN /\ Write(Current.directory, "sample",
                   [config   |-> File(Current.directory, "request"),
                    channels |-> ChannelsOf(Current)])
          /\ StepDone
     ELSE StepFails /\ UNCHANGED files
  /\ UNCHANGED <<inputs, reports, places, faults>>

(* A bug: the impulse is rendered from the catalog's request.              *)
RenderImpulseFromCatalog ==
  /\ Doing("render resolved") /\ phase = "do"
  /\ IF Requested # Refused /\ File(Current.directory, "sample").channels = matching_impulse(sample)
     THEN /\ Write(Current.directory, "impulse",
                   [config |-> Requested, channels |-> matching_impulse(sample)])
          /\ StepDone
     ELSE StepFails /\ UNCHANGED files
  /\ UNCHANGED <<inputs, reports, places, faults>>

(* The impulse goes through the Resolved Configuration of the sample's     *)
(* render; another number of Channels is an error of the renderer.         *)
render_from_resolved ==
  /\ Doing("render resolved") /\ phase = "do"
  /\ LET resolved == File(Current.directory, "sample")
         impulse == matching_impulse(sample)
     IN  IF resolved.channels = impulse
         THEN /\ Write(Current.directory, "impulse",
                       [config |-> resolved.config, channels |-> impulse])
              /\ StepDone
         ELSE StepFails /\ UNCHANGED files
  /\ UNCHANGED <<inputs, reports, places, faults>>

(* The analyzer is given the render and the source it is told it had; it   *)
(* verifies the source's hash.                                             *)
Analyze ==
  /\ Doing("analyze") /\ phase = "do"
  /\ LET analyzed == File(Current.directory, IF tool = "diffusion" THEN "sample" ELSE "impulse")
         source == IF tool = "diffusion" THEN ChannelsOf(Current) ELSE matching_impulse(sample)
     IN  IF analyzed.channels = source
         THEN /\ Write(Current.directory, "analysis",
                       [config |-> analyzed.config, channels |-> source])
              /\ StepDone
         ELSE StepFails /\ UNCHANGED files
  /\ UNCHANGED <<inputs, reports, places, faults>>

(* `rvrbotron benchmark --json` writes its report in place.                *)
benchmark_case ==
  /\ Doing("benchmark")
  /\ \/ /\ phase = "do"
        /\ Write(Current.directory, Target, Truncated)
        /\ Enter("write")
     \/ /\ phase = "write"
        /\ \E median \in Medians :
             Write(Current.directory, Target,
                   [config |-> File(Current.directory, "sample").config, median |-> median])
        /\ StepDone
  /\ UNCHANGED <<inputs, reports, places, faults>>

(* A bug: the repeat that is in the way is left there.                     *)
RepeatRenderLeft ==
  /\ Doing("repeat") /\ phase = "do"
  /\ IF Has(Current.directory, "repeat")
     THEN StepFails /\ UNCHANGED files
     ELSE /\ Write(Current.directory, "repeat", File(Current.directory, "sample").config)
          /\ Enter("compare")
  /\ UNCHANGED <<inputs, reports, places, faults>>

(* _verify_determinism: a repeated render of the impulse, compared file by *)
(* file and removed.  The repeat of a killed run makes the renderer refuse *)
(* its output path; it is removed all the same.                            *)
RepeatRender ==
  /\ Doing("repeat") /\ phase = "do"
  /\ IF Has(Current.directory, "repeat")
     THEN Unlink(Current.directory, "repeat") /\ StepFails
     ELSE /\ Write(Current.directory, "repeat", File(Current.directory, "sample").config)
          /\ Enter("compare")
  /\ UNCHANGED <<inputs, reports, places, faults>>

CompareRepeat ==
  /\ Doing("repeat") /\ phase = "compare"
  /\ IF /\ File(Current.directory, "impulse").config = File(Current.directory, "repeat")
        /\ File(Current.directory, "impulse").channels = matching_impulse(sample)
     THEN Unlink(Current.directory, "repeat") /\ Enter("write")
     ELSE Unlink(Current.directory, "repeat") /\ StepFails
  /\ UNCHANGED <<inputs, reports, places, faults>>

WriteDeterminism ==
  /\ Doing("repeat")
  /\ \/ /\ phase = "write"
        /\ Write(Current.directory, Target, Truncated)
        /\ Enter("written")
     \/ /\ phase = "written"
        /\ Write(Current.directory, Target, File(Current.directory, "impulse"))
        /\ StepDone
  /\ UNCHANGED <<inputs, reports, places, faults>>

(* A child returns a failure: the steps that remain wait for another run.  *)
ChildFails ==
  /\ InStep /\ phase \in {"do", "render"} /\ faults < MaxFaults
  /\ ~(Doing("render") /\ phase = "do")
  /\ faults' = faults + 1
  /\ StepFails
  /\ UNCHANGED <<inputs, files, reports, places>>

(* A bug: a benchmark that does not parse counts as one.                   *)
FinishPointUnread ==
  /\ In("points") /\ point <= Len(Points) /\ step > Len(Steps(Current))
  /\ EndPoint("completed", None)
  /\ UNCHANGED <<inputs, files, reports, places, faults>>

(* All steps are done.  The benchmark is read back; one that does not      *)
(* parse raises through main().                                            *)
FinishPoint ==
  /\ In("points") /\ point <= Len(Points) /\ step > Len(Steps(Current))
  /\ LET benchmark == File(Current.directory, "benchmark")
         status == CASE Steps(Current) = << >> -> "skipped"
                     [] newWork -> "completed"
                     [] OTHER -> "resumed"
     IN  IF benchmark = Truncated THEN Stop("raised") ELSE EndPoint(status, benchmark)
  /\ UNCHANGED <<inputs, files, reports, places, faults>>

FinishPoints ==
  /\ In("points") /\ point > Len(Points)
  /\ Proceed
  /\ UNCHANGED <<inputs, files, reports, places, faults>>

(***************************************************************************)
(* The reports.                                                            *)
(***************************************************************************)
Report(name, content) ==
  /\ reports' = [reports EXCEPT ![name] = content]
  /\ places' = [places EXCEPT ![name] = {<<p.name, p.directory>> : p \in Range(Points)}]
IndexOf(name) == CHOOSE i \in DOMAIN Points : Points[i].name = name
HasPoint(name) == \E i \in DOMAIN Points : Points[i].name = name
Failed(name) == outcomes[IndexOf(name)].status = "failed"
DirectoryOf(name) == Points[IndexOf(name)].directory

WriteSummary ==
  /\ In("summary")
  /\ LET summary == build_benchmark_summary(outcomes, None) IN
       IF summary = None THEN UNCHANGED <<reports, places>> ELSE Report("benchmark-summary", summary)
  /\ Proceed
  /\ UNCHANGED <<inputs, files, faults>>

Omitted == <<"depth", "omitted">>
Zero == <<"depth", "zero">>

(* The audio of two renders, byte for byte.                                *)
SameAudio(directoryA, directoryB, name) ==
  LET a == File(directoryA, name)
      b == File(directoryB, name)
  IN  OutputOf(a.config) = OutputOf(b.config) /\ a.channels = b.channels

(* Written into the folder of the axis, which is there only if a point of  *)
(* it has a file.                                                          *)
depth_identity_invariant ==
  /\ In("identity")
  /\ IF ~(HasPoint(Omitted) /\ HasPoint(Zero)) THEN UNCHANGED <<reports, places>> /\ Proceed
     ELSE LET omitted == DirectoryOf(Omitted)
              zero == DirectoryOf(Zero)
          IN  IF \A f \in DOMAIN files : f[1][1] # omitted[1]
              THEN UNCHANGED <<reports, places>> /\ Stop("raised")
              ELSE /\ Report("identity-invariant",
                             IF Failed(Omitted) \/ Failed(Zero) THEN <<"skipped">>
                             ELSE <<"compared", SameAudio(omitted, zero, "sample"),
                                    SameAudio(omitted, zero, "impulse")>>)
                   /\ Proceed
  /\ UNCHANGED <<inputs, files, faults>>

(* _point_evidence: what of a point can be read and parses.                *)
Evidence(directory, name) ==
  IF File(directory, name) = Truncated THEN None ELSE File(directory, name)

TailEvidence(d) == <<Evidence(d, "analysis"), Evidence(d, "benchmark")>>
DampingEvidence(d) == <<Evidence(d, "analysis"), Evidence(d, "sample"), Evidence(d, "benchmark")>>
ModulationEvidence(d) ==
  <<Evidence(d, "analysis"), Evidence(d, "sample"), Evidence(d, "benchmark")>>
SpatialEvidence(d) == <<Evidence(d, "analysis")>>

PointEvidence(d) ==
  CASE tool = "tail" -> TailEvidence(d)
    [] tool = "damping" -> DampingEvidence(d)
    [] tool = "modulation" -> ModulationEvidence(d)
    [] tool = "spatial" -> SpatialEvidence(d)

Control == Reference
Ablation == <<"coherent-downmix", "sum-all">>

compare_coherent_downmix ==
  /\ In("comparison")
  /\ IF /\ HasPoint(Ablation) /\ ~Failed(Ablation) /\ ~Failed(Control)
        /\ Evidence(DirectoryOf(Ablation), "analysis") # None
        /\ Evidence(DirectoryOf(Control), "analysis") # None
     THEN Report("coherent-downmix-comparison",
                 <<Evidence(DirectoryOf(Control), "analysis"),
                   Evidence(DirectoryOf(Ablation), "analysis")>>)
     ELSE UNCHANGED <<reports, places>>
  /\ Proceed
  /\ UNCHANGED <<inputs, files, faults>>

WriteStatus ==
  /\ In("status")
  /\ Report("sweep-report", [i \in DOMAIN outcomes |-> <<outcomes[i].name, outcomes[i].status>>])
  /\ Proceed
  /\ UNCHANGED <<inputs, files, faults>>

(* A section per point: its evidence unless it failed.                     *)
generate_report ==
  /\ In("listening")
  /\ Report("listening-report",
            [i \in DOMAIN outcomes |->
               <<Points[i].directory, IF outcomes[i].status = "failed" THEN << >>
                                      ELSE PointEvidence(Points[i].directory)>>])
  /\ Proceed
  /\ UNCHANGED <<inputs, files, faults>>

(* A bug: main() does not return.                                          *)
ExitFallsThrough == In("exit") /\ Proceed /\ UNCHANGED <<inputs, files, reports, places, faults>>

Exit ==
  /\ In("exit")
  /\ Stop(IF \E i \in DOMAIN outcomes : outcomes[i].status = "failed" THEN "error" ELSE "ok")
  /\ UNCHANGED <<inputs, files, reports, places, faults>>

(***************************************************************************)
(* What befalls a command, and what its user does between two runs.        *)
(***************************************************************************)
Kill ==
  /\ Running /\ faults < MaxFaults
  /\ faults' = faults + 1
  /\ Stop("killed")
  /\ UNCHANGED <<inputs, files, reports, places>>

Edit ==
  /\ ~Running /\ faults < MaxFaults
  /\ faults' = faults + 1
  /\ \/ \E c \in Catalogs(tool) : catalog' = c /\ Points' = Plan(tool, c) /\ UNCHANGED sample
     \/ sample' \in Samples /\ UNCHANGED <<catalog, Points>>
  /\ exit' = None
  /\ UNCHANGED <<tool, at, point, step, phase, newWork, outcomes, files, reports, places>>

(* "Delete the bad artifact, rerun."                                       *)
DeleteBadBenchmark ==
  /\ ~Running
  /\ \E f \in DOMAIN files :
       /\ f[2] = "benchmark" /\ files[f] = Truncated
       /\ Unlink(f[1], f[2])
  /\ UNCHANGED <<inputs, position, reports, places, faults>>

Init ==
  /\ tool \in Tools /\ catalog \in Catalogs(tool) /\ sample \in Samples
  /\ Points = Plan(tool, catalog)
  /\ at = 0 /\ point = 1 /\ step = 1 /\ phase = "check" /\ newWork = FALSE
  /\ outcomes = << >> /\ exit = None
  /\ files = << >>
  /\ reports = [r \in {"benchmark-summary", "identity-invariant", "coherent-downmix-comparison",
                       "sweep-report", "listening-report"} |-> None]
  /\ places = [r \in DOMAIN reports |-> {}]
  /\ faults = 0

Command ==
  \/ LoadCatalog \/ RequireScopes \/ RequireSample \/ MatchImpulse
  \/ CheckStep \/ WriteRequest \/ render_case \/ render_from_resolved \/ Analyze
  \/ benchmark_case \/ RepeatRender \/ CompareRepeat \/ WriteDeterminism
  \/ ChildFails \/ FinishPoint \/ FinishPoints
  \/ depth_identity_invariant \/ WriteSummary \/ compare_coherent_downmix
  \/ WriteStatus \/ generate_report \/ Exit

Next == Start \/ Command \/ Kill \/ Edit \/ DeleteBadBenchmark

(* A command that runs goes on; its user starts it again, and removes what *)
(* stops it.                                                               *)
Spec ==
  /\ Init /\ [][Next]_vars
  /\ WF_vars(Command) /\ WF_vars(Start) /\ SF_vars(DeleteBadBenchmark)

(***************************************************************************)
(* Properties.                                                             *)
(***************************************************************************)
TypeOK ==
  /\ tool \in Tools /\ catalog \in Catalogs(tool) /\ sample \in Samples
  /\ at \in 0..Len(Main)
  /\ Running => point \in 1..Len(Points) + 1
  /\ exit \in {None, "ok", "error", "skipped", "raised", "killed"}
  /\ Range(outcomes) \subseteq
       [name : {Points[i].name : i \in DOMAIN Points},
        status : {"completed", "resumed", "skipped", "failed"},
        benchmark : {None} \cup {files[f] : f \in DOMAIN files}]

(* What lies in the folder of a point is of one configuration: the impulse *)
(* is rendered from the configuration the sample's render resolved, the    *)
(* analysis is of that impulse, the benchmark and the determinism report   *)
(* of that configuration, and the Requested Configuration beside them is   *)
(* the one rendered; whatever was edited, killed or failed between the     *)
(* runs that made them.                                                    *)
PointCoherent ==
  \A f \in DOMAIN files :
    LET d == f[1]
        sampled == File(d, "sample")
    IN  files[f] # Truncated =>
        CASE f[2] = "sample" -> File(d, "request") = sampled.config
          [] f[2] = "impulse" -> sampled # None /\ files[f] = sampled
          [] f[2] = "analysis" -> files[f] = sampled
          [] f[2] \in {"benchmark", "benchmark-32"} ->
               sampled # None /\ files[f].config = sampled.config
          [] f[2] = "determinism" -> files[f] = File(d, "impulse")
          [] OTHER -> TRUE

(* A command returns 0 only when every step of every point has left its    *)
(* file, the benchmark that is ranked parses, and the summary ranks every  *)
(* measured point.                                                         *)
ExitZeroIsComplete ==
  exit = "ok" =>
    \A i \in DOMAIN Points :
      LET p == Points[i] IN
      /\ \A k \in DOMAIN Steps(p) : Has(p.directory, Steps(p)[k].makes)
      /\ File(p.directory, "benchmark") # Truncated
      /\ Has(p.directory, "benchmark") =>
           /\ reports["benchmark-summary"] # None
           /\ \E entry \in Range(reports["benchmark-summary"]) : entry.case = p.name

(* The reports of the last run that wrote them, stale or not, are true of  *)
(* the files beside them: each benchmark ranked is the one on disk, slowest*)
(* first and against the Reference on disk; the identity record and the    *)
(* Coherent Downmix comparison speak of the renders and the analyses that  *)
(* are there; the listening report shows nothing else.  A point is looked  *)
(* for where it was in the catalog of that run: an edit may have moved it. *)
ReportsTrueOfDisk ==
  LET summary == reports["benchmark-summary"]
      identity == reports["identity-invariant"]
      comparison == reports["coherent-downmix-comparison"]
      listening == reports["listening-report"]
      Where(report, name) == {place[2] : place \in {q \in places[report] : q[1] = name}}
      Measures(name, median) == \E d \in Where("benchmark-summary", name) :
        Has(d, "benchmark") /\ File(d, "benchmark").median = median
  IN  /\ summary # None =>
           /\ \A k \in DOMAIN summary :
                /\ Measures(summary[k].case, summary[k].median)
                /\ Measures(Reference, summary[k].median - summary[k].delta)
           /\ \A k \in 2..Len(summary) : summary[k - 1].median >= summary[k].median
      /\ identity \notin {None, <<"skipped">>} =>
           \E omitted \in Where("identity-invariant", Omitted) :
             \E zero \in Where("identity-invariant", Zero) :
               \A k \in 1..2 :
                 LET name == <<"sample", "impulse">>[k] IN
                 /\ Has(omitted, name) /\ Has(zero, name)
                 /\ identity[k + 1] = SameAudio(omitted, zero, name)
      /\ comparison # None =>
           \E control \in Where("coherent-downmix-comparison", Control) :
             \E ablation \in Where("coherent-downmix-comparison", Ablation) :
               comparison = <<File(control, "analysis"), File(ablation, "analysis")>>
      /\ listening # None =>
           \A i \in DOMAIN listening : \A k \in DOMAIN listening[i][2] :
             listening[i][2][k] \in {None, PointEvidence(listening[i][1])[k]}

(* A file that is whole is never written again nor removed, by the run     *)
(* that made it or by a later one: "without repeating or corrupting        *)
(* whatever earlier steps already produced".                               *)
ResumedNotRepeated ==
  [][\A f \in DOMAIN files :
       files[f] # Truncated /\ f[2] \notin {"request", "repeat"} =>
         f \in DOMAIN files' /\ files'[f] = files[f]]_vars

(* The document but for what lies under the pointer.                       *)
Shape(node) ==
  CASE node.kind = "leaf"   -> node
    [] node.kind = "array"  -> [kind |-> "array", length |-> Len(node.items)]
    [] node.kind = "object" -> [kind |-> "object"]

Without(document, pointer) ==
  [path \in {p \in PathsOf(document) : ~IsPrefix(pointer, p)} |-> Shape(_navigate(document, path))]

InScope(p) ==
  LET scope == _axis_scope(catalog, p.name) IN
  scope # None =>
    /\ p.request # catalog.reference
    /\ Without(p.request, scope) = Without(catalog.reference, scope)

(* What the spatial sweep renders differs from the Reference of its        *)
(* catalog, and only where the axis of the point says it may; and it       *)
(* refuses no point of that kind.                                          *)
RenderedInScope ==
  [][tool = "spatial" /\ InStep /\ Requested # Refused =>
       /\ <<Current.directory, "sample">> \in DOMAIN files' \ DOMAIN files => InScope(Current)
       /\ point' = point + 1 /\ step = 1 /\ faults' = faults =>
            ~(InScope(Current) /\ Readable(Current))]_vars

(* Nothing is left undone for good: once nothing is killed, fails or is    *)
(* edited any more, reruns bring every point to its end that can get there *)
(* (its configuration can be made, the sample is audio, and what was       *)
(* rendered before has its number of Channels); a point that cannot does   *)
(* not keep the others from it.                                            *)
CanComplete(p) ==
  /\ Loads /\ p.request # Refused /\ Readable(p)
  /\ tool # "diffusion" => matching_impulse(sample) # 0
  /\ tool = "spatial" => /\ \A a \in Range(catalog.axes) : "scope" \in DOMAIN a
                         /\ p.isolated
  /\ Has(p.directory, "sample") => File(p.directory, "sample").channels = ChannelsOf(p)

Completed(p) ==
  /\ \A k \in DOMAIN Steps(p) : Has(p.directory, Steps(p)[k].makes)
  /\ File(p.directory, "benchmark") # Truncated

Recovers == <>[](\A i \in DOMAIN Points : Loads /\ CanComplete(Points[i]) => Completed(Points[i]))

=============================================================================
