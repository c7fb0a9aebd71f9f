----------------------------- MODULE FolderRender -----------------------------
(***************************************************************************)
(* tools/render_folder.py: runs, one after the other, that render a folder *)
(* of sources into a destination folder through one configuration, and in  *)
(* the end copy the configuration beside the WAVs as request.json.  A run  *)
(* may fail or die at any step; between runs the raw folder changes.       *)
(*                                                                         *)
(* Audio is identified with the source and the configuration it came from. *)
(* A run's configuration is not edited while it is running.                *)
(***************************************************************************)
EXTENDS Naturals, FiniteSetsExt

CONSTANTS
  Files,             (* WAV files the raw folder may hold, in sorted order. *)
  SuffixValues,      (* Values of --suffix.                                 *)
  OutputName(_, _),  (* Of a file under a suffix, its letter case folded.   *)
  Outputs,           (* Names in the destination folder.                    *)
  Configs,
  Nothing,           (* No file, or no configuration.                       *)
  Partial,           (* A file whose write stopped half way.                *)
  MaxRuns            (* Bound of the model: runs ever started.              *)

ASSUME FolderRenderAssumption ==
  /\ Files \subseteq Nat
  /\ MaxRuns \in Nat
  /\ Nothing # Partial /\ {Nothing, Partial} \cap Configs = {}
  /\ {Nothing, Partial} \cap [source : Files, config : Configs] = {}
  /\ \A f \in Files, s \in SuffixValues : OutputName(f, s) \in Outputs

VARIABLES
  sources,     (* The raw folder.                                           *)
  wavs,        (* The destination folder's WAVs.                            *)
  request,     (* Its request.json.                                         *)
  pc,          (* idle, render, write or publish.                           *)
  runs,
  config,      (* The run's configuration, read anew by every render.       *)
  suffix, plan, todo,
  fromCopy,    (* rendering_from_the_copy.                                  *)
  rendered,    (* What the renderer made of the file at hand.               *)
  finished,    (* History: the plan, suffix and configuration of the last   *)
               (* run that succeeded, and the runs from its copy after it.  *)
  broken       (* History: whether a run from the copy has stopped midway.  *)

runVars == <<config, suffix, plan, fromCopy>>
folderVars == <<sources, wavs, request>>
historyVars == <<finished, broken>>
folderRenderVars == <<folderVars, pc, runs, runVars, todo, rendered, historyVars>>

FolderInit ==
  /\ sources \in SUBSET Files
  /\ wavs = [n \in Outputs |-> Nothing]
  /\ request = Nothing
  /\ pc = "idle" /\ runs = 0
  /\ config = Nothing /\ suffix = CHOOSE s \in SuffixValues : TRUE
  /\ plan = {} /\ todo = {} /\ fromCopy = FALSE /\ rendered = Nothing
  /\ finished = {} /\ broken = FALSE

(* The user adds, replaces or removes raw material.                        *)
ChangeSources ==
  /\ pc = "idle"
  /\ sources' \in SUBSET Files
  /\ UNCHANGED <<wavs, request, pc, runs, runVars, todo, rendered, historyVars>>

(* The check of the whole mapping before any work starts.                  *)
DistinctOutputs(s) ==
  \A f, g \in sources : f # g => OutputName(f, s) # OutputName(g, s)

Prepared(s) ==
  /\ pc = "idle" /\ runs < MaxRuns
  /\ runs' = runs + 1
  /\ sources # {}
  /\ plan' = sources /\ todo' = sources
  /\ suffix' = s
  /\ pc' = "render"
  /\ UNCHANGED <<sources, wavs, rendered, historyVars>>

(* Mutant: the copy left by an earlier run stays while this one works.     *)
StartKeepingCopy(c, s) ==
  /\ DistinctOutputs(s)
  /\ Prepared(s)
  /\ config' = c /\ fromCopy' = FALSE
  /\ UNCHANGED request

(* Mutant: sources that want the same output name are not refused.         *)
StartUnchecked(c, s) ==
  /\ Prepared(s)
  /\ config' = c /\ fromCopy' = FALSE
  /\ request' = Nothing

(* main(), as far as the loop; a refused run changes nothing.              *)
StartRun(c, s) ==
  /\ DistinctOutputs(s)
  /\ Prepared(s)
  /\ config' = c /\ fromCopy' = FALSE
  /\ request' = Nothing

(* main(), given the folder's own request.json as --config.                *)
StartFromCopy(s) ==
  /\ request # Nothing
  /\ DistinctOutputs(s)
  /\ Prepared(s)
  /\ config' = request /\ fromCopy' = TRUE
  /\ UNCHANGED request

AtHand == Min(todo)

(* render_one() as far as the renderer's result: it needs the source and a *)
(* configuration it can parse.                                             *)
RenderOne ==
  /\ pc = "render" /\ todo # {}
  /\ config \in Configs
  /\ rendered' = [source |-> AtHand, config |-> config]
  /\ pc' = "write"
  /\ UNCHANGED <<folderVars, runs, runVars, todo, historyVars>>

(* Mutant: the loop does not go on to the next source.                     *)
WriteWavAgain ==
  /\ pc = "write"
  /\ wavs' = [wavs EXCEPT ![OutputName(AtHand, suffix)] = rendered]
  /\ todo' = todo \ {AtHand}
  /\ UNCHANGED <<sources, request, pc, runs, runVars, rendered, historyVars>>

(* write_pcm_wav(): over whatever has that name.                           *)
WriteWav ==
  /\ pc = "write"
  /\ wavs' = [wavs EXCEPT ![OutputName(AtHand, suffix)] = rendered]
  /\ todo' = todo \ {AtHand}
  /\ pc' = "render"
  /\ UNCHANGED <<sources, request, runs, runVars, rendered, historyVars>>

(* Every render has succeeded: the configuration is copied, unless it is   *)
(* the copy.                                                               *)
Publish ==
  /\ pc = "render" /\ todo = {}
  /\ request' = IF fromCopy THEN request ELSE config
  /\ pc' = "idle"
  /\ finished' = {OutputName(f, suffix) : f \in plan} \cup
                 (IF fromCopy THEN finished ELSE {})
  /\ broken' = (fromCopy /\ broken)
  /\ UNCHANGED <<sources, wavs, runs, runVars, todo, rendered>>

(* A render or a write fails, or the process dies: fail fast, with no      *)
(* undoing, and half a file where one was being written.                   *)
StopRun ==
  /\ pc # "idle"
  /\ pc' = "idle"
  /\ \/ UNCHANGED <<wavs, request>>
     \/ /\ pc = "write"
        /\ wavs' = [wavs EXCEPT ![OutputName(AtHand, suffix)] = Partial]
        /\ UNCHANGED request
     \/ /\ pc = "render" /\ todo = {} /\ ~fromCopy
        /\ request' = Partial
        /\ UNCHANGED wavs
  /\ broken' = (broken \/ fromCopy)
  /\ UNCHANGED <<sources, runs, runVars, todo, rendered, finished>>

FolderNext ==
  \/ ChangeSources
  \/ \E s \in SuffixValues : StartFromCopy(s) \/ \E c \in Configs : StartRun(c, s)
  \/ RenderOne \/ WriteWav \/ Publish
  \/ StopRun

FolderSpec == FolderInit /\ [][FolderNext]_folderRenderVars

----------------------------------------------------------------------------
(* Properties *)

FolderTypeOK ==
  /\ sources \subseteq Files /\ plan \subseteq Files /\ todo \subseteq plan
  /\ pc \in {"idle", "render", "write"}
  /\ pc = "write" => todo # {}
  /\ request \in Configs \cup {Nothing, Partial}
  /\ \A n \in Outputs : wavs[n] \in {Nothing, Partial} \cup [source : Files, config : Configs]

(* request.json never names another configuration than that of the WAVs    *)
(* it was published for, however many runs failed since, even while runs   *)
(* from the copy itself are replacing them (render_folder.py:267-271).     *)
(* Only such a run can have left one of them incomplete.                   *)
RequestDescribesItsRun ==
  request \in Configs => \A n \in finished :
    IF wavs[n] \in {Nothing, Partial} THEN wavs[n] = Partial /\ broken
                                   ELSE wavs[n].config = request

(* A run that gets to its end has rendered every source of its plan, and   *)
(* none over another (render_folder.py:236-241).                           *)
PlanComplete ==
  pc = "render" /\ todo = {} =>
    \A f \in plan : wavs[OutputName(f, suffix)] = [source |-> f, config |-> config]

(* "its presence means the folder is complete and describes the WAVs       *)
(* actually beside it" (render_folder.py:302-303).                         *)
PresenceMeansComplete ==
  pc = "idle" /\ request \in Configs =>
    \A n \in Outputs : wavs[n] # Nothing =>
      wavs[n] # Partial /\ wavs[n].config = request

=============================================================================
