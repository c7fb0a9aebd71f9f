------------------------------ MODULE Analyzers ------------------------------
(***************************************************************************)
(* The analyzers of tools/analyze_*.py at work on one Render Result: each  *)
(* verifies the result against the source it was rendered from, against    *)
(* its own metadata and its manifest of Stage captures, and publishes its  *)
(* evidence beside it (ArtifactPublication).  Meanwhile files of the       *)
(* result may be replaced, lost, or edited by hand.                        *)
(*                                                                         *)
(* A file of audio is the hash of its content and its number of frames     *)
(* (which stands for its Channels and sample rate too: they are compared   *)
(* together).  Hashing a file and reading it are one step, as is all an    *)
(* analyzer reads after the first file it opens.                           *)
(***************************************************************************)
EXTENDS ArtifactPublication, Integers, FiniteSets, SequencesExt

CONSTANTS Renders,        \* the renders a result may come from
          OtherMeasured,  \* what any other output measures
          Lost,           \* a file that is not there
          MaxFrames,      \* bound: frames of a result
          MaxChanges      \* bound: changes made to the files

Tools == {"baseline", "identity", "diffusion", "downmix", "early-support",
          "tail-v1", "tail-v2", "modulation"}

(* analyze_render.py publishes baseline-v1 with --source and without.      *)
ArtifactName(t) == IF t = "identity" THEN "baseline" ELSE t

InputFrames == 2

(* Files by what the renderer put in them, and what else may be there.     *)
Captures == {"split", "step-0", "step-1", "main-stereo", "early-stereo"}
Hashes == {"source", "output", "other"} \cup Captures
Audio == [sha : Hashes, frames : Nat]

Owners == {"feedback-loop", "step-0", "step-1"}

(* What there may be to publish.                                           *)
Evidences ==
  [tool : Tools, source : Hashes \cup {None}, files : SUBSET (Hashes \X Hashes),
   frames : 0..MaxFrames, finite : BOOLEAN, active : SUBSET Owners,
   misshapen : SUBSET {"damping", "modulation"},
   measured : {r.measured : r \in Renders} \cup {OtherMeasured}]

(* The shapes of the Composition (ResolveConfig.cpp:1387-1417).            *)
Shapes == {<< >>, <<"split", "diffuser", "downmix">>, <<"split", "feedback-loop", "downmix">>,
           <<"split", "diffuser", "feedback-loop", "downmix">>}

(* Captures, Pre-delay and Early taps are not for the empty Composition,   *)
(* and Early taps need a Diffuser to tap (ResolveConfig.cpp:2887-2929,     *)
(* 3098-3103; main.cpp:525).                                               *)
ASSUME AnalyzersAssumption ==
  /\ Contents = Evidences /\ MaxFrames \in Nat
  /\ None \notin Tools /\ Lost \notin Audio
  /\ \A t \in Tools : ArtifactName(t) \in Names
  /\ \A r \in Renders :
       /\ r.stages \in Shapes /\ r.preDelay \in Nat /\ InputFrames + r.preDelay + 2 <= MaxFrames
       /\ r.captured \in BOOLEAN /\ r.finite \in BOOLEAN /\ r.taps \subseteq {"step-0", "step-1"}
       /\ r.stages = << >> => r.preDelay = 0 /\ ~r.captured
       /\ r.taps # {} => "diffuser" \in ToSet(r.stages)
       /\ r.analyzers \subseteq Tools /\ DOMAIN r.modulation \subseteq Owners

VARIABLES render,    \* the render the result comes from: its request
          resolved,  \* "sound", or the object that was edited by hand
          file,      \* file[f]: the audio in a file of the result, or Lost
          tool,      \* tool[w]: the analyzer the process runs, or None
          seen,      \* seen[w]: the first file it read, as it was
          changes    \* the changes made so far

resultVars == <<render, resolved, file, changes>>
analyzerVars == <<publicationVars, resultVars, tool, seen>>

-----------------------------------------------------------------------------
(* The Render Result, as the renderer wrote it.                            *)
TotalSamples == IF "diffuser" \in ToSet(render.stages) THEN 1 ELSE 0
TailBudgetFrames ==
  TotalSamples + (IF "feedback-loop" \in ToSet(render.stages) THEN 1 ELSE 0)

(* The metadata's frames: the renderer drains the complete response.       *)
Frames == InputFrames + render.preDelay + TailBudgetFrames

Steps(stages) == IF "diffuser" \in ToSet(stages) THEN {"step-0", "step-1"} ELSE {}

(* The manifest of Stage captures; none without --capture-stages all.      *)
StageCaptures(r) ==
  IF ~r.captured THEN {}
  ELSE {"split", "main-stereo"} \cup Steps(r.stages)
         \cup (IF r.taps # {} THEN {"early-stereo"} ELSE {})

(* Where the Split capture is not zero: Pre-delay comes before Split.      *)
Onset == IF render.impulse THEN {render.preDelay} ELSE {render.preDelay, render.preDelay + 1}

Written(f) == [sha |-> f, frames |-> IF f = "source" THEN InputFrames ELSE Frames]

Finite(audio) == render.finite \/ audio.sha \notin {"output", "main-stereo"}

-----------------------------------------------------------------------------
(* What the analyzers verify; s is the result's files as one has read them.*)
source_verified(s) == /\ s["source"] # Lost
                      /\ s["source"].sha = "source"
                      /\ s["source"].frames = InputFrames

output_matches(s) == s["output"] # Lost /\ s["output"].frames = Frames

(* A bug: the manifest is believed.                                        *)
UnhashedCapture(s, capture, expectedFrames) ==
  s[capture] # Lost /\ s[capture].frames = expectedFrames

verified_capture(s, capture, expectedFrames) ==
  /\ s[capture] # Lost
  /\ s[capture].sha = capture
  /\ s[capture].frames = Written(capture).frames
  /\ s[capture].frames = expectedFrames

identity_analysis(s) == /\ s["source"] # Lost
                        /\ s["source"].sha = "source"
                        /\ s["source"].frames = s["output"].frames
                        /\ Finite(s["output"])

analyze_render(s, withSource) ==
  /\ output_matches(s)
  /\ withSource => identity_analysis(s)

(* A bug: Pre-delay's own drain is forgotten.                              *)
analyze_diffusion_undelayed(s) ==
  /\ source_verified(s)
  /\ output_matches(s)
  /\ render.stages = <<"split", "diffuser", "downmix">>
  /\ Frames = InputFrames + TotalSamples
  /\ StageCaptures(render) # {}
  /\ \A capture \in StageCaptures(render) : verified_capture(s, capture, Frames)
  /\ Finite(s["output"])

analyze_diffusion(s) ==
  LET expectedFrames == InputFrames + render.preDelay + TotalSamples IN
  /\ source_verified(s)
  /\ output_matches(s)
  /\ render.stages = <<"split", "diffuser", "downmix">>
  /\ Frames = expectedFrames
  /\ StageCaptures(render) # {}
  /\ \A capture \in StageCaptures(render) : verified_capture(s, capture, expectedFrames)
  /\ {"split"} \cup Steps(render.stages) \subseteq StageCaptures(render)
  /\ Finite(s["output"])

(* The source is decoded once more for the dry contribution; what was      *)
(* rendered is the only output that is the sum of its parts.               *)
analyze_downmix(s) ==
  LET expectedFrames == InputFrames + render.preDelay + TailBudgetFrames IN
  /\ source_verified(s)
  /\ output_matches(s)
  /\ Frames = expectedFrames
  /\ render.stages # << >> /\ Last(render.stages) = "downmix"
  /\ StageCaptures(render) # {}
  /\ \A capture \in StageCaptures(render) : verified_capture(s, capture, expectedFrames)
  /\ "main-stereo" \in StageCaptures(render)
  /\ Finite(s["main-stereo"]) /\ Finite(s["output"])
  /\ s["output"].sha = "output"
  /\ ~render.wetOnly => file["source"] # Lost /\ file["source"].sha = "source"

verify_frame_zero_impulse(s) ==
  /\ "split" \in StageCaptures(render)
  /\ verified_capture(s, "split", Frames)
  /\ Onset = {0}

analyze_early_support(s) ==
  /\ render.taps # {}
  /\ verify_frame_zero_impulse(s)
  /\ \A step \in render.taps : /\ step \in StageCaptures(render)
                               /\ verified_capture(s, step, Frames)

locate_feedback_loop(stages) ==
  stages \in {<<"split", "feedback-loop", "downmix">>,
              <<"split", "diffuser", "feedback-loop", "downmix">>}

complete_response ==
  LET expectedFrames == InputFrames + render.preDelay + TailBudgetFrames IN
  IF render.silenceFloor THEN Frames <= expectedFrames ELSE Frames = expectedFrames

analyze_tail(s) == /\ source_verified(s)
                   /\ locate_feedback_loop(render.stages)
                   /\ output_matches(s)
                   /\ complete_response

validate_damping_shape(object) == object # "damping"

analyze_tail_v2(s) == /\ source_verified(s)
                      /\ locate_feedback_loop(render.stages)
                      /\ validate_damping_shape(resolved)
                      /\ output_matches(s)
                      /\ complete_response

validate_modulation_shape(object) == object # "modulation"

(* A Modulation that moves no Channel is not active.                       *)
collect_active_modulations == {owner \in DOMAIN render.modulation : render.modulation[owner]}

analyze_modulation(s) == /\ source_verified(s)
                         /\ locate_feedback_loop(render.stages)
                         /\ validate_damping_shape(resolved)
                         /\ validate_modulation_shape(resolved)
                         /\ output_matches(s)
                         /\ complete_response

Accepts(t, s) == CASE t = "baseline"      -> analyze_render(s, FALSE)
                   [] t = "identity"      -> analyze_render(s, TRUE)
                   [] t = "diffusion"     -> analyze_diffusion(s)
                   [] t = "downmix"       -> analyze_downmix(s)
                   [] t = "early-support" -> analyze_early_support(s)
                   [] t = "tail-v1"       -> analyze_tail(s)
                   [] t = "tail-v2"       -> analyze_tail_v2(s)
                   [] t = "modulation"    -> analyze_modulation(s)

(* What the evidence is computed from, and what it says.                   *)
Measures(t) ==
  CASE t = "diffusion"     -> {"split", "output"} \cup Steps(render.stages)
    [] t = "downmix"       -> {"output"} \cup (StageCaptures(render) \ {"split"})
    [] t = "early-support" -> render.taps
    [] OTHER               -> {"output"}

Uses(t) == CASE t = "tail-v2"    -> {"damping"}
             [] t = "modulation" -> {"damping", "modulation"}
             [] OTHER            -> {}

Evidence(t, s) ==
  [tool     |-> t,
   source   |-> IF t \in {"baseline", "early-support"} THEN None ELSE s["source"].sha,
   files    |-> {<<f, s[f].sha>> : f \in Measures(t)},
   frames   |-> Frames,
   finite   |-> \A f \in Measures(t) : Finite(s[f]),
   active   |-> IF t = "modulation" THEN collect_active_modulations ELSE {},
   misshapen |-> {resolved} \cap Uses(t),
   measured |-> IF s["output"] = Lost \/ s["output"].sha # "output"
                THEN OtherMeasured ELSE render.measured]

-----------------------------------------------------------------------------
AnalyzerInit ==
  /\ PublicationInit
  /\ render \in Renders
  /\ resolved = "sound"
  /\ file = [f \in {"source", "output"} \cup StageCaptures(render) |-> Written(f)]
  /\ tool = [w \in Workers |-> None]
  /\ seen = [w \in Workers |-> None]
  /\ changes = 0

(* analyze_render.py opens the output first, the others the source.        *)
First(t) == IF t \in {"baseline", "identity"} THEN "output" ELSE "source"

Start(w, t) == /\ pc[w] = "idle" /\ tool[w] = None
               /\ tool' = [tool EXCEPT ![w] = t]
               /\ seen' = [seen EXCEPT ![w] = file[First(t)]]
               /\ UNCHANGED <<publicationVars, resultVars>>

Analyze(w) ==
  LET s == [file EXCEPT ![First(tool[w])] = seen[w]] IN
  /\ tool[w] # None
  /\ IF Accepts(tool[w], s)
     THEN Offer(w, [name |-> ArtifactName(tool[w]), content |-> Evidence(tool[w], s)])
     ELSE Refuse(w)
  /\ UNCHANGED <<resultVars, tool, seen>>

Publish(w) == /\ publish_artifact(w) \/ Fail(w) \/ (tool[w] # None /\ Kill(w))
              /\ UNCHANGED <<resultVars, tool, seen>>

(* Someone replaces or removes a file, or edits resolved.json.             *)
Replace(f, audio) == /\ changes < MaxChanges
                     /\ changes' = changes + 1
                     /\ file' = [file EXCEPT ![f] = audio]
                     /\ UNCHANGED <<publicationVars, render, resolved, tool, seen>>

EditResolved(object) == /\ changes < MaxChanges
                        /\ changes' = changes + 1
                        /\ resolved' = object
                        /\ UNCHANGED <<publicationVars, render, file, tool, seen>>

Others(f) == {Lost} \cup [sha : {"other"}, frames : {Written(f).frames, Written(f).frames + 1}]

AnalyzerNext ==
  \/ \E w \in Workers : (\E t \in render.analyzers : Start(w, t)) \/ Analyze(w) \/ Publish(w)
  \/ \E f \in DOMAIN file : \E audio \in Others(f) : Replace(f, audio)
  \/ \E object \in {"damping", "modulation"} : EditResolved(object)

-----------------------------------------------------------------------------
(* Evidence on the disk is evidence of this render, whatever was replaced  *)
(* before, while or after it was computed: it names the source that was    *)
(* rendered, any Stage capture it measured is the one rendered, the        *)
(* Downmix evidence is of the output rendered as well, and nothing was     *)
(* predicted from an object edited out of shape.                           *)
EvidenceOfThisRender ==
  \A name \in Names : artifact[name] # None =>
    LET e == artifact[name] IN
    /\ e.source \in {"source", None}
    /\ \A measured \in e.files :
         measured[1] # "output" \/ name = "downmix" => measured[2] = measured[1]
    /\ e.misshapen = {}
    /\ e.finite \/ name \notin {"diffusion", "downmix"}

(* The renders each analyzer is for.                                       *)
InScope(t) ==
  CASE t = "baseline"      -> TRUE
    [] t = "identity"      -> render.stages = << >> /\ render.finite
    [] t = "diffusion"     -> /\ render.stages = <<"split", "diffuser", "downmix">>
                              /\ render.captured /\ render.finite
    [] t = "downmix"       -> render.captured /\ render.finite
    [] t = "early-support" -> /\ render.taps # {} /\ render.captured
                              /\ render.impulse /\ render.preDelay = 0
    [] OTHER               -> "feedback-loop" \in ToSet(render.stages)

(* No analyzer refuses what the renderer wrote, of any shape it is for:    *)
(* with Pre-delay, Early taps, a dry signal or a silence floor; the frames *)
(* each expects are the frames the renderer drains.                        *)
UntouchedIsAnalyzed ==
  \A w \in Workers :
    pc[w] = "done" /\ offer[w] = None /\ changes = 0 => ~InScope(tool[w])

=============================================================================
