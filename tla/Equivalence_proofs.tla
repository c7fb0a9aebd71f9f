-------------------------- MODULE Equivalence_proofs --------------------------
(***************************************************************************)
(* Proofs about the publication of artifacts (ArtifactPublication), for    *)
(* any number of processes and of artifacts, and about the analyzers that  *)
(* publish in a Render Result (Analyzers), in the job that then compares   *)
(* platforms (Equivalence): for any renders and any changes made to the    *)
(* files meanwhile.                                                        *)
(*                                                                         *)
(* What a reader relies on is said of an artifact's name and content alone *)
(* (Sound).  It is established where an analyzer accepts the files it has  *)
(* read, and is only carried along from there: by the offer, its temporary *)
(* file and its artifact.                                                  *)
(*                                                                         *)
(* What the comparison of the platforms says is shown to be a function of  *)
(* the set of the entries compared (VerdictOf, ComparisonOf), which is why *)
(* it does not depend on their order; and what passes is shown to hold of  *)
(* every two, through the baseline where there is one.                     *)
(***************************************************************************)
EXTENDS Equivalence, FiniteSetTheorems, WellFoundedInduction, TLAPS

USE PublicationAssumption

----------------------------------------------------------------------------
(* Publication by itself, with failures and crashes at any step, on a      *)
(* system with hard links and on one without.                              *)

(* What an analyzer has to publish is never None, nor is its content.      *)
LEMMA OfferTyped ==
  ASSUME PublicationTypeOK, NEW w \in Workers, offer[w] # None
  PROVE  /\ offer[w] \in Offers
         /\ offer[w].name \in Names
         /\ offer[w].content \in Contents
         /\ offer[w].content # None
         /\ offer[w].content # Partial
         /\ Held(w) \in Contents \cup {None}
         /\ Verdict(w) \in {"kept", "refused"}
<1>1. offer[w] \in Offers  BY DEF PublicationTypeOK
<1>2. offer[w].name \in Names /\ offer[w].content \in Contents  BY <1>1 DEF Offers
<1>3. Held(w) \in Contents \cup {None}  BY <1>2 DEF Held, PublicationTypeOK
<1> QED BY <1>1, <1>2, <1>3 DEF Verdict

LEMMA InitPublicationInv == PublicationInit => PublicationInv
  BY DEF PublicationInit, PublicationInv, PublicationTypeOK, OnlyTheDeadLeaveTemporaries,
         KeptIsHeld, StepsInOrder

(* A step of one process leaves what the others have where it is.          *)
LEMMA StepPublicationInv ==
  PublicationInv /\ [PublicationNext]_publicationVars => PublicationInv'
<1> SUFFICES ASSUME PublicationInv, [PublicationNext]_publicationVars
             PROVE  PublicationInv'
  OBVIOUS
<1> USE DEF PublicationInv
<1>1. CASE UNCHANGED publicationVars
  BY <1>1 DEF publicationVars, PublicationTypeOK, OnlyTheDeadLeaveTemporaries, KeptIsHeld,
              StepsInOrder, Held
<1>2. ASSUME NEW w \in Workers, NEW o \in Offers, Offer(w, o)
      PROVE  PublicationInv'
  <2>1. PublicationTypeOK'  BY <1>2 DEF Offer, PublicationTypeOK
  <2>2. OnlyTheDeadLeaveTemporaries'
    BY <1>2 DEF Offer, OnlyTheDeadLeaveTemporaries, PublicationTypeOK
  <2>3. KeptIsHeld'
    BY <1>2 DEF Offer, KeptIsHeld, StepsInOrder, Held, PublicationTypeOK
  <2>4. StepsInOrder'
    <3>1. o # None  BY DEF Offers
    <3> QED BY <1>2, <3>1 DEF Offer, StepsInOrder, PublicationTypeOK
  <2> QED BY <2>1, <2>2, <2>3, <2>4
<1>3. ASSUME NEW w \in Workers, Refuse(w)
      PROVE  PublicationInv'
  BY <1>3 DEF Refuse, PublicationTypeOK, OnlyTheDeadLeaveTemporaries, KeptIsHeld,
              StepsInOrder, Held
<1>4. ASSUME NEW w \in Workers, FindExisting(w)
      PROVE  PublicationInv'
  <2>1. offer[w] # None  BY <1>4 DEF FindExisting, StepsInOrder
  <2>2. Verdict(w) \in {"kept", "refused"}  BY <2>1, OfferTyped
  <2>3. PublicationTypeOK'  BY <1>4, <2>2 DEF FindExisting, PublicationTypeOK
  <2>4. OnlyTheDeadLeaveTemporaries'
    BY <1>4 DEF FindExisting, OnlyTheDeadLeaveTemporaries, StepsInOrder, PublicationTypeOK
  <2>5. KeptIsHeld'
    BY <1>4, <2>1 DEF FindExisting, KeptIsHeld, Held, Verdict, PublicationTypeOK
  <2>6. StepsInOrder'  BY <1>4 DEF FindExisting, StepsInOrder, PublicationTypeOK
  <2> QED BY <2>3, <2>4, <2>5, <2>6
<1>5. ASSUME NEW w \in Workers, MakeTemporary(w)
      PROVE  PublicationInv'
  BY <1>5 DEF MakeTemporary, PublicationTypeOK, OnlyTheDeadLeaveTemporaries, KeptIsHeld,
              StepsInOrder, Held
<1>6. ASSUME NEW w \in Workers, Write(w)
      PROVE  PublicationInv'
  <2>1. offer[w] # None  BY <1>6 DEF Write, StepsInOrder
  <2>2. offer[w].content \in Contents  BY <2>1, OfferTyped
  <2> QED BY <1>6, <2>2 DEF Write, PublicationTypeOK, OnlyTheDeadLeaveTemporaries, KeptIsHeld,
                            StepsInOrder, Held
<1>7. ASSUME NEW w \in Workers, Link(w)
      PROVE  PublicationInv'
  <2>1. offer[w] # None /\ temporary[w] = offer[w].content
    BY <1>7 DEF Link, StepsInOrder
  <2>2. offer[w].content \in Contents /\ offer[w].name \in Names /\ offer[w].content # None
    BY <2>1, OfferTyped
  <2>3. PublicationTypeOK'  BY <1>7, <2>1, <2>2 DEF Link, PublicationTypeOK
  <2>4. OnlyTheDeadLeaveTemporaries'
    BY <1>7 DEF Link, OnlyTheDeadLeaveTemporaries, PublicationTypeOK
  <2>5. KeptIsHeld'
    <3> SUFFICES ASSUME NEW v \in Workers, outcome'[v] = "kept"
                 PROVE  (offer[v] # None /\ Held(v) = offer[v].content)'
      BY DEF KeptIsHeld
    <3>1. CASE v = w
      BY <1>7, <2>1, <2>2, <3>1 DEF Link, Held, PublicationTypeOK
    <3>2. CASE v # w
      <4>1. outcome[v] = "kept"  BY <1>7, <3>2 DEF Link, PublicationTypeOK
      <4>2. offer[v] # None /\ Held(v) = offer[v].content  BY <4>1 DEF KeptIsHeld
      <4>3. offer[v].content # None  BY <4>2, OfferTyped
      <4>4. offer[v].name # offer[w].name  BY <1>7, <4>2, <4>3 DEF Link, Held
      <4> QED BY <1>7, <4>2, <4>4 DEF Link, Held, PublicationTypeOK
    <3> QED BY <3>1, <3>2
  <2>6. StepsInOrder'
    <3> SUFFICES ASSUME NEW v \in Workers
                 PROVE  /\ pc'[v] = "idle" => offer'[v] = None
                        /\ pc'[v] \in {"publish", "write", "link"}
                             => offer'[v] # None /\ outcome'[v] = None
                        /\ pc'[v] \in {"idle", "publish"}
                             => outcome'[v] = None /\ temporary'[v] = None
                        /\ pc'[v] = "link" => temporary'[v] = offer'[v].content
      BY DEF StepsInOrder
    <3>1. CASE v = w  BY <1>7, <3>1 DEF Link, PublicationTypeOK
    <3>2. CASE v # w
      <4>1. pc'[v] = pc[v] /\ offer'[v] = offer[v] /\ outcome'[v] = outcome[v]
            /\ temporary'[v] = temporary[v]
        BY <1>7, <3>2 DEF Link, PublicationTypeOK
      <4> QED BY <4>1 DEF StepsInOrder
    <3> QED BY <3>1, <3>2
  <2> QED BY <2>3, <2>4, <2>5, <2>6
<1>8. ASSUME NEW w \in Workers, LinkExists(w)
      PROVE  PublicationInv'
  <2>1. offer[w] # None  BY <1>8 DEF LinkExists, StepsInOrder
  <2>2. Verdict(w) \in {"kept", "refused"}  BY <2>1, OfferTyped
  <2>3. PublicationTypeOK'  BY <1>8, <2>2 DEF LinkExists, PublicationTypeOK
  <2>4. OnlyTheDeadLeaveTemporaries'
    BY <1>8 DEF LinkExists, OnlyTheDeadLeaveTemporaries, PublicationTypeOK
  <2>5. KeptIsHeld'
    BY <1>8, <2>1 DEF LinkExists, KeptIsHeld, Held, Verdict, PublicationTypeOK
  <2>6. StepsInOrder'  BY <1>8 DEF LinkExists, StepsInOrder, PublicationTypeOK
  <2> QED BY <2>3, <2>4, <2>5, <2>6
<1>9. ASSUME NEW w \in Workers, Unlink(w)
      PROVE  PublicationInv'
  BY <1>9 DEF Unlink, PublicationTypeOK, OnlyTheDeadLeaveTemporaries, KeptIsHeld,
              StepsInOrder, Held
<1>10. ASSUME NEW w \in Workers, Fail(w)
       PROVE  PublicationInv'
  BY <1>10 DEF Fail, PublicationTypeOK, OnlyTheDeadLeaveTemporaries, KeptIsHeld,
               StepsInOrder, Held
<1>11. ASSUME NEW w \in Workers, Kill(w)
       PROVE  PublicationInv'
  BY <1>11 DEF Kill, PublicationTypeOK, OnlyTheDeadLeaveTemporaries, KeptIsHeld,
               StepsInOrder, Held
<1> QED
  BY <1>1, <1>2, <1>3, <1>4, <1>5, <1>6, <1>7, <1>8, <1>9, <1>10, <1>11
  DEF PublicationNext, publish_artifact

(* The accounts hold of every run of any number of analyzers: types, that  *)
(* temporaries of those that ended are gone, and that what was said to be  *)
(* published is there.                                                     *)
THEOREM PublicationAccounts == PublicationSpec => []PublicationInv
<1> QED BY InitPublicationInv, StepPublicationInv, PTL DEF PublicationSpec

(* Only an analyzer that was killed leaves a temporary file behind.        *)
THEOREM TemporariesAreRemoved == PublicationSpec => []OnlyTheDeadLeaveTemporaries
<1>1. PublicationInv => OnlyTheDeadLeaveTemporaries  BY DEF PublicationInv
<1> QED BY <1>1, PublicationAccounts, PTL

LEMMA InitStore == PublicationInit => Store!Init
  BY DEF PublicationInit, Store!Init

(* Each step is one of the store's, or none of its business.               *)
LEMMA StepStore ==
  PublicationInv /\ [PublicationNext]_publicationVars => [Store!Next]_Store!vars
<1> SUFFICES ASSUME PublicationInv, [PublicationNext]_publicationVars
             PROVE  [Store!Next]_Store!vars
  OBVIOUS
<1>1. CASE UNCHANGED publicationVars  BY <1>1 DEF publicationVars, Store!vars
<1>2. ASSUME NEW w \in Workers, NEW o \in Offers, Offer(w, o)
      PROVE  Store!Next
  <2>1. offer[w] = None  BY <1>2 DEF Offer, PublicationInv, StepsInOrder
  <2>2. offer'[w] = o  BY <1>2 DEF Offer, PublicationInv, PublicationTypeOK
  <2>3. Store!Offer(w)  BY <1>2, <2>1, <2>2 DEF Offer, Store!Offer, Store!Offers, Offers
  <2> QED BY <2>3 DEF Store!Next
<1>3. ASSUME NEW w \in Workers, FindExisting(w) \/ LinkExists(w)
      PROVE  Store!Next
  <2>1. offer[w] # None /\ outcome[w] = None
    BY <1>3 DEF FindExisting, LinkExists, PublicationInv, StepsInOrder
  <2>2. Store!Compare(w)
    BY <1>3, <2>1 DEF FindExisting, LinkExists, Store!Compare, Store!Waits, Held, Verdict
  <2> QED BY <2>2 DEF Store!Next
<1>4. ASSUME NEW w \in Workers, Link(w)
      PROVE  Store!Next
  <2>1. offer[w] # None /\ outcome[w] = None /\ temporary[w] = offer[w].content
    BY <1>4 DEF Link, PublicationInv, StepsInOrder
  <2>2. Store!Hold(w)  BY <1>4, <2>1 DEF Link, Store!Hold, Store!Waits, Held
  <2> QED BY <2>2 DEF Store!Next
<1>5. ASSUME NEW w \in Workers,
             Refuse(w) \/ MakeTemporary(w) \/ Write(w) \/ Unlink(w) \/ Fail(w) \/ Kill(w)
      PROVE  UNCHANGED Store!vars
  BY <1>5 DEF Refuse, MakeTemporary, Write, Unlink, Fail, Kill, Store!vars
<1> QED
  BY <1>1, <1>2, <1>3, <1>4, <1>5 DEF PublicationNext, publish_artifact

(* Publication implements the write-once store: whatever analyzers race,   *)
(* fail or die, a reader sees an artifact appear whole, once and for good. *)
THEOREM PublicationIsWriteOnce == PublicationSpec => PublishedOnce
<1> QED BY InitStore, StepStore, PublicationAccounts, PTL
        DEF PublicationSpec, PublishedOnce, Store!Spec

----------------------------------------------------------------------------
(* The analyzers.                                                          *)

USE AnalyzersAssumption

ResultFiles == {"source", "output"} \cup StageCaptures(render)

Snapshots == [ResultFiles -> Audio \cup {Lost}]

(* What is told of evidence, from the artifact alone.                      *)
Sound(name, e) ==
  /\ e.source \in {"source", None}
  /\ \A measured \in e.files :
       measured[1] # "output" \/ name = "downmix" => measured[2] = measured[1]
  /\ e.misshapen = {}
  /\ e.finite \/ name \notin {"diffusion", "downmix"}

(* The inductive invariant, in parts.  The files are those of the render,  *)
(* and an analyzer has read one of them ...                                *)
ResultKnown ==
  /\ render \in Renders
  /\ resolved \in {"sound", "damping", "modulation"}
  /\ file \in Snapshots
  /\ tool \in [Workers -> Tools \cup {None}]
  /\ seen \in [Workers -> Audio \cup {Lost, None}]
  /\ \A w \in Workers : tool[w] # None => seen[w] \in Audio \cup {Lost}
  /\ changes \in Nat

(* ... what is offered, like what is published, is sound ...               *)
OffersSound ==
  \A w \in Workers : /\ offer[w] # None => Sound(offer[w].name, offer[w].content)
                     /\ pc[w] = "unlink" => offer[w] # None

ArtifactsSound ==
  \A name \in Names : artifact[name] # None => Sound(name, artifact[name])

(* ... and as long as nothing was changed, all is as the renderer left it. *)
Untouched ==
  changes = 0 =>
    /\ resolved = "sound"
    /\ file = [f \in ResultFiles |-> Written(f)]
    /\ \A w \in Workers : tool[w] # None => seen[w] = Written(First(tool[w]))

Inv == /\ PublicationInv /\ ResultKnown /\ OffersSound /\ ArtifactsSound
       /\ Untouched /\ UntouchedIsAnalyzed

----------------------------------------------------------------------------
(* The stages of a Composition, by its shape.                              *)
LEMMA StagesKnown ==
  ASSUME NEW stages \in Shapes
  PROVE  /\ "diffuser" \in ToSet(stages) <=>
              stages \in {<<"split", "diffuser", "downmix">>,
                          <<"split", "diffuser", "feedback-loop", "downmix">>}
         /\ "feedback-loop" \in ToSet(stages) <=>
              stages \in {<<"split", "feedback-loop", "downmix">>,
                          <<"split", "diffuser", "feedback-loop", "downmix">>}
         /\ stages # << >> => Last(stages) = "downmix"
<1>1. CASE stages = << >>
  BY <1>1 DEF ToSet
<1>2. CASE stages = <<"split", "diffuser", "downmix">>
  BY <1>2 DEF ToSet, Last
<1>3. CASE stages = <<"split", "feedback-loop", "downmix">>
  BY <1>3 DEF ToSet, Last
<1>4. CASE stages = <<"split", "diffuser", "feedback-loop", "downmix">>
  BY <1>4 DEF ToSet, Last
<1> QED BY <1>1, <1>2, <1>3, <1>4 DEF Shapes

(* The renders there may be, one fact at a time.                           *)
LEMMA RenderKnown ==
  ASSUME render \in Renders
  PROVE  /\ render.stages \in Shapes
         /\ render.preDelay \in Nat /\ InputFrames + render.preDelay + 2 <= MaxFrames
         /\ render.captured \in BOOLEAN /\ render.finite \in BOOLEAN
         /\ render.taps \subseteq {"step-0", "step-1"}
         /\ render.stages = << >> => render.preDelay = 0 /\ ~render.captured
         /\ render.taps # {} => "diffuser" \in ToSet(render.stages)
         /\ render.analyzers \subseteq Tools /\ DOMAIN render.modulation \subseteq Owners
         /\ render.measured \in {r.measured : r \in Renders}
  OBVIOUS

LEMMA FramesKnown ==
  ASSUME render \in Renders
  PROVE  /\ Frames \in Nat /\ Frames \in 0..MaxFrames
         /\ Frames = InputFrames + render.preDelay + TailBudgetFrames
         /\ TotalSamples \in 0..1 /\ TailBudgetFrames \in 0..2
<1>1. TotalSamples \in 0..1 /\ TailBudgetFrames \in 0..2
  BY DEF TotalSamples, TailBudgetFrames
<1>2. render.preDelay \in Nat /\ InputFrames + render.preDelay + 2 <= MaxFrames
  BY RenderKnown
<1>3. MaxFrames \in Nat
  OBVIOUS
<1>4. Frames = InputFrames + render.preDelay + TailBudgetFrames
  BY DEF Frames
<1> QED BY <1>1, <1>2, <1>3, <1>4 DEF InputFrames

(* Every file of the result is one a hash is known of.                     *)
LEMMA FilesKnown ==
  ASSUME render \in Renders
  PROVE  /\ StageCaptures(render) \subseteq Captures
         /\ ResultFiles \subseteq Hashes
         /\ "output" \notin StageCaptures(render) /\ "source" \notin StageCaptures(render)
         /\ \A f \in ResultFiles : Written(f) \in Audio
<1>1. StageCaptures(render) \subseteq Captures
  BY DEF StageCaptures, Steps, Captures
<1>2. ResultFiles \subseteq Hashes
  BY <1>1 DEF ResultFiles, Hashes
<1>3. Frames \in Nat /\ InputFrames \in Nat
  BY FramesKnown DEF InputFrames
<1>4. \A f \in ResultFiles : Written(f) \in Audio
  BY <1>2, <1>3 DEF Written, Audio
<1> QED BY <1>1, <1>2, <1>4 DEF Captures

----------------------------------------------------------------------------
(* What an analyzer measures, once it has accepted: files it has read, all *)
(* but the output by the hash the renderer recorded.                       *)
LEMMA MeasuredKnown ==
  ASSUME render \in Renders, NEW s \in Snapshots, NEW t \in Tools, Accepts(t, s)
  PROVE  \A f \in Measures(t) :
           /\ f \in ResultFiles /\ s[f] \in Audio /\ f \in Hashes
           /\ f # "output" \/ t = "downmix" => s[f].sha = f
<1>1. /\ StageCaptures(render) \subseteq ResultFiles /\ "output" \in ResultFiles
      /\ ResultFiles \subseteq Hashes /\ "output" \notin StageCaptures(render)
  BY FilesKnown DEF ResultFiles
<1>2. \A f \in ResultFiles : s[f] # Lost => s[f] \in Audio
  BY DEF Snapshots
<1>3. \A capture \in StageCaptures(render), n \in Int :
        verified_capture(s, capture, n) => s[capture] \in Audio /\ s[capture].sha = capture
  BY <1>1, <1>2 DEF verified_capture
<1>4. output_matches(s) => s["output"] \in Audio
  BY <1>1, <1>2 DEF output_matches
<1>5. /\ Frames \in Int /\ InputFrames + render.preDelay + TotalSamples \in Int
      /\ InputFrames + render.preDelay + TailBudgetFrames \in Int
  BY FramesKnown, RenderKnown DEF InputFrames
<1>6. CASE t = "diffusion"
  <2>1. analyze_diffusion(s)
    BY <1>6 DEF Accepts
  <2>2. Measures(t) = {"split", "output"} \cup Steps(render.stages)
    BY <1>6 DEF Measures
  <2>3. /\ output_matches(s)
        /\ {"split"} \cup Steps(render.stages) \subseteq StageCaptures(render)
        /\ \A capture \in StageCaptures(render) :
             s[capture] \in Audio /\ s[capture].sha = capture
    BY <1>3, <1>5, <2>1 DEF analyze_diffusion
  <2> QED BY <1>1, <1>4, <1>6, <2>2, <2>3
<1>7. CASE t = "downmix"
  <2>1. analyze_downmix(s)
    BY <1>7 DEF Accepts
  <2>2. Measures(t) = {"output"} \cup (StageCaptures(render) \ {"split"})
    BY <1>7 DEF Measures
  <2>3. /\ output_matches(s) /\ s["output"].sha = "output"
        /\ \A capture \in StageCaptures(render) :
             s[capture] \in Audio /\ s[capture].sha = capture
    BY <1>3, <1>5, <2>1 DEF analyze_downmix
  <2> QED BY <1>1, <1>4, <2>2, <2>3
<1>8. CASE t = "early-support"
  <2>1. analyze_early_support(s)
    BY <1>8 DEF Accepts
  <2>2. Measures(t) = render.taps
    BY <1>8 DEF Measures
  <2>3. \A step \in render.taps :
          step \in StageCaptures(render) /\ s[step] \in Audio /\ s[step].sha = step
    BY <1>3, <1>5, <2>1 DEF analyze_early_support
  <2> QED BY <1>1, <2>2, <2>3
<1>9. CASE t \in {"baseline", "identity", "tail-v1", "tail-v2", "modulation"}
  <2>1. output_matches(s)
    BY <1>9 DEF Accepts, analyze_render, analyze_tail, analyze_tail_v2, analyze_modulation
  <2>2. Measures(t) = {"output"}
    BY <1>9 DEF Measures
  <2> QED BY <1>1, <1>4, <1>9, <2>1, <2>2
<1> QED BY <1>6, <1>7, <1>8, <1>9 DEF Tools

(* What is accepted gives evidence that can be published, and is sound.    *)
LEMMA AcceptedIsSound ==
  ASSUME render \in Renders, resolved \in {"sound", "damping", "modulation"},
         NEW s \in Snapshots, NEW t \in Tools, Accepts(t, s)
  PROVE  /\ Evidence(t, s) \in Contents
         /\ Sound(ArtifactName(t), Evidence(t, s))
<1> DEFINE e == Evidence(t, s)
<1>1. \A f \in Measures(t) :
        /\ f \in ResultFiles /\ s[f] \in Audio /\ f \in Hashes
        /\ f # "output" \/ t = "downmix" => s[f].sha = f
  BY MeasuredKnown
<1>2. t \notin {"baseline", "early-support"} => s["source"] # Lost /\ s["source"].sha = "source"
  <2>1. CASE t = "identity"
    BY <2>1 DEF Accepts, analyze_render, identity_analysis
  <2>2. CASE t = "diffusion"
    BY <2>2 DEF Accepts, analyze_diffusion, source_verified
  <2>3. CASE t = "downmix"
    BY <2>3 DEF Accepts, analyze_downmix, source_verified
  <2>4. CASE t \in {"tail-v1", "tail-v2", "modulation"}
    BY <2>4 DEF Accepts, analyze_tail, analyze_tail_v2, analyze_modulation, source_verified
  <2> QED BY <2>1, <2>2, <2>3, <2>4 DEF Tools
<1>3. e.source \in {"source", None} /\ e.source \in Hashes \cup {None}
  <2>1. e.source = IF t \in {"baseline", "early-support"} THEN None ELSE s["source"].sha
    BY DEF Evidence
  <2> QED BY <1>2, <2>1 DEF Hashes
<1>4. /\ e.files \in SUBSET (Hashes \X Hashes)
      /\ \A measured \in e.files :
           measured[1] # "output" \/ t = "downmix" => measured[2] = measured[1]
  <2>1. e.files = {<<f, s[f].sha>> : f \in Measures(t)}
    BY DEF Evidence
  <2>2. \A f \in Measures(t) : s[f].sha \in Hashes
    BY <1>1 DEF Audio
  <2> QED BY <1>1, <2>1, <2>2
<1>5. ArtifactName(t) = "downmix" => t = "downmix"
  BY DEF ArtifactName
<1>6. e.misshapen = {} /\ e.misshapen \in SUBSET {"damping", "modulation"}
  <2>1. e.misshapen = {resolved} \cap Uses(t)
    BY DEF Evidence
  <2>2. CASE t = "tail-v2"
    BY <2>1, <2>2 DEF Accepts, analyze_tail_v2, validate_damping_shape, Uses
  <2>3. CASE t = "modulation"
    BY <2>1, <2>3 DEF Accepts, analyze_modulation, validate_damping_shape,
                      validate_modulation_shape, Uses
  <2>4. CASE t \notin {"tail-v2", "modulation"}
    BY <2>1, <2>4 DEF Uses
  <2> QED BY <2>2, <2>3, <2>4
<1>7. ArtifactName(t) \in {"diffusion", "downmix"} => e.finite
  <2> SUFFICES ASSUME t \in {"diffusion", "downmix"}, NEW f \in Measures(t)
               PROVE  Finite(s[f])
    BY DEF Evidence, ArtifactName
  <2>1. Finite(s["output"]) /\ (t = "downmix" => Finite(s["main-stereo"]))
    BY DEF Accepts, analyze_diffusion, analyze_downmix
  <2>2. CASE f \in {"output", "main-stereo"} /\ ~(t = "diffusion" /\ f = "main-stereo")
    BY <2>1, <2>2
  <2>3. CASE f \notin {"output", "main-stereo"}
    BY <1>1, <2>3 DEF Finite
  <2>4. ~(t = "diffusion" /\ f = "main-stereo")
    BY DEF Measures, Steps
  <2> QED BY <2>2, <2>3, <2>4
<1>8. e.finite \in BOOLEAN
  BY DEF Evidence
<1>9. e.active \in SUBSET Owners
  <2>1. DOMAIN render.modulation \subseteq Owners
    BY RenderKnown
  <2> QED BY <2>1 DEF Evidence, collect_active_modulations
<1>10. e.measured \in {r.measured : r \in Renders} \cup {OtherMeasured}
  BY DEF Evidence
<1>11. e.frames \in 0..MaxFrames /\ e.tool \in Tools
  BY FramesKnown DEF Evidence
<1>12. e = [tool |-> e.tool, source |-> e.source, files |-> e.files, frames |-> e.frames,
            finite |-> e.finite, active |-> e.active, misshapen |-> e.misshapen,
            measured |-> e.measured]
  BY DEF Evidence
<1> HIDE DEF e
<1>13. e \in Evidences
  BY <1>3, <1>4, <1>6, <1>8, <1>9, <1>10, <1>11, <1>12 DEF Evidences
<1>14. Sound(ArtifactName(t), e)
  BY <1>3, <1>4, <1>5, <1>6, <1>7, <1>8 DEF Sound
<1> QED BY <1>13, <1>14 DEF e

----------------------------------------------------------------------------
(* What the renderer wrote is accepted by every analyzer it is for.        *)
LEMMA UntouchedAccepted ==
  ASSUME render \in Renders, resolved = "sound",
         file = [f \in ResultFiles |-> Written(f)],
         NEW t \in Tools, InScope(t)
  PROVE  Accepts(t, file)
<1> DEFINE s == file
           has(name) == name \in ToSet(render.stages)
<1>1. /\ StageCaptures(render) \subseteq Captures /\ StageCaptures(render) \subseteq ResultFiles
      /\ "source" \in ResultFiles /\ "output" \in ResultFiles
      /\ \A f \in ResultFiles : s[f] = Written(f) /\ s[f] # Lost
  BY FilesKnown DEF ResultFiles
<1>2. /\ s["source"].sha = "source" /\ s["source"].frames = InputFrames
      /\ s["output"].sha = "output" /\ s["output"].frames = Frames
  BY <1>1 DEF Written
<1>3. source_verified(s) /\ output_matches(s)
  BY <1>1, <1>2 DEF source_verified, output_matches
<1>4. \A capture \in StageCaptures(render) :
        verified_capture(s, capture, Frames) /\ s[capture].sha = capture
  <2> SUFFICES ASSUME NEW capture \in StageCaptures(render)
               PROVE  verified_capture(s, capture, Frames) /\ s[capture].sha = capture
    OBVIOUS
  <2>1. capture # "source" /\ s[capture] = Written(capture) /\ s[capture] # Lost
    BY <1>1 DEF Captures
  <2>2. s[capture].sha = capture /\ s[capture].frames = Frames
    BY <2>1 DEF Written
  <2> QED BY <2>1, <2>2 DEF verified_capture
<1>5. /\ has("diffuser") <=>
           render.stages \in {<<"split", "diffuser", "downmix">>,
                              <<"split", "diffuser", "feedback-loop", "downmix">>}
      /\ has("feedback-loop") <=>
           render.stages \in {<<"split", "feedback-loop", "downmix">>,
                              <<"split", "diffuser", "feedback-loop", "downmix">>}
      /\ render.stages # << >> => Last(render.stages) = "downmix"
  BY RenderKnown, StagesKnown
<1>6. /\ Frames \in Nat /\ Frames = InputFrames + render.preDelay + TailBudgetFrames
      /\ TotalSamples \in 0..1 /\ TailBudgetFrames \in 0..2 /\ render.preDelay \in Nat
  BY FramesKnown, RenderKnown
<1>7. render.captured => /\ {"split", "main-stereo"} \subseteq StageCaptures(render)
                         /\ Steps(render.stages) \subseteq StageCaptures(render)
  BY RenderKnown DEF StageCaptures
<1>8. render.finite => \A f \in ResultFiles : Finite(s[f])
  BY DEF Finite
<1>9. complete_response
  BY <1>6 DEF complete_response
<1>10. CASE t = "baseline"
  BY <1>3, <1>10 DEF Accepts, analyze_render
<1>11. CASE t = "identity"
  <2>1. render.stages = << >> /\ render.finite
    BY <1>11 DEF InScope
  <2>2. ~has("feedback-loop") /\ ~has("diffuser") /\ render.preDelay = 0
    BY <1>5, <2>1, RenderKnown
  <2>3. Frames = InputFrames
    BY <1>6, <2>2 DEF TailBudgetFrames, TotalSamples, InputFrames
  <2>4. identity_analysis(s)
    BY <1>1, <1>2, <1>8, <2>1, <2>3 DEF identity_analysis
  <2> QED BY <1>3, <1>11, <2>4 DEF Accepts, analyze_render
<1>12. CASE t = "diffusion"
  <2>1. /\ render.stages = <<"split", "diffuser", "downmix">>
        /\ render.captured /\ render.finite
    BY <1>12 DEF InScope
  <2>2. ~has("feedback-loop")
    BY <1>5, <2>1
  <2>3. Frames = InputFrames + render.preDelay + TotalSamples
    BY <1>6, <2>2 DEF TailBudgetFrames, InputFrames
  <2>4. analyze_diffusion(s)
    BY <1>1, <1>3, <1>4, <1>7, <1>8, <2>1, <2>3 DEF analyze_diffusion
  <2> QED BY <1>12, <2>4 DEF Accepts
<1>13. CASE t = "downmix"
  <2>1. render.captured /\ render.finite
    BY <1>13 DEF InScope
  <2>2. render.stages # << >>
    BY <2>1, RenderKnown
  <2>3. Last(render.stages) = "downmix"
    BY <1>5, <2>2
  <2>4. analyze_downmix(s)
    BY <1>1, <1>2, <1>3, <1>4, <1>6, <1>7, <1>8, <2>1, <2>2, <2>3 DEF analyze_downmix
  <2> QED BY <1>13, <2>4 DEF Accepts
<1>14. CASE t = "early-support"
  <2>1. render.taps # {} /\ render.captured /\ render.impulse /\ render.preDelay = 0
    BY <1>14 DEF InScope
  <2>2. render.taps \subseteq Steps(render.stages)
    BY <2>1, RenderKnown DEF Steps
  <2>3. verify_frame_zero_impulse(s)
    BY <1>4, <1>7, <2>1 DEF verify_frame_zero_impulse, Onset
  <2>4. analyze_early_support(s)
    BY <1>4, <1>7, <2>1, <2>2, <2>3 DEF analyze_early_support
  <2> QED BY <1>14, <2>4 DEF Accepts
<1>15. CASE t \in {"tail-v1", "tail-v2", "modulation"}
  <2>1. locate_feedback_loop(render.stages)
    BY <1>5, <1>15 DEF InScope, locate_feedback_loop
  <2> QED BY <1>3, <1>9, <1>15, <2>1 DEF Accepts, analyze_tail, analyze_tail_v2,
            analyze_modulation, validate_damping_shape, validate_modulation_shape
<1> QED BY <1>10, <1>11, <1>12, <1>13, <1>14, <1>15 DEF Tools

----------------------------------------------------------------------------
(* An analyzer is at work on the files it has read.                        *)
LEMMA SnapshotKnown ==
  ASSUME ResultKnown, NEW w \in Workers, tool[w] # None
  PROVE  /\ tool[w] \in Tools
         /\ [file EXCEPT ![First(tool[w])] = seen[w]] \in Snapshots
<1>1. tool[w] \in Tools /\ seen[w] \in Audio \cup {Lost} /\ file \in Snapshots
  BY DEF ResultKnown
<1> QED BY <1>1 DEF Snapshots

(* Every step publishes as publish_artifact does, or publishes nothing.    *)
LEMMA AnalyzeOffers ==
  ASSUME Inv, NEW w \in Workers, Analyze(w)
  PROVE  /\ tool[w] \in Tools
         /\ \/ \E o \in Offers : Offer(w, o) /\ Sound(o.name, o.content)
            \/ Refuse(w) /\ (changes = 0 => ~InScope(tool[w]))
         /\ UNCHANGED <<resultVars, tool, seen>>
<1> DEFINE s == [file EXCEPT ![First(tool[w])] = seen[w]]
           t == tool[w]
           o == [name |-> ArtifactName(t), content |-> Evidence(t, s)]
<1>1. t # None /\ UNCHANGED <<resultVars, tool, seen>>
  BY DEF Analyze
<1>2. t \in Tools /\ s \in Snapshots
  BY <1>1, SnapshotKnown DEF Inv
<1>3. CASE Accepts(t, s)
  <2>1. Offer(w, o)
    BY <1>3 DEF Analyze
  <2>2. /\ Evidence(t, s) \in Contents /\ Sound(ArtifactName(t), Evidence(t, s))
        /\ ArtifactName(t) \in Names
    BY <1>2, <1>3, AcceptedIsSound DEF Inv, ResultKnown
  <2>3. o \in Offers /\ Sound(o.name, o.content)
    BY <2>2 DEF Offers
  <2> QED BY <1>1, <1>2, <2>1, <2>3
<1>4. CASE ~Accepts(t, s)
  <2>1. Refuse(w)
    BY <1>4 DEF Analyze
  <2>2. changes = 0 => ~InScope(t)
    <3> SUFFICES ASSUME changes = 0 PROVE ~InScope(t)
      OBVIOUS
    <3>1. /\ resolved = "sound" /\ file = [f \in ResultFiles |-> Written(f)]
          /\ seen[w] = Written(First(t)) /\ First(t) \in ResultFiles
      BY <1>1 DEF Inv, Untouched, First, ResultFiles
    <3>2. s = file
      BY <3>1
    <3> QED BY <1>2, <1>4, <3>1, <3>2, UntouchedAccepted DEF Inv, ResultKnown
  <2> QED BY <1>1, <1>2, <2>1, <2>2
<1> QED BY <1>3, <1>4

(* Nothing of the result is touched, nor what an analyzer has read.        *)
LEMMA ResultKept ==
  ASSUME ResultKnown, Untouched, UNCHANGED <<resultVars, tool, seen>>
  PROVE  ResultKnown' /\ Untouched'
<1>1. UNCHANGED <<render, resolved, file, changes, tool, seen>>
  BY DEF resultVars
<1>2. ResultFiles' = ResultFiles /\ Snapshots' = Snapshots
  BY <1>1 DEF ResultFiles, Snapshots
<1>3. \A f : Written(f)' = Written(f)
  BY <1>1 DEF Written, Frames, TailBudgetFrames, TotalSamples
<1>4. ResultKnown'
  BY <1>1, <1>2 DEF ResultKnown
<1>5. Untouched'
  BY <1>1, <1>2, <1>3 DEF Untouched
<1> QED BY <1>4, <1>5

(* The renders a tool is for do not change with the files.                 *)
LEMMA ScopeKept ==
  ASSUME UNCHANGED render
  PROVE  \A t : InScope(t)' = InScope(t)
  BY DEF InScope

(* A new analyzer reads its first file.                                    *)
LEMMA StartInv ==
  ASSUME Inv, NEW w \in Workers, NEW t \in render.analyzers, Start(w, t),
         PublicationInv'
  PROVE  Inv'
<1>1. /\ pc[w] = "idle" /\ tool' = [tool EXCEPT ![w] = t]
      /\ seen' = [seen EXCEPT ![w] = file[First(t)]]
      /\ UNCHANGED <<pc, offer, outcome, artifact, temporary, render, resolved, file, changes>>
  BY DEF Start, publicationVars, resultVars
<1>2. /\ tool \in [Workers -> Tools \cup {None}]
      /\ seen \in [Workers -> Audio \cup {Lost, None}]
      /\ t \in Tools /\ file \in Snapshots /\ First(t) \in ResultFiles
  BY RenderKnown DEF Inv, ResultKnown, First, ResultFiles
<1>3. file[First(t)] \in Audio \cup {Lost}
  BY <1>2 DEF Snapshots
<1>4. /\ tool'[w] = t /\ seen'[w] = file[First(t)]
      /\ \A v \in Workers : v # w => tool'[v] = tool[v] /\ seen'[v] = seen[v]
  BY <1>1, <1>2
<1>5. ResultFiles' = ResultFiles /\ Snapshots' = Snapshots
  BY <1>1 DEF ResultFiles, Snapshots
<1>6. \A f : Written(f)' = Written(f)
  BY <1>1 DEF Written, Frames, TailBudgetFrames, TotalSamples
<1>7. ResultKnown'
  <2>1. /\ tool' \in [Workers -> Tools \cup {None}]
        /\ seen' \in [Workers -> Audio \cup {Lost, None}]
    BY <1>1, <1>2, <1>3
  <2>2. \A v \in Workers : tool'[v] # None => seen'[v] \in Audio \cup {Lost}
    BY <1>3, <1>4 DEF Inv, ResultKnown
  <2> QED BY <1>1, <1>5, <2>1, <2>2 DEF Inv, ResultKnown
<1>8. OffersSound' /\ ArtifactsSound'
  BY <1>1 DEF Inv, OffersSound, ArtifactsSound, Sound
<1>9. Untouched'
  <2>1. changes = 0 => resolved = "sound" /\ file = [f \in ResultFiles |-> Written(f)]
    BY DEF Inv, Untouched
  <2>2. ASSUME changes = 0, NEW v \in Workers, tool'[v] # None
        PROVE  seen'[v] = Written(First(tool'[v]))
    <3>1. CASE v = w
      BY <1>2, <1>4, <2>1, <2>2, <3>1
    <3>2. CASE v # w
      BY <1>4, <2>2, <3>2 DEF Inv, Untouched
    <3> QED BY <3>1, <3>2
  <2>3. ASSUME changes = 0, NEW v \in Workers, tool'[v] # None
        PROVE  seen'[v] = Written(First(tool[v]))'
    <3>1. First(tool[v])' = First(tool'[v])
      OBVIOUS
    <3> QED BY <1>6, <2>2, <2>3, <3>1
  <2>4. [f \in ResultFiles |-> Written(f)]' = [f \in ResultFiles |-> Written(f)]
    BY <1>5, <1>6
  <2> QED BY <1>1, <2>1, <2>3, <2>4 DEF Untouched
<1>10. UntouchedIsAnalyzed'
  <2> SUFFICES ASSUME NEW v \in Workers, pc[v] = "done", offer[v] = None, changes = 0
               PROVE  ~InScope(tool'[v])
    BY <1>1, ScopeKept DEF UntouchedIsAnalyzed
  <2>1. v # w
    BY <1>1
  <2> QED BY <1>4, <2>1 DEF Inv, UntouchedIsAnalyzed
<1> QED BY <1>7, <1>8, <1>9, <1>10 DEF Inv

(* An analyzer offers what is sound, or refuses what it is not for.        *)
LEMMA AnalyzeInv ==
  ASSUME Inv, NEW w \in Workers, Analyze(w), PublicationInv'
  PROVE  Inv'
<1>1. UNCHANGED <<resultVars, tool, seen>> /\ UNCHANGED <<render, changes, tool>>
  BY AnalyzeOffers DEF resultVars
<1>2. ResultKnown' /\ Untouched'
  BY <1>1, ResultKept DEF Inv
<1>3. CASE \E o \in Offers : Offer(w, o) /\ Sound(o.name, o.content)
  <2>1. PICK o \in Offers : Offer(w, o) /\ Sound(o.name, o.content)
    BY <1>3
  <2>2. /\ pc'[w] = "publish" /\ offer'[w] = o /\ artifact' = artifact
        /\ \A v \in Workers : v # w => pc'[v] = pc[v] /\ offer'[v] = offer[v]
    BY <2>1 DEF Offer, Inv, PublicationInv, PublicationTypeOK
  <2>3. OffersSound' /\ ArtifactsSound'
    BY <2>1, <2>2 DEF Inv, OffersSound, ArtifactsSound, Sound
  <2>4. UntouchedIsAnalyzed'
    BY <1>1, <2>2, ScopeKept DEF Inv, UntouchedIsAnalyzed
  <2> QED BY <1>2, <2>3, <2>4 DEF Inv
<1>4. CASE Refuse(w) /\ (changes = 0 => ~InScope(tool[w]))
  <2>1. /\ pc'[w] = "done" /\ offer' = offer /\ artifact' = artifact
        /\ \A v \in Workers : v # w => pc'[v] = pc[v]
    BY <1>4 DEF Refuse, Inv, PublicationInv, PublicationTypeOK
  <2>2. OffersSound' /\ ArtifactsSound'
    BY <2>1 DEF Inv, OffersSound, ArtifactsSound, Sound
  <2>3. UntouchedIsAnalyzed'
    BY <1>1, <1>4, <2>1, ScopeKept DEF Inv, UntouchedIsAnalyzed
  <2> QED BY <1>2, <2>2, <2>3 DEF Inv
<1> QED BY <1>3, <1>4, AnalyzeOffers

(* What is published is what was offered.                                  *)
LEMMA PublishInv ==
  ASSUME Inv, NEW w \in Workers, Publish(w), PublicationInv'
  PROVE  Inv'
<1>1. /\ publish_artifact(w) \/ Fail(w) \/ (tool[w] # None /\ Kill(w))
      /\ UNCHANGED <<resultVars, tool, seen>> /\ UNCHANGED <<render, changes, tool>>
  BY DEF Publish, resultVars
<1>2. ResultKnown' /\ Untouched'
  BY <1>1, ResultKept DEF Inv
<1>3. /\ offer' = offer
      /\ \A v \in Workers : v # w => pc'[v] = pc[v]
      /\ pc'[w] \in {"done", "unlink"} => pc[w] \in {"publish", "write", "link", "unlink"}
  BY <1>1 DEF publish_artifact, FindExisting, MakeTemporary, Write, Link, LinkExists, Unlink,
              Fail, Kill, Inv, PublicationInv, PublicationTypeOK
<1>4. pc'[w] \in {"done", "unlink"} => offer[w] # None
  BY <1>3 DEF Inv, PublicationInv, StepsInOrder, OffersSound
<1>5. OffersSound'
  BY <1>3, <1>4 DEF Inv, OffersSound, Sound
<1>6. UntouchedIsAnalyzed'
  BY <1>1, <1>3, <1>4, ScopeKept DEF Inv, UntouchedIsAnalyzed
<1>7. ArtifactsSound'
  <2>1. CASE Link(w)
    <3>1. /\ offer[w] # None /\ temporary[w] = offer[w].content
          /\ artifact' = [artifact EXCEPT ![offer[w].name] = temporary[w]]
      BY <2>1 DEF Link, Inv, PublicationInv, StepsInOrder
    <3>2. Sound(offer[w].name, offer[w].content)
      BY <3>1 DEF Inv, OffersSound
    <3>3. ASSUME NEW name \in Names, artifact'[name] # None
          PROVE  Sound(name, artifact'[name])
      <4>1. artifact'[name] = IF name = offer[w].name THEN offer[w].content ELSE artifact[name]
        BY <3>1 DEF Inv, PublicationInv, PublicationTypeOK
      <4> QED BY <3>2, <3>3, <4>1 DEF Inv, ArtifactsSound
    <3> QED BY <3>3 DEF ArtifactsSound, Sound
  <2>2. CASE ~Link(w)
    <3>1. artifact' = artifact
      BY <1>1, <2>2 DEF publish_artifact, FindExisting, MakeTemporary, Write, LinkExists,
                        Unlink, Fail, Kill
    <3> QED BY <3>1 DEF Inv, ArtifactsSound, Sound
  <2> QED BY <2>1, <2>2
<1> QED BY <1>2, <1>5, <1>6, <1>7 DEF Inv

(* What befalls the files is counted.                                      *)
LEMMA ChangeInv ==
  ASSUME Inv, changes' = changes + 1, UNCHANGED <<publicationVars, render, tool, seen>>,
         resolved' \in {"sound", "damping", "modulation"}, file' \in Snapshots,
         PublicationInv'
  PROVE  Inv'
<1>1. changes \in Nat
  BY DEF Inv, ResultKnown
<1>2. changes' # 0 /\ changes' \in Nat
  BY <1>1
<1>3. UNCHANGED <<pc, offer, artifact>> /\ Snapshots' = Snapshots
  BY DEF publicationVars, Snapshots, ResultFiles
<1>4. ResultKnown'
  BY <1>2, <1>3 DEF Inv, ResultKnown
<1>5. Untouched' /\ UntouchedIsAnalyzed'
  BY <1>2 DEF Untouched, UntouchedIsAnalyzed
<1>6. OffersSound' /\ ArtifactsSound'
  BY <1>3 DEF Inv, OffersSound, ArtifactsSound, Sound
<1> QED BY <1>4, <1>5, <1>6 DEF Inv

(* Every step publishes as publish_artifact does, or publishes nothing.    *)
LEMMA PublicationStep ==
  ASSUME Inv, [Next]_vars
  PROVE  [PublicationNext]_publicationVars
<1>1. ASSUME NEW w \in Workers, Analyze(w) PROVE PublicationNext
  BY <1>1, AnalyzeOffers DEF PublicationNext
<1>2. ASSUME NEW w \in Workers, Publish(w) PROVE PublicationNext
  BY <1>2 DEF Publish, PublicationNext
<1>3. ASSUME NEW w \in Workers, NEW t \in render.analyzers, Start(w, t)
      PROVE  UNCHANGED publicationVars
  BY <1>3 DEF Start
<1>4. ASSUME NEW f \in DOMAIN file, NEW audio \in Others(f), Replace(f, audio)
      PROVE  UNCHANGED publicationVars
  BY <1>4 DEF Replace
<1>5. ASSUME NEW object \in {"damping", "modulation"}, EditResolved(object)
      PROVE  UNCHANGED publicationVars
  BY <1>5 DEF EditResolved
<1>6. ASSUME NEW t \in Compared, Extract(t) \/ ExtractKilled(t) \/ Compare(t)
      PROVE  UNCHANGED publicationVars
  BY <1>6 DEF Extract, ExtractKilled, Compare, analyzerVars
<1>7. CASE UNCHANGED vars
  BY <1>7 DEF vars, analyzerVars
<1> QED BY <1>1, <1>2, <1>3, <1>4, <1>5, <1>6, <1>7 DEF Next, AnalyzerNext

LEMMA InvInit == Init => Inv
<1> SUFFICES ASSUME Init PROVE Inv
  OBVIOUS
<1>1. /\ PublicationInit /\ render \in Renders /\ resolved = "sound"
      /\ file = [f \in ResultFiles |-> Written(f)]
      /\ tool = [w \in Workers |-> None] /\ seen = [w \in Workers |-> None] /\ changes = 0
  BY DEF Init, AnalyzerInit, ResultFiles
<1>2. PublicationInv
  BY <1>1, InitPublicationInv
<1>3. file \in Snapshots
  BY <1>1, FilesKnown DEF Snapshots
<1>4. ResultKnown /\ Untouched
  BY <1>1, <1>3 DEF ResultKnown, Untouched
<1>5. OffersSound /\ ArtifactsSound /\ UntouchedIsAnalyzed
  BY <1>1 DEF PublicationInit, OffersSound, ArtifactsSound, UntouchedIsAnalyzed
<1> QED BY <1>2, <1>4, <1>5 DEF Inv

LEMMA InvNext == ASSUME Inv, [Next]_vars PROVE Inv'
<1>1. PublicationInv'
  BY PublicationStep, StepPublicationInv DEF Inv
<1>2. ASSUME NEW f \in DOMAIN file, NEW audio \in Others(f), Replace(f, audio)
      PROVE  Inv'
  <2>1. file \in Snapshots /\ f \in ResultFiles /\ render \in Renders
    BY DEF Inv, ResultKnown, Snapshots
  <2>2. Written(f) \in Audio
    BY <2>1, FilesKnown
  <2>3. Written(f).frames \in Nat
    BY <2>2 DEF Audio
  <2>4. audio \in Audio \cup {Lost}
    BY <2>3 DEF Others, Audio, Hashes
  <2>5. file' \in Snapshots
    BY <1>2, <2>1, <2>4 DEF Replace, Snapshots
  <2> QED BY <1>1, <1>2, <2>5, ChangeInv DEF Replace, Inv, ResultKnown
<1>3. ASSUME NEW object \in {"damping", "modulation"}, EditResolved(object)
      PROVE  Inv'
  BY <1>1, <1>3, ChangeInv DEF EditResolved, Inv, ResultKnown
<1>4. ASSUME NEW t \in Compared, ExtractKilled(t) PROVE Inv'
  BY <1>1, <1>4, ChangeInv DEF ExtractKilled, Inv, ResultKnown
<1>5. CASE UNCHANGED analyzerVars
  <2>1. UNCHANGED <<resultVars, tool, seen>> /\ UNCHANGED <<pc, offer, artifact, tool, changes, render>>
    BY <1>5 DEF analyzerVars, publicationVars, resultVars
  <2>2. ResultKnown' /\ Untouched'
    BY <2>1, ResultKept DEF Inv
  <2>3. OffersSound' /\ ArtifactsSound' /\ UntouchedIsAnalyzed'
    BY <2>1, ScopeKept DEF Inv, OffersSound, ArtifactsSound, Sound, UntouchedIsAnalyzed
  <2> QED BY <1>1, <2>2, <2>3 DEF Inv
<1>6. ASSUME NEW t \in Compared, Extract(t) \/ Compare(t) PROVE Inv'
  BY <1>5, <1>6 DEF Extract, Compare
<1>7. CASE UNCHANGED vars
  BY <1>5, <1>7 DEF vars
<1> QED BY <1>1, <1>2, <1>3, <1>4, <1>6, <1>7, StartInv, AnalyzeInv, PublishInv
        DEF Next, AnalyzerNext

----------------------------------------------------------------------------
THEOREM Invariance == Spec => []Inv
  BY InvInit, InvNext, PTL DEF Spec

(* The analyzers at work keep the accounts of publish_artifact.            *)
THEOREM AnalyzersKeepAccounts == Spec => []PublicationInv
<1>1. Inv => PublicationInv
  BY DEF Inv
<1> QED BY <1>1, Invariance, PTL

(* Evidence on the disk is evidence of this render, whatever was replaced, *)
(* lost or edited before, while or after it was computed.                  *)
THEOREM EvidenceIsSound == Spec => []EvidenceOfThisRender
<1>1. Inv => EvidenceOfThisRender
  BY DEF Inv, ArtifactsSound, EvidenceOfThisRender, Sound
<1> QED BY <1>1, Invariance, PTL

(* No analyzer refuses what the renderer wrote, of any shape it is for.    *)
THEOREM NoneIsRefused == Spec => []UntouchedIsAnalyzed
<1>1. Inv => UntouchedIsAnalyzed
  BY DEF Inv
<1> QED BY <1>1, Invariance, PTL

(* Whatever the analyzers of a render race, refuse, fail or are killed at, *)
(* a reader sees a write-once store.                                       *)
THEOREM AnalyzersPublishOnce == Spec => PublishedOnce
<1>1. Init => Store!Init
  BY InitStore DEF Init, AnalyzerInit
<1>2. Inv /\ [Next]_vars => [Store!Next]_Store!vars
  BY PublicationStep, StepStore DEF Inv
<1> QED BY <1>1, <1>2, Invariance, PTL DEF Spec, PublishedOnce, Store!Spec

----------------------------------------------------------------------------
(* What the comparison of platforms says.  A summary's numbers are those   *)
(* of its measurement that are there ...                                   *)
Metrics(t, m) ==
  /\ m.level \in Int
  /\ t = "diffusion" => m.bins \in 0..Len(Bins)
  /\ t # "diffusion" => m.fit \in Int \cup {None}
  /\ t \in {"tail-v2", "modulation"} => m.relativeError = m.fit
  /\ t = "modulation" => m.relative \in Int \cup {None}

EntryKnown(t, e) == e.platform \in ToSet(LabelOrder) /\ Metrics(t, e.measured)

NumbersOf(t, m) ==
  {"level"}
    \cup (IF t = "diffusion" THEN {Bins[i] : i \in 1..m.bins} ELSE {})
    \cup (IF t # "diffusion" /\ m.fit # None THEN {"fit"} ELSE {})
    \cup (IF t \in {"tail-v2", "modulation"} /\ m.fit # None THEN {"relativeError"} ELSE {})
    \cup (IF t = "modulation" /\ m.relative # None THEN {"relative"} ELSE {})

(* ... and its facts are compared beside them.                             *)
Facts(t, e) == CASE t = "diffusion"  -> structural_diffusion(e.measured)
                 [] t = "tail-v1"    -> structural_tail(e.measured)
                 [] t = "tail-v2"    -> structural_tail_v2(e.measured)
                 [] t = "modulation" -> structural_modulation(e.measured)

Close(t, a, b, tolerance) ==
  /\ Covers(Numbers(t, a), Numbers(t, b))
  /\ Same(Facts(t, a), Facts(t, b))
  /\ Near(Numbers(t, a), Numbers(t, b), tolerance)

(* Functions whose values are numbers.                                     *)
Numeric(f, S) == DOMAIN f = S /\ \A n \in S : f[n] \in Int

LEMMA NumbersKnown ==
  ASSUME NEW t \in Compared, NEW e, EntryKnown(t, e)
  PROVE  Numeric(Numbers(t, e), NumbersOf(t, e.measured))
<1>1. Metrics(t, e.measured)
  BY DEF EntryKnown
<1>2. CASE t = "diffusion"
  BY <1>1, <1>2 DEF Numbers, NumbersOf, Numeric, Metrics, numeric_diffusion
<1>3. CASE t = "tail-v1"
  BY <1>1, <1>3 DEF Numbers, NumbersOf, Numeric, Metrics, numeric_tail, Optional
<1>4. CASE t = "tail-v2"
  BY <1>1, <1>4 DEF Numbers, NumbersOf, Numeric, Metrics, numeric_tail_v2, Optional
<1>5. CASE t = "modulation"
  BY <1>1, <1>5 DEF Numbers, NumbersOf, Numeric, Metrics, numeric_modulation, Optional
<1> QED BY <1>2, <1>3, <1>4, <1>5 DEF Compared

(* Two entries whose facts agree measured the same things.                 *)
LEMMA SameFacts ==
  ASSUME NEW t \in Compared, NEW a, NEW b, Same(Facts(t, a), Facts(t, b))
  PROVE  /\ t = "diffusion" => a.measured.bins = b.measured.bins
         /\ t # "diffusion" => (a.measured.fit = None <=> b.measured.fit = None)
<1>1. CASE t = "diffusion"
  BY <1>1 DEF Same, Facts, structural_diffusion
<1>2. CASE t = "tail-v1"
  BY <1>2 DEF Same, Facts, structural_tail
<1>3. CASE t = "tail-v2"
  BY <1>3 DEF Same, Facts, structural_tail_v2
<1>4. CASE t = "modulation"
  BY <1>4 DEF Same, Facts, structural_modulation
<1> QED BY <1>1, <1>2, <1>3, <1>4 DEF Compared

LEMMA DistanceSame ==
  ASSUME NEW x \in Int, NEW y \in Int
  PROVE  Distance(x, y) = Distance(y, x) /\ Distance(x, y) \in Nat /\ Distance(x, x) = 0
  BY DEF Distance

LEMMA DistanceTwice ==
  ASSUME NEW x \in Int, NEW y \in Int, NEW z \in Int, NEW k \in Nat,
         Distance(z, x) <= k, Distance(z, y) <= k
  PROVE  Distance(x, y) <= 2 * k
  BY DEF Distance

(* What is within a tolerance is so both ways, of the same metrics.        *)
Alike(t, a, b, tolerance) ==
  /\ DOMAIN Numbers(t, a) \ {"relative"} = DOMAIN Numbers(t, b) \ {"relative"}
  /\ \A n \in DOMAIN Numbers(t, a) \cap DOMAIN Numbers(t, b) :
       Distance(Numbers(t, a)[n], Numbers(t, b)[n]) <= tolerance

LEMMA CloseAlike ==
  ASSUME NEW t \in Compared, NEW a, NEW b, EntryKnown(t, a), EntryKnown(t, b),
         NEW tolerance \in Nat, Close(t, a, b, tolerance)
  PROVE  Alike(t, a, b, tolerance) /\ Alike(t, b, a, tolerance)
<1>1. DOMAIN Numbers(t, a) = NumbersOf(t, a.measured) /\ DOMAIN Numbers(t, b) = NumbersOf(t, b.measured)
  BY NumbersKnown DEF Numeric
<1>2. NumbersOf(t, a.measured) \ {"relative"} = NumbersOf(t, b.measured) \ {"relative"}
  <2>1. Same(Facts(t, a), Facts(t, b))
    BY DEF Close
  <2> QED BY <2>1, SameFacts DEF NumbersOf, Compared
<1>3. \A n \in DOMAIN Numbers(t, a) \cap DOMAIN Numbers(t, b) :
        /\ Distance(Numbers(t, a)[n], Numbers(t, b)[n]) <= tolerance
        /\ Distance(Numbers(t, b)[n], Numbers(t, a)[n]) <= tolerance
  <2> TAKE n \in DOMAIN Numbers(t, a) \cap DOMAIN Numbers(t, b)
  <2>1. Numbers(t, a)[n] \in Int /\ Numbers(t, b)[n] \in Int
    BY NumbersKnown DEF Numeric
  <2>2. Distance(Numbers(t, a)[n], Numbers(t, b)[n]) <= tolerance
    BY DEF Close, Near
  <2> QED BY <2>1, <2>2, DistanceSame
<1> QED BY <1>1, <1>2, <1>3 DEF Alike

(* Two that are within a tolerance of a third are within twice that of     *)
(* each other.                                                             *)
LEMMA CloseToOne ==
  ASSUME NEW t \in {"diffusion", "tail-v1"}, NEW base, NEW a, NEW b,
         EntryKnown(t, base), EntryKnown(t, a), EntryKnown(t, b), NEW tolerance \in Nat,
         Close(t, base, a, tolerance), Close(t, base, b, tolerance)
  PROVE  Alike(t, a, b, 2 * tolerance)
<1>1. t \in Compared
  BY DEF Compared
<1>2. Alike(t, a, base, tolerance) /\ Alike(t, base, a, tolerance) /\ Alike(t, base, b, tolerance)
  BY <1>1, CloseAlike
<1>3. \A e : EntryKnown(t, e) => "relative" \notin DOMAIN Numbers(t, e)
  <2> SUFFICES ASSUME NEW e, EntryKnown(t, e) PROVE "relative" \notin DOMAIN Numbers(t, e)
    OBVIOUS
  <2>1. t = "diffusion" => \A i \in 1..e.measured.bins : Bins[i] # "relative"
    BY DEF EntryKnown, Metrics, Bins
  <2>2. "relative" \notin NumbersOf(t, e.measured)
    BY <2>1 DEF NumbersOf
  <2> QED BY <1>1, <2>2, NumbersKnown DEF Numeric
<1>4. DOMAIN Numbers(t, a) = DOMAIN Numbers(t, base) /\ DOMAIN Numbers(t, b) = DOMAIN Numbers(t, base)
  <2>1. /\ "relative" \notin DOMAIN Numbers(t, base)
        /\ "relative" \notin DOMAIN Numbers(t, a) /\ "relative" \notin DOMAIN Numbers(t, b)
    BY <1>3
  <2>2. /\ DOMAIN Numbers(t, a) \ {"relative"} = DOMAIN Numbers(t, base) \ {"relative"}
        /\ DOMAIN Numbers(t, base) \ {"relative"} = DOMAIN Numbers(t, b) \ {"relative"}
    BY <1>2 DEF Alike
  <2> QED BY <2>1, <2>2
<1>5. ASSUME NEW n \in DOMAIN Numbers(t, a) \cap DOMAIN Numbers(t, b)
      PROVE  Distance(Numbers(t, a)[n], Numbers(t, b)[n]) <= 2 * tolerance
  <2>1. Numbers(t, a)[n] \in Int /\ Numbers(t, b)[n] \in Int /\ Numbers(t, base)[n] \in Int
    BY <1>1, <1>4, <1>5, NumbersKnown DEF Numeric
  <2>2. /\ Distance(Numbers(t, base)[n], Numbers(t, a)[n]) <= tolerance
        /\ Distance(Numbers(t, base)[n], Numbers(t, b)[n]) <= tolerance
    BY <1>2, <1>4, <1>5 DEF Alike
  <2> QED BY <2>1, <2>2, DistanceTwice
<1> QED BY <1>4, <1>5 DEF Alike


----------------------------------------------------------------------------
(* A group has known entries, of one platform each, in any order.          *)
Proper(t, g) ==
  /\ DOMAIN g \in SUBSET Nat /\ IsFiniteSet(DOMAIN g)
  /\ \A i \in DOMAIN g : EntryKnown(t, g[i])
  /\ \A i, j \in DOMAIN g : i # j => g[i].platform # g[j].platform

LEMMA LeastElement ==
  ASSUME NEW S \in SUBSET Nat, S # {}
  PROVE  \E x \in S : \A y \in S : x <= y
<1> DEFINE R == {ss \in Nat \X Nat : ss[1] < ss[2]}
<1>1. IsWellFoundedOn(R, Nat)
  BY NatLessThanWellFounded DEF OpToRel
<1>2. PICK x \in S : \A y \in S : <<y, x>> \notin R
  <2> HIDE DEF R
  <2> QED BY <1>1, WFMin
<1>3. ASSUME NEW y \in S PROVE x <= y
  <2>1. ~(y < x)
    BY <1>2
  <2> QED BY <2>1
<1> QED BY <1>3

LEMMA RankKnown ==
  ASSUME NEW t, NEW e, EntryKnown(t, e)
  PROVE  Rank(e) \in Nat /\ LabelOrder[Rank(e)] = e.platform
<1>1. \E i \in DOMAIN LabelOrder : LabelOrder[i] = e.platform
  BY DEF EntryKnown, ToSet
<1>2. Rank(e) \in DOMAIN LabelOrder /\ LabelOrder[Rank(e)] = e.platform
  BY <1>1 DEF Rank
<1>3. LabelOrder \in Seq(ToSet(LabelOrder))
  BY EquivalenceAssumption
<1>4. \A i \in DOMAIN LabelOrder : i \in Nat
  BY <1>3
<1> QED BY <1>2, <1>4

(* In a group, two entries that are not one are of two ranks: they are     *)
(* sorted by these alone.                                                  *)
LEMMA RankTells ==
  ASSUME NEW t, NEW g, Proper(t, g), NEW i \in DOMAIN g, NEW j \in DOMAIN g
  PROVE  /\ Rank(g[i]) \in Nat
         /\ i # j => Rank(g[i]) # Rank(g[j]) /\ g[i] # g[j]
         /\ Before(g, i, j) <=> Rank(g[i]) < Rank(g[j])
<1>1. EntryKnown(t, g[i]) /\ EntryKnown(t, g[j])
  BY DEF Proper
<1>2. /\ Rank(g[i]) \in Nat /\ LabelOrder[Rank(g[i])] = g[i].platform
      /\ Rank(g[j]) \in Nat /\ LabelOrder[Rank(g[j])] = g[j].platform
  BY <1>1, RankKnown
<1>3. i # j => Rank(g[i]) # Rank(g[j]) /\ g[i] # g[j]
  BY <1>2 DEF Proper
<1>4. i \in Nat /\ j \in Nat
  BY DEF Proper
<1> QED BY <1>2, <1>3, <1>4 DEF Before

(* The baseline of a group, as the set of its entries has it.              *)
Baseline(E) ==
  IF \E e \in E : e.platform = "macos-arm64"
  THEN CHOOSE e \in E : e.platform = "macos-arm64"
  ELSE CHOOSE e \in E : \A f \in E \ {e} : Rank(e) < Rank(f)

LEMMA BaselineOfGroup ==
  ASSUME NEW t, NEW g, Proper(t, g), DOMAIN g # {}
  PROVE  choose_baseline(g) = Baseline(ToSet(g)) /\ Baseline(ToSet(g)) \in ToSet(g)
<1> DEFINE Arm == {i \in DOMAIN g : g[i].platform = "macos-arm64"}
<1>1. DOMAIN g \in SUBSET Nat
  BY DEF Proper
<1>2. CASE Arm # {}
  <2>1. \A i, j \in Arm : i = j
    BY DEF Proper
  <2>2. PICK i \in Arm : TRUE
    BY <1>2
  <2>3. (CHOOSE k \in Arm : \A j \in Arm : k <= j) = i
    <3>1. i \in Nat
      BY <1>1, <2>2
    <3>2. \A j \in Arm : i <= j
      BY <2>1, <3>1
    <3> QED BY <2>1, <2>2, <3>2
  <2>4. choose_baseline(g) = g[i]
    BY <1>2, <2>3 DEF choose_baseline
  <2>5. Baseline(ToSet(g)) = g[i] /\ g[i] \in ToSet(g)
    <3>1. g[i] \in ToSet(g) /\ g[i].platform = "macos-arm64"
      BY <2>2 DEF ToSet
    <3>2. \A e \in ToSet(g) : e.platform = "macos-arm64" => e = g[i]
      BY <2>1, <2>2 DEF ToSet
    <3> QED BY <3>1, <3>2 DEF Baseline
  <2> QED BY <2>4, <2>5
<1>3. CASE Arm = {}
  <2> DEFINE Ranks == {Rank(g[i]) : i \in DOMAIN g}
  <2>1. Ranks \in SUBSET Nat /\ Ranks # {}
    BY RankTells
  <2>2. PICK r \in Ranks : \A s \in Ranks : r <= s
    BY <2>1, LeastElement
  <2>3. PICK i \in DOMAIN g : r = Rank(g[i])
    BY <2>2
  <2>4. \A j \in DOMAIN g \ {i} : Rank(g[i]) < Rank(g[j])
    <3> TAKE j \in DOMAIN g \ {i}
    <3>1. Rank(g[i]) \in Nat /\ Rank(g[j]) \in Nat /\ Rank(g[i]) # Rank(g[j])
      BY RankTells
    <3>2. Rank(g[i]) <= Rank(g[j])
      BY <2>2, <2>3
    <3> QED BY <3>1, <3>2
  <2>5. \A k \in DOMAIN g : (\A j \in DOMAIN g \ {k} : Before(g, k, j)) => k = i
    <3> SUFFICES ASSUME NEW k \in DOMAIN g, \A j \in DOMAIN g \ {k} : Before(g, k, j), k # i
                 PROVE  FALSE
      OBVIOUS
    <3>1. Rank(g[k]) < Rank(g[i]) /\ Rank(g[i]) < Rank(g[k])
      BY <2>4, RankTells
    <3>2. Rank(g[k]) \in Nat /\ Rank(g[i]) \in Nat
      BY RankTells
    <3> QED BY <3>1, <3>2
  <2>6. \A j \in DOMAIN g \ {i} : Before(g, i, j)
    BY <2>4, RankTells
  <2>7. (CHOOSE k \in DOMAIN g : \A j \in DOMAIN g \ {k} : Before(g, k, j)) = i
    BY <2>5, <2>6
  <2>8. choose_baseline(g) = g[i]
    BY <1>3, <2>7 DEF choose_baseline
  <2>9. Baseline(ToSet(g)) = g[i] /\ g[i] \in ToSet(g)
    <3>1. g[i] \in ToSet(g) /\ \A f \in ToSet(g) \ {g[i]} : Rank(g[i]) < Rank(f)
      BY <2>4 DEF ToSet
    <3>2. ASSUME NEW e \in ToSet(g), \A f \in ToSet(g) \ {e} : Rank(e) < Rank(f)
          PROVE  e = g[i]
      <4> SUFFICES ASSUME e # g[i] PROVE FALSE
        OBVIOUS
      <4>1. PICK k \in DOMAIN g : e = g[k]
        BY DEF ToSet
      <4>2. Rank(e) < Rank(g[i]) /\ Rank(g[i]) < Rank(e)
        BY <3>1, <3>2
      <4>3. Rank(e) \in Nat /\ Rank(g[i]) \in Nat
        BY <4>1, RankTells
      <4> QED BY <4>2, <4>3
    <3>3. ~ \E e \in ToSet(g) : e.platform = "macos-arm64"
      BY <1>3 DEF ToSet
    <3>4. (CHOOSE e \in ToSet(g) : \A f \in ToSet(g) \ {e} : Rank(e) < Rank(f)) = g[i]
      BY <3>1, <3>2
    <3> QED BY <3>1, <3>3, <3>4 DEF Baseline
  <2> QED BY <2>8, <2>9
<1> QED BY <1>2, <1>3

----------------------------------------------------------------------------
(* What a comparison says of a group, as the set of its entries has it.    *)
PairClose(t, a, b) == Close(t, a, b, Tolerance(t, Class(a, b)))

VerdictOf(t, E) ==
  LET base == Baseline(E)
  IN  CASE t = "diffusion" ->
             IF \E e \in E \ {base} : ~Covers(Numbers(t, base), Numbers(t, e)) THEN "error"
             ELSE IF \A e \in E \ {base} : Close(t, base, e, Tolerance(t, "any"))
                  THEN "pass" ELSE "fail"
        [] t = "tail-v1" ->
             IF \A e \in E \ {base} : Close(t, base, e, Tolerance(t, "any"))
             THEN "pass" ELSE "fail"
        [] OTHER ->
             IF \A a, b \in E : Rank(a) < Rank(b) => PairClose(t, a, b) THEN "pass" ELSE "fail"

LEMMA PairIsClose ==
  ASSUME NEW t \in {"tail-v2", "modulation"}, NEW a, NEW b
  PROVE  compare_pair(t, a, b) <=> PairClose(t, a, b)
<1>1. CASE t = "tail-v2"
  BY <1>1 DEF compare_pair, compare_pair_v2, PairClose, Close, Numbers, Facts
<1>2. CASE t = "modulation"
  BY <1>2 DEF compare_pair, compare_pair_modulation, PairClose, Close, Numbers, Facts
<1> QED BY <1>1, <1>2

LEMMA VerdictOfGroup ==
  ASSUME NEW t \in Compared, NEW g, Proper(t, g), DOMAIN g # {}
  PROVE  compare_group(t, g) = VerdictOf(t, ToSet(g))
<1>1. choose_baseline(g) = Baseline(ToSet(g))
  BY BaselineOfGroup
<1>2. CASE t = "diffusion"
  <2>1. \A e : /\ Numbers(t, e) = numeric_diffusion(e.measured)
               /\ Facts(t, e) = structural_diffusion(e.measured)
    BY <1>2 DEF Numbers, Facts
  <2>2. compare_group(t, g) = compare_diffusion(g)
    BY <1>2 DEF compare_group
  <2> QED BY <1>1, <1>2, <2>1, <2>2 DEF compare_diffusion, Candidates, VerdictOf, Close
<1>3. CASE t = "tail-v1"
  <2>1. \A e : /\ Numbers(t, e) = numeric_tail(e.measured)
               /\ Facts(t, e) = structural_tail(e.measured)
    BY <1>3 DEF Numbers, Facts
  <2>2. compare_group(t, g) = compare_tail(g)
    BY <1>3 DEF compare_group
  <2> QED BY <1>1, <1>3, <2>1, <2>2 DEF compare_tail, Candidates, VerdictOf, Close
<1>4. CASE t \in {"tail-v2", "modulation"}
  <2>1. compare_group(t, g) = IF EveryPair(t, g) THEN "pass" ELSE "fail"
    BY <1>4 DEF compare_group
  <2>2. EveryPair(t, g) <=>
          \A i, j \in DOMAIN g : Rank(g[i]) < Rank(g[j]) => PairClose(t, g[i], g[j])
    BY <1>4, PairIsClose, RankTells DEF EveryPair
  <2>3. EveryPair(t, g) <=>
          \A a, b \in ToSet(g) : Rank(a) < Rank(b) => PairClose(t, a, b)
    BY <2>2 DEF ToSet
  <2> QED BY <1>4, <2>1, <2>3 DEF VerdictOf
<1> QED BY <1>2, <1>3, <1>4 DEF Compared

LEMMA ClassSymmetric == \A a, b : Class(a, b) = Class(b, a)
  BY DEF Class

LEMMA ToleranceKnown ==
  ASSUME NEW t \in Compared
  PROVE  Tolerance(t, "any") \in Nat /\ \A a, b : Tolerance(t, Class(a, b)) \in Nat
  BY EquivalenceAssumption DEF Classes, Class

LEMMA AlikeSelf ==
  ASSUME NEW t \in Compared, NEW e, EntryKnown(t, e), NEW tolerance \in Nat
  PROVE  Alike(t, e, e, tolerance)
  BY NumbersKnown, DistanceSame DEF Alike, Numeric

LEMMA AlikeWider ==
  ASSUME NEW t \in Compared, NEW a, NEW b, EntryKnown(t, a), EntryKnown(t, b),
         NEW tolerance \in Nat, Alike(t, a, b, tolerance)
  PROVE  Alike(t, a, b, 2 * tolerance)
<1> SUFFICES ASSUME NEW n \in DOMAIN Numbers(t, a) \cap DOMAIN Numbers(t, b)
             PROVE  Distance(Numbers(t, a)[n], Numbers(t, b)[n]) <= 2 * tolerance
  BY DEF Alike
<1>1. Numbers(t, a)[n] \in Int /\ Numbers(t, b)[n] \in Int
  BY NumbersKnown DEF Numeric
<1>2. Distance(Numbers(t, a)[n], Numbers(t, b)[n]) \in Nat
  BY <1>1, DistanceSame
<1>3. Distance(Numbers(t, a)[n], Numbers(t, b)[n]) <= tolerance
  BY DEF Alike
<1> QED BY <1>2, <1>3

(* What passes holds of every two entries of the group.                    *)
LEMMA PassedAlike ==
  ASSUME NEW t \in Compared, NEW g, Proper(t, g), DOMAIN g # {},
         compare_group(t, g) = "pass", NEW a \in ToSet(g), NEW b \in ToSet(g)
  PROVE  Alike(t, a, b, Apart(t, a, b))
<1>1. VerdictOf(t, ToSet(g)) = "pass"
  BY VerdictOfGroup
<1>2. \A e \in ToSet(g) : EntryKnown(t, e)
  BY DEF Proper, ToSet
<1>3. Tolerance(t, "any") \in Nat /\ Tolerance(t, Class(a, b)) \in Nat
  BY ToleranceKnown
<1>4. CASE t \in {"diffusion", "tail-v1"}
  <2> DEFINE base == Baseline(ToSet(g))
  <2>1. base \in ToSet(g)
    BY BaselineOfGroup
  <2>2. \A e \in ToSet(g) \ {base} : Close(t, base, e, Tolerance(t, "any"))
    <3>1. CASE t = "diffusion"
      BY <1>1, <3>1 DEF VerdictOf
    <3>2. CASE t = "tail-v1"
      BY <1>1, <3>2 DEF VerdictOf
    <3> QED BY <1>4, <3>1, <3>2
  <2>3. Apart(t, a, b) = 2 * Tolerance(t, "any")
    BY <1>4 DEF Apart
  <2> HIDE DEF base
  <2>4. CASE a = b
    <3>1. 2 * Tolerance(t, "any") \in Nat
      BY <1>3
    <3> QED BY <1>2, <2>3, <2>4, <3>1, AlikeSelf
  <2>5. CASE a # b /\ a = base
    BY <1>2, <1>3, <2>1, <2>2, <2>3, <2>5, CloseAlike, AlikeWider
  <2>6. CASE a # b /\ b = base
    BY <1>2, <1>3, <2>1, <2>2, <2>3, <2>6, CloseAlike, AlikeWider
  <2>7. CASE a # base /\ b # base
    BY <1>2, <1>3, <1>4, <2>1, <2>2, <2>3, <2>7, CloseToOne
  <2> QED BY <2>4, <2>5, <2>6, <2>7
<1>5. CASE t \in {"tail-v2", "modulation"}
  <2>1. \A c, d \in ToSet(g) : Rank(c) < Rank(d) => PairClose(t, c, d)
    BY <1>1, <1>5 DEF VerdictOf
  <2>2. Apart(t, a, b) = Tolerance(t, Class(a, b)) /\ Class(b, a) = Class(a, b)
    BY <1>5, ClassSymmetric DEF Apart
  <2>3. CASE a = b
    BY <1>2, <1>3, <2>2, <2>3, AlikeSelf
  <2>4. CASE a # b
    <3>1. /\ Rank(a) \in Nat /\ Rank(b) \in Nat /\ Rank(a) # Rank(b)
      <4>1. PICK i \in DOMAIN g : a = g[i]
        BY DEF ToSet
      <4>2. PICK j \in DOMAIN g : b = g[j]
        BY DEF ToSet
      <4> QED BY <2>4, <4>1, <4>2, RankTells
    <3>2. Rank(a) < Rank(b) \/ Rank(b) < Rank(a)
      BY <3>1
    <3>3. PairClose(t, a, b) \/ PairClose(t, b, a)
      BY <2>1, <3>2
    <3> QED BY <1>2, <1>3, <2>2, <3>3, CloseAlike DEF PairClose
  <2> QED BY <2>3, <2>4
<1> QED BY <1>4, <1>5 DEF Compared

----------------------------------------------------------------------------
(* The comparison of a list of entries, one of each platform in a          *)
(* precision.                                                              *)
ProperEntries(t, entries) ==
  /\ DOMAIN entries \in SUBSET Nat /\ IsFiniteSet(DOMAIN entries)
  /\ \A i \in DOMAIN entries : EntryKnown(t, entries[i])
  /\ \A i, j \in DOMAIN entries :
       i # j => <<entries[i].platform, entries[i].precision>>
                  # <<entries[j].platform, entries[j].precision>>

Of(E, precision) == {e \in E : e.precision = precision}

GroupOf(entries, precision) ==
  Restrict(entries, {i \in DOMAIN entries : entries[i].precision = precision})

LEMMA GroupProper ==
  ASSUME NEW t, NEW entries, ProperEntries(t, entries), NEW precision
  PROVE  /\ Proper(t, GroupOf(entries, precision))
         /\ ToSet(GroupOf(entries, precision)) = Of(ToSet(entries), precision)
<1> DEFINE S == {i \in DOMAIN entries : entries[i].precision = precision}
           g == GroupOf(entries, precision)
<1>1. DOMAIN g = S /\ \A i \in S : g[i] = entries[i]
  BY DEF GroupOf, Restrict
<1>2. S \in SUBSET DOMAIN entries
  OBVIOUS
<1>3. IsFiniteSet(S) /\ S \in SUBSET Nat
  BY <1>2, FS_Subset DEF ProperEntries
<1>4. \A i \in S : EntryKnown(t, entries[i])
  BY DEF ProperEntries
<1>5. \A i, j \in S : i # j => entries[i].platform # entries[j].platform
  BY DEF ProperEntries
<1> HIDE DEF g
<1>6. Proper(t, g)
  BY <1>1, <1>3, <1>4, <1>5 DEF Proper
<1>7. ToSet(g) = Of(ToSet(entries), precision)
  BY <1>1 DEF ToSet, Of
<1> QED BY <1>6, <1>7 DEF g

(* A group is compared when there are two entries in it.                   *)
LEMMA ComparedGroup ==
  ASSUME NEW t, NEW g, Proper(t, g)
  PROVE  Cardinality(DOMAIN g) >= 2 <=> \E a, b \in ToSet(g) : a # b
<1>1. IsFiniteSet(DOMAIN g)
  BY DEF Proper
<1>2. Cardinality(DOMAIN g) \in Nat
  BY <1>1, FS_CardinalityType
<1>3. ASSUME NEW a \in ToSet(g), NEW b \in ToSet(g), a # b
      PROVE  Cardinality(DOMAIN g) >= 2
  <2>1. PICK i \in DOMAIN g : a = g[i]
    BY DEF ToSet
  <2>2. PICK j \in DOMAIN g : b = g[j]
    BY DEF ToSet
  <2>3. i # j
    BY <1>3, <2>1, <2>2
  <2>4. {i} \in SUBSET DOMAIN g /\ {i} # DOMAIN g
    BY <2>2, <2>3
  <2>5. IsFiniteSet({i}) /\ Cardinality({i}) = 1
    BY FS_Singleton
  <2>6. 1 <= Cardinality(DOMAIN g) /\ 1 # Cardinality(DOMAIN g)
    BY <1>1, <2>4, <2>5, FS_Subset
  <2> QED BY <1>2, <2>6
<1>4. ASSUME Cardinality(DOMAIN g) >= 2
      PROVE  \E a, b \in ToSet(g) : a # b
  <2>1. DOMAIN g # {}
    <3>1. Cardinality({}) = 0 /\ ~(0 >= 2)
      BY FS_EmptySet
    <3> QED BY <1>4, <3>1
  <2>2. PICK i \in DOMAIN g : TRUE
    BY <2>1
  <2>3. DOMAIN g # {i}
    <3>1. Cardinality({i}) = 1
      BY FS_Singleton
    <3> QED BY <1>4, <3>1
  <2>4. PICK j \in DOMAIN g : j # i
    BY <2>2, <2>3
  <2>5. g[i] # g[j]
    BY <2>4, RankTells
  <2> QED BY <2>5 DEF ToSet
<1> QED BY <1>3, <1>4

(* The verdicts, as the set of the entries has them.                       *)
Precisions(E) == {e.precision : e \in E}

VerdictsOf(t, E) ==
  {VerdictOf(t, Of(E, p)) : p \in {q \in Precisions(E) : \E a, b \in Of(E, q) : a # b}}

OverallOf(verdicts) == IF "error" \in verdicts THEN "error"
                       ELSE IF "fail" \in verdicts THEN "fail" ELSE "pass"

LEMMA ComparisonOf ==
  ASSUME NEW t \in Compared, NEW entries, ProperEntries(t, entries)
  PROVE  compare(t, entries) = OverallOf(VerdictsOf(t, ToSet(entries)))
<1> DEFINE E == ToSet(entries)
           groups == {GroupOf(entries, entries[i].precision) : i \in DOMAIN entries}
           verdicts == {compare_group(t, group) :
                          group \in {g \in groups : Cardinality(DOMAIN g) >= 2}}
<1>1. compare(t, entries) = OverallOf(verdicts)
  BY DEF compare, OverallOf, GroupOf
<1>2. groups = {GroupOf(entries, p) : p \in Precisions(E)}
  BY DEF Precisions, ToSet
<1>3. ASSUME NEW p \in Precisions(E)
      PROVE  /\ Cardinality(DOMAIN GroupOf(entries, p)) >= 2 <=> \E a, b \in Of(E, p) : a # b
             /\ compare_group(t, GroupOf(entries, p)) = VerdictOf(t, Of(E, p))
  <2>1. Proper(t, GroupOf(entries, p)) /\ ToSet(GroupOf(entries, p)) = Of(E, p)
    BY GroupProper
  <2>2. DOMAIN GroupOf(entries, p) # {}
    <3>1. Of(E, p) # {}
      BY DEF Of, Precisions
    <3> QED BY <2>1, <3>1 DEF ToSet
  <2> QED BY <2>1, <2>2, ComparedGroup, VerdictOfGroup
<1> HIDE DEF E
<1>4. verdicts = VerdictsOf(t, E)
  <2>1. ASSUME NEW v \in verdicts PROVE v \in VerdictsOf(t, E)
    BY <1>2, <1>3 DEF VerdictsOf
  <2>2. ASSUME NEW v \in VerdictsOf(t, E) PROVE v \in verdicts
    BY <1>2, <1>3 DEF VerdictsOf
  <2> QED BY <2>1, <2>2
<1> HIDE DEF verdicts
<1> QED BY <1>1, <1>4 DEF E

LEMMA PassedIsAlike ==
  ASSUME NEW t \in Compared, NEW entries, ProperEntries(t, entries),
         compare(t, entries) = "pass",
         NEW a \in ToSet(entries), NEW b \in ToSet(entries), a.precision = b.precision
  PROVE  Alike(t, a, b, Apart(t, a, b))
<1> DEFINE p == a.precision
           g == GroupOf(entries, p)
           E == ToSet(entries)
<1>1. Proper(t, g) /\ ToSet(g) = Of(E, p)
  BY GroupProper
<1>2. a \in Of(E, p) /\ b \in Of(E, p) /\ p \in Precisions(E)
  BY DEF Of, Precisions
<1> HIDE DEF g, p, E
<1>3. DOMAIN g # {}
  BY <1>1, <1>2 DEF ToSet
<1>4. compare_group(t, g) = VerdictOf(t, Of(E, p))
  BY <1>1, <1>3, VerdictOfGroup
<1>5. CASE a # b
  <2>1. VerdictOf(t, Of(E, p)) \in VerdictsOf(t, E)
    BY <1>2, <1>5 DEF VerdictsOf
  <2>2. VerdictOf(t, Of(E, p)) \notin {"error", "fail"}
    BY <2>1, ComparisonOf DEF OverallOf, E
  <2>3. VerdictOf(t, Of(E, p)) \in {"error", "fail", "pass"}
    BY DEF VerdictOf, Compared
  <2> QED BY <1>1, <1>2, <1>3, <1>4, <2>2, <2>3, PassedAlike
<1>6. CASE a = b
  <2>1. EntryKnown(t, a)
    BY DEF ProperEntries, ToSet
  <2>2. Apart(t, a, a) \in Nat
    BY ToleranceKnown DEF Apart
  <2> QED BY <1>6, <2>1, <2>2, AlikeSelf
<1> QED BY <1>5, <1>6

(* An order of the entries has each of them once.                          *)
LEMMA OrderProper ==
  ASSUME NEW t, NEW entries, ProperEntries(t, entries), NEW order \in SetToSeqs(ToSet(entries))
  PROVE  ProperEntries(t, order) /\ ToSet(order) = ToSet(entries)
<1> DEFINE E == ToSet(entries)
           D == 1..Cardinality(E)
<1>1. order \in [D -> E] /\ \A i, j \in D : i # j => order[i] # order[j]
  BY DEF SetToSeqs
<1>2. IsFiniteSet(E)
  <2> DEFINE f == [i \in DOMAIN entries |-> entries[i]]
  <2>1. f \in Surjection(DOMAIN entries, E)
    BY DEF Surjection, ToSet
  <2> QED BY <2>1, FS_Surjection DEF ProperEntries
<1>3. Cardinality(E) \in Nat
  BY <1>2, FS_CardinalityType
<1>4. IsFiniteSet(D) /\ Cardinality(D) = Cardinality(E) /\ D \in SUBSET Nat
  BY <1>3, FS_Interval
<1> HIDE DEF E, D
<1>5. order \in Injection(D, E)
  BY <1>1 DEF Injection, IsInjective
<1>6. order \in Surjection(D, E)
  BY <1>2, <1>4, <1>5, FS_Injection
<1>7. DOMAIN order = D /\ ToSet(order) = E
  BY <1>1, <1>6 DEF Surjection, ToSet
<1>8. \A a, b \in E : a # b => <<a.platform, a.precision>> # <<b.platform, b.precision>>
  BY DEF E, ToSet, ProperEntries
<1>9. \A e \in E : EntryKnown(t, e)
  BY DEF E, ToSet, ProperEntries
<1> QED BY <1>1, <1>4, <1>7, <1>8, <1>9 DEF ProperEntries, E

LEMMA OrderIndependent ==
  ASSUME NEW t \in Compared, NEW entries, ProperEntries(t, entries),
         NEW order \in SetToSeqs(ToSet(entries))
  PROVE  compare(t, order) = compare(t, entries)
<1>1. ProperEntries(t, order) /\ ToSet(order) = ToSet(entries)
  BY OrderProper
<1> QED BY <1>1, ComparisonOf

----------------------------------------------------------------------------
(* What the extractors keep of a measurement is known.                     *)
LEMMA ExtractKnown ==
  ASSUME NEW t \in Compared, NEW metadata, NEW e, Measurement(e.measured)
  PROVE  /\ extract(t, metadata, e).platform = metadata.platform
         /\ extract(t, metadata, e).precision = metadata.precision
         /\ Metrics(t, extract(t, metadata, e).measured)
<1>1. CASE t = "diffusion"
  BY <1>1 DEF extract, extract_diffusion, Entry, Metrics, Measurement
<1>2. CASE t = "tail-v1"
  BY <1>2 DEF extract, extract_tail, Entry, Metrics, Measurement
<1>3. CASE t = "tail-v2"
  BY <1>3 DEF extract, extract_tail_v2, Entry, Metrics, Measurement
<1>4. CASE t = "modulation"
  BY <1>4 DEF extract, extract_modulation, Entry, Metrics, Measurement
<1> QED BY <1>1, <1>2, <1>3, <1>4 DEF Compared

(* What is published is a measurement.                                     *)
LEMMA ArtifactMeasured ==
  ASSUME PublicationTypeOK, NEW t \in Compared, artifact[t] # None
  PROVE  Measurement(artifact[t].measured)
<1>1. t \in Names
  BY AnalyzersAssumption DEF Compared, Tools, ArtifactName
<1>2. artifact[t] \in Evidences
  BY <1>1, AnalyzersAssumption DEF PublicationTypeOK
<1>3. artifact[t].measured \in {r.measured : r \in Renders} \cup {OtherMeasured}
  BY <1>2 DEF Evidences
<1> QED BY <1>3, EquivalenceAssumption

(* The summaries that are compared are of one platform each.               *)
LEMMA EntriesProper ==
  ASSUME NEW t \in Compared, NEW r \in Renders, NEW others \in Elsewhere(r), NEW own,
         own.platform = Platform, own.precision = r.precision, Metrics(t, own.measured)
  PROVE  ProperEntries(t, Append([i \in DOMAIN others |->
                                    extract(t, others[i].metadata, others[i].evidence)], own))
<1> DEFINE elsewhere == [i \in DOMAIN others |-> extract(t, others[i].metadata, others[i].evidence)]
           entries == Append(elsewhere, own)
           n == Len(others)
           Key(e) == <<e.platform, e.precision>>
<1>1. /\ others \in Seq(ToSet(others))
      /\ Platform \in ToSet(LabelOrder)
      /\ \A i \in DOMAIN others :
           /\ Measurement(others[i].evidence.measured)
           /\ others[i].metadata.platform \in ToSet(LabelOrder)
           /\ Key(others[i].metadata) # <<Platform, r.precision>>
      /\ \A i, j \in DOMAIN others :
           i # j => Key(others[i].metadata) # Key(others[j].metadata)
  BY EquivalenceAssumption
<1>2. n \in Nat /\ DOMAIN others = 1..n
  BY <1>1
<1>3. \A i \in 1..n :
        /\ elsewhere[i].platform = others[i].metadata.platform
        /\ elsewhere[i].precision = others[i].metadata.precision
        /\ EntryKnown(t, elsewhere[i])
  BY <1>1, <1>2, ExtractKnown DEF EntryKnown
<1>4. elsewhere \in Seq(ToSet(elsewhere)) /\ Len(elsewhere) = n
  BY <1>2 DEF ToSet
<1> HIDE DEF elsewhere, n
<1>5. DOMAIN entries = 1..(n + 1) /\ entries[n + 1] = own /\ \A i \in 1..n : entries[i] = elsewhere[i]
  BY <1>2, <1>4
<1> HIDE DEF entries
<1>6. DOMAIN entries \in SUBSET Nat /\ IsFiniteSet(DOMAIN entries)
  <2>1. n + 1 \in Int /\ 1 \in Int /\ 1..(n + 1) \in SUBSET Nat
    BY <1>2
  <2>2. IsFiniteSet(1..(n + 1))
    BY <2>1, FS_Interval
  <2> QED BY <1>5, <2>1, <2>2
<1>7. EntryKnown(t, own)
  BY <1>1 DEF EntryKnown
<1>8. \A i \in DOMAIN entries : EntryKnown(t, entries[i])
  BY <1>2, <1>3, <1>5, <1>7
<1>9. ASSUME NEW i \in DOMAIN entries, NEW j \in DOMAIN entries, i # j
      PROVE  Key(entries[i]) # Key(entries[j])
  <2>1. Key(own) = <<Platform, r.precision>>
    OBVIOUS
  <2>2. \A k \in 1..n : Key(entries[k]) = Key(others[k].metadata)
    BY <1>3, <1>5
  <2> HIDE DEF Key
  <2>3. CASE i \in 1..n /\ j \in 1..n
    BY <1>1, <1>2, <1>9, <2>2, <2>3
  <2>4. CASE i = n + 1 /\ j \in 1..n
    BY <1>1, <1>2, <1>5, <2>1, <2>2, <2>4
  <2>5. CASE j = n + 1 /\ i \in 1..n
    BY <1>1, <1>2, <1>5, <2>1, <2>2, <2>5
  <2> QED BY <1>2, <1>5, <1>9, <2>3, <2>4, <2>5
<1>10. ProperEntries(t, entries)
  BY <1>6, <1>8, <1>9 DEF ProperEntries
<1> QED BY <1>10 DEF entries, elsewhere

----------------------------------------------------------------------------
(* A summary is of this platform, and a report says of proper entries what *)
(* their comparison is.                                                    *)
SummariesKnown ==
  /\ DOMAIN summary = Compared
  /\ \A t \in Compared : summary[t] \notin {None, Partial} =>
       /\ summary[t].platform = Platform /\ summary[t].precision = render.precision
       /\ Metrics(t, summary[t].measured)

ReportKnown(t, r) ==
  \/ r = [entries |-> << >>, verdict |-> "error"]
  \/ ProperEntries(t, r.entries) /\ r.verdict = compare(t, r.entries)

ReportsKnown ==
  /\ DOMAIN report = Compared
  /\ \A t \in Compared : report[t] # None => ReportKnown(t, report[t])

ComparisonInv == SummariesKnown /\ ReportsKnown

LEMMA ReportIsSound ==
  ASSUME ReportsKnown
  PROVE  EquivalenceSound
<1> SUFFICES ASSUME NEW t \in Compared, report[t] # None
             PROVE  LET entries == report[t].entries IN
                    /\ report[t].verdict = "pass" =>
                         \A i, j \in DOMAIN entries : entries[i].precision = entries[j].precision =>
                           Alike(t, entries[i], entries[j], Apart(t, entries[i], entries[j]))
                    /\ \A order \in SetToSeqs(ToSet(entries)) :
                         entries = << >> \/ compare(t, order) = report[t].verdict
  BY DEF EquivalenceSound, Alike
<1> DEFINE entries == report[t].entries
<1>1. CASE report[t] = [entries |-> << >>, verdict |-> "error"]
  BY <1>1
<1>2. CASE ProperEntries(t, entries) /\ report[t].verdict = compare(t, entries)
  <2>1. \A i \in DOMAIN entries : entries[i] \in ToSet(entries)
    BY DEF ToSet
  <2> HIDE DEF entries
  <2>2. report[t].verdict = "pass" =>
          \A i, j \in DOMAIN entries : entries[i].precision = entries[j].precision =>
            Alike(t, entries[i], entries[j], Apart(t, entries[i], entries[j]))
    BY <1>2, <2>1, PassedIsAlike
  <2>3. \A order \in SetToSeqs(ToSet(entries)) : compare(t, order) = report[t].verdict
    BY <1>2, OrderIndependent
  <2> QED BY <2>2, <2>3 DEF entries
<1> QED BY <1>1, <1>2 DEF ReportsKnown, ReportKnown

LEMMA RenderStays == ASSUME [Next]_vars PROVE render' = render
  BY DEF Next, AnalyzerNext, Start, Analyze, Publish, Replace, EditResolved, Extract,
         ExtractKilled, Compare, vars, analyzerVars, resultVars

LEMMA ComparisonNext ==
  ASSUME Inv, ComparisonInv, [Next]_vars
  PROVE  ComparisonInv'
<1>1. render' = render /\ render \in Renders /\ PublicationTypeOK
  BY RenderStays DEF Inv, ResultKnown, PublicationInv
<1>2. CASE UNCHANGED equivalenceVars
  BY <1>1, <1>2 DEF equivalenceVars, ComparisonInv, SummariesKnown, ReportsKnown
<1>3. ASSUME NEW t \in Compared, Extract(t) PROVE ComparisonInv'
  <2>1. /\ artifact[t] # None /\ report' = report
        /\ summary' = [summary EXCEPT ![t] = extract(t, Here, artifact[t])]
    BY <1>3 DEF Extract
  <2>2. Measurement(artifact[t].measured)
    BY <1>1, <2>1, ArtifactMeasured
  <2>3. /\ extract(t, Here, artifact[t]).platform = Platform
        /\ extract(t, Here, artifact[t]).precision = render.precision
        /\ Metrics(t, extract(t, Here, artifact[t]).measured)
    BY <2>2, ExtractKnown DEF Here
  <2> QED BY <1>1, <2>1, <2>3 DEF ComparisonInv, SummariesKnown, ReportsKnown
<1>4. ASSUME NEW t \in Compared, ExtractKilled(t) PROVE ComparisonInv'
  BY <1>1, <1>4 DEF ExtractKilled, ComparisonInv, SummariesKnown, ReportsKnown
<1>5. ASSUME NEW t \in Compared, Compare(t) PROVE ComparisonInv'
  <2>1. PICK others \in Elsewhere(render) :
          LET elsewhere == [i \in DOMAIN others |->
                              extract(t, others[i].metadata, others[i].evidence)]
              entries == Append(elsewhere, summary[t])
          IN  report' = [report EXCEPT ![t] =
                IF summary[t] = Partial THEN [entries |-> << >>, verdict |-> "error"]
                ELSE [entries |-> entries, verdict |-> compare(t, entries)]]
    BY <1>5 DEF Compare
  <2> DEFINE entries == Append([i \in DOMAIN others |->
                                  extract(t, others[i].metadata, others[i].evidence)], summary[t])
  <2>2. summary' = summary /\ summary[t] # None
    BY <1>5 DEF Compare
  <2>3. summary[t] # Partial => ProperEntries(t, entries)
    BY <1>1, <2>2, EntriesProper DEF ComparisonInv, SummariesKnown
  <2> HIDE DEF entries
  <2>4. report' = [report EXCEPT ![t] =
          IF summary[t] = Partial THEN [entries |-> << >>, verdict |-> "error"]
          ELSE [entries |-> entries, verdict |-> compare(t, entries)]]
    BY <2>1 DEF entries
  <2>5. DOMAIN report' = Compared /\ ReportKnown(t, report'[t])
        /\ \A u \in Compared : u # t => report'[u] = report[u]
    BY <2>3, <2>4 DEF ReportKnown, ComparisonInv, ReportsKnown
  <2>6. ReportsKnown'
    <3>1. \A u \in Compared : report'[u] # None => ReportKnown(u, report'[u])
      BY <2>5 DEF ComparisonInv, ReportsKnown
    <3> QED BY <2>5, <3>1 DEF ReportsKnown, ReportKnown
  <2> QED BY <1>1, <2>2, <2>6 DEF ComparisonInv, SummariesKnown
<1> QED BY <1>2, <1>3, <1>4, <1>5 DEF Next, vars

THEOREM ComparisonInvariance == Spec => []ComparisonInv
<1>1. Init => ComparisonInv
  BY DEF Init, EquivalenceInit, ComparisonInv, SummariesKnown, ReportsKnown
<1>2. Inv /\ ComparisonInv /\ [Next]_vars => ComparisonInv'
  BY ComparisonNext
<1> QED BY <1>1, <1>2, Invariance, PTL DEF Spec

(* A comparison of the platforms that passes holds of every two of one     *)
(* precision, whichever was the baseline, and whatever is said does not    *)
(* depend on the order of the files on the command line.                   *)
THEOREM ComparisonIsSound == Spec => []EquivalenceSound
<1>1. ComparisonInv => EquivalenceSound
  BY ReportIsSound DEF ComparisonInv
<1> QED BY <1>1, ComparisonInvariance, PTL

=============================================================================
