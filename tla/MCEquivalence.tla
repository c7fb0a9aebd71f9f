---------------------------- MODULE MCEquivalence ----------------------------
(* Renders of every shape for the analyzers; for the comparison, one of    *)
(* each kind with three platforms and what they may have measured.         *)
EXTENDS Equivalence

Measured(level, fit, flag, relative, bins) ==
  [level |-> level, fit |-> fit, flag |-> flag, relative |-> relative, bins |-> bins]

Plain == Measured(2, 1, TRUE, 1, 1)

Render(stages) ==
  [stages |-> stages, captured |-> FALSE, taps |-> {}, preDelay |-> 0, impulse |-> TRUE,
   finite |-> TRUE, wetOnly |-> TRUE, silenceFloor |-> FALSE, modulation |-> << >>,
   precision |-> "float32", measured |-> Plain, analyzers |-> Tools]

Diffusion == [Render(<<"split", "diffuser", "downmix">>) EXCEPT !.captured = TRUE]
Loop == [Render(<<"split", "feedback-loop", "downmix">>) EXCEPT
           !.modulation = "feedback-loop" :> TRUE]
Both == [Render(<<"split", "diffuser", "feedback-loop", "downmix">>) EXCEPT
           !.captured = TRUE, !.modulation = "feedback-loop" :> FALSE @@ "step-0" :> TRUE]

ShapedRenders ==
  {Render(<< >>), Diffusion, Loop,
   [Diffusion EXCEPT !.taps = {"step-0"}, !.preDelay = 1, !.wetOnly = FALSE],
   [Diffusion EXCEPT !.taps = {"step-0", "step-1"}],
   [Both EXCEPT !.preDelay = 1, !.silenceFloor = TRUE],
   [Both EXCEPT !.taps = {"step-1"}, !.finite = FALSE]}

Measurements == {Measured(0, 1, TRUE, 1, 1), Plain, Measured(3, 1, TRUE, 1, 1),
                 Measured(2, None, TRUE, 1, 1), Measured(2, 2, FALSE, None, 2)}

MCOtherMeasured == Measured(0, None, TRUE, 1, 1)

MCRenders == ShapedRenders \cup
  {[Diffusion EXCEPT !.measured = m, !.analyzers = {"diffusion"}] : m \in Measurements} \cup
  {[Loop EXCEPT !.measured = m, !.analyzers = {t}] :
     m \in Measurements, t \in {"tail-v1", "tail-v2", "modulation"}}

At(platform, precision, r, measured) ==
  [metadata |-> [platform |-> platform, precision |-> precision],
   evidence |-> [active |-> {o \in DOMAIN r.modulation : r.modulation[o]}, measured |-> measured]]

MCElsewhere(r) ==
  IF r.analyzers = Tools THEN {<< >>}
  ELSE {<<At("windows-x86_64", "float32", r, a), At("macos-arm64", "float32", r, b)>> :
          a \in Measurements, b \in Measurements} \cup
       {<<At("macos-arm64", "float64", r, a), At("windows-x86_64", "float32", r, Plain)>> :
          a \in Measurements}

MCArchitecture ==
  "macos-arm64" :> "arm64" @@ "macos-x86_64" :> "x86_64" @@ "windows-x86_64" :> "x86_64"

MCLabelOrder == <<"macos-arm64", "macos-x86_64", "windows-x86_64">>

MCTolerance(t, class) == IF class = "crossArchitecture" THEN 2 ELSE 1

MCContents == Evidences

Symmetric == Permutations(Workers)
MCNames == {ArtifactName(t) : t \in Tools}
=============================================================================
