---------------------------- MODULE FeedbackConfig ----------------------------
(***************************************************************************)
(* The resolved Feedback Loop configuration and the arithmetic of samples, *)
(* shared by the chunked Feedback Loop and the network it implements.      *)
(*                                                                         *)
(* Samples are uninterpreted: what the loop does to their values is given  *)
(* by operators, so that a result can only be right if every sample that   *)
(* went into it was.  A Channel's recursive state (both Damping shelves'   *)
(* previous input and output and the allpass interpolator's state) is one  *)
(* memory, updated once per frame.                                         *)
(***************************************************************************)
EXTENDS Integers

CONSTANTS
  Channels,        (* The loop's Channels.                                  *)
  Delay,           (* delaysSamples: [Channels -> Nat].                     *)
  Modulated,       (* Channels that are actually modulated.                 *)
  ExcursionFloor,  (* floor and ceiling of excursionSamples, a real.        *)
  ExcursionCeil,
  Interpolation,   (* "linear", "allpass" or "lagrange3".                   *)
  MaxChunkFrames,  (* kMaxChunkFrames.                                      *)
  Capturing,       (* Whether a capture sink is attached.                   *)
  Zero,            (* Silence.                                              *)
  Quiet,           (* The memory every Channel starts with.                 *)
  Tapped(_, _, _), (* The delayed sample: (channel, points, memory).        *)
  Returned(_, _, _),   (* It, after the Channel's gain and shelves.         *)
  Remembered(_, _, _), (* The memory after the frame.                       *)
  Mix(_, _),       (* One row of the mix matrix: (channel, vector).         *)
  Plus(_, _),
  Flush(_),        (* flushDenormal.                                        *)
  MaxFrames,       (* Bound of the model: frames processed altogether.      *)
  Signals,         (* Loop inputs: [0 .. MaxFrames-1 -> [Channels -> ...]]. *)
  Trajectories     (* Floors of the lookbacks the Modulation produces, by   *)
                   (* Channel and frame index.                              *)

(* kModulationInterpolationMarginSamples *)
InterpolationMargin == 3

----------------------------------------------------------------------------
(* Mutant: the headroom forgets the interpolator's reach.                  *)
BufferSizeWithoutMargin(c) ==
  IF c \in Modulated THEN Delay[c] + ExcursionCeil ELSE Delay[c]

----------------------------------------------------------------------------
(* The ring of a modulated Channel has headroom for the Excursion and the  *)
(* interpolator; any other ring is as long as its delay.                   *)
BufferSize(c) ==
  IF c \in Modulated THEN Delay[c] + ExcursionCeil + InterpolationMargin
                     ELSE Delay[c]

(* floor(delay - excursion), the shortest lookback of a Channel.           *)
ShortestLookback(c) ==
  IF c \in Modulated THEN Delay[c] - ExcursionCeil ELSE Delay[c]

LongestLookback(c) == Delay[c] + ExcursionFloor

BlockSizeBound ==
  CHOOSE b \in {ShortestLookback(c) : c \in Channels} :
    \A c \in Channels : b <= ShortestLookback(c)

(* Mutant: the chunk may be as long as the Block-size bound itself.        *)
ChunkFramesAtBound ==
  IF Capturing \/ BlockSizeBound <= 1 THEN 1
  ELSE IF BlockSizeBound < MaxChunkFrames THEN BlockSizeBound
       ELSE MaxChunkFrames

(* Reverb's constructor: clamp(bound - 1, 1, kMaxChunkFrames), or single   *)
(* frames while capturing.                                                 *)
ChunkFrames ==
  IF Capturing \/ BlockSizeBound <= 1 THEN 1
  ELSE IF BlockSizeBound - 1 < MaxChunkFrames THEN BlockSizeBound - 1
       ELSE MaxChunkFrames

(* How many samples one read takes, and the lookback of the newest.        *)
TapCount(c) ==
  IF c \notin Modulated THEN 1
  ELSE IF Interpolation = "lagrange3" THEN 4 ELSE 2

NewestLookback(c, base) ==
  IF c \notin Modulated THEN Delay[c]
  ELSE IF Interpolation = "lagrange3" THEN base - 1 ELSE base

(* What re-enters the delay line: input plus fed-back mix, denormals cut.  *)
Fed(c, input, returned) == Flush(Plus(input, Mix(c, returned)))

----------------------------------------------------------------------------
(* What configuration resolution guarantees: a positive bound, the delay   *)
(* less Excursion above the margin (modulationFitsDelay), lookbacks within *)
(* the Excursion.  "The minimum exists" says Channels is finite, not empty.*)
ASSUME FeedbackConfigAssumption ==
  /\ MaxFrames \in Nat
  /\ MaxChunkFrames \in Nat \ {0}
  /\ Capturing \in BOOLEAN
  /\ Interpolation \in {"linear", "allpass", "lagrange3"}
  /\ Modulated \subseteq Channels
  /\ ExcursionFloor \in Nat /\ ExcursionCeil \in Nat
  /\ ExcursionFloor <= ExcursionCeil /\ ExcursionCeil <= ExcursionFloor + 1
  /\ \A c \in Channels : Delay[c] \in Nat \ {0}
  /\ \A c \in Modulated : Delay[c] - ExcursionFloor > InterpolationMargin
  /\ \E c \in Channels : \A d \in Channels : ShortestLookback(c) <= ShortestLookback(d)
  /\ \A t \in Trajectories : \A c \in Modulated : \A n \in 0 .. MaxFrames - 1 :
       t[c][n] \in ShortestLookback(c) .. LongestLookback(c)

=============================================================================
