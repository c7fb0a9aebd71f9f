---------------------------- MODULE FeedbackNetwork ----------------------------
(***************************************************************************)
(* What the Feedback Loop promises (FeedbackLoop.h:24, ADR-0008): the      *)
(* output of a feedback delay network run one frame at a time.  It knows   *)
(* no ring, no chunk and no block.  Frame n of a Channel is determined by  *)
(* the samples its taps look back to, in the whole history of the line.    *)
(*                                                                         *)
(* A step may extend the history by any number of frames: the equation of  *)
(* each frame is the same however the frames were grouped.                 *)
(***************************************************************************)
EXTENDS FeedbackConfig

VARIABLES
  signal,      (* The loop's input, fixed by the caller.                    *)
  trajectory,  (* The floors of the lookbacks, fixed by the configuration.  *)
  played,      (* Frames processed so far.                                  *)
  written,     (* What entered each Channel's delay line, by frame.         *)
  heard,       (* What each Channel put out, by frame.                      *)
  remembered   (* Each Channel's memory before every frame, and after all.  *)

vars == <<signal, trajectory, played, written, heard, remembered>>

Past(c, n) == IF n >= 0 THEN written[c][n] ELSE Zero

(* The lookback of the newest sample Channel c hears at frame n.           *)
Newest(c, n) ==
  NewestLookback(c, IF c \in Modulated THEN trajectory[c][n] ELSE Delay[c])

TapPoints(c, n) ==
  [j \in 0 .. TapCount(c) - 1 |-> Past(c, n - (Newest(c, n) + j))]

FrameEquation(n) ==
  \A c \in Channels :
    /\ heard[c][n] = Tapped(c, TapPoints(c, n), remembered[c][n])
    /\ remembered[c][n + 1] = Remembered(c, TapPoints(c, n), remembered[c][n])
    /\ written[c][n] =
         Fed(c, signal[n][c],
             [d \in Channels |-> Returned(d, TapPoints(d, n), remembered[d][n])])

Init ==
  /\ signal \in Signals
  /\ trajectory \in Trajectories
  /\ played = 0
  /\ written = [c \in Channels |-> [n \in 0 .. -1 |-> Zero]]
  /\ heard = [c \in Channels |-> [n \in 0 .. -1 |-> Zero]]
  /\ remembered = [c \in Channels |-> [n \in 0 .. 0 |-> Quiet]]

Extend ==
  /\ played' \in played + 1 .. MaxFrames
  /\ \A c \in Channels :
       /\ \A n \in 0 .. played - 1 :
            written'[c][n] = written[c][n] /\ heard'[c][n] = heard[c][n]
       /\ \A n \in 0 .. played : remembered'[c][n] = remembered[c][n]
  /\ \A n \in played .. played' - 1 : FrameEquation(n)'
  /\ UNCHANGED <<signal, trajectory>>

Next == Extend

Spec == Init /\ [][Next]_vars

=============================================================================
