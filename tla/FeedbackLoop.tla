----------------------------- MODULE FeedbackLoop -----------------------------
(***************************************************************************)
(* FeedbackLoop::processBlock as Reverb::process drives it.  A call of     *)
(* process() with frameCount frames is cut into chunks; the loop reads a   *)
(* whole chunk from every Channel's ring before it writes any of it back.  *)
(*                                                                         *)
(* written, heard, remembered and played are history variables, extended   *)
(* when a chunk is complete; trail is the chunk's share of remembered.     *)
(***************************************************************************)
EXTENDS FeedbackConfig, DelayRing

VARIABLES
  signal, trajectory,            (* Inputs and lookbacks, chosen in Init.   *)
  cells, position,               (* The DelayLine, by Channel.              *)
  memory,                        (* The recursive state, by Channel.        *)
  frameIndex,                    (* Modulation's frame counter.             *)
  phase,                         (* idle, chunk, frames or write.           *)
  frameCount, start,             (* process(): its frames, those done.      *)
  frames, frame,                 (* The chunk's frames, those stepped.      *)
  points, delayed, fedBack,      (* The chunk's planar buffers.             *)
  trail, played, written, heard, remembered

callVars == <<frameCount, start, frames, frame>>
bufferVars == <<points, delayed, fedBack, trail>>
lineVars == <<cells, position, frameIndex>>
historyVars == <<played, written, heard, remembered>>
rigidVars == <<signal, trajectory>>
vars == <<rigidVars, lineVars, memory, phase, callVars, bufferVars, historyVars>>

Ring(c) == 0 .. BufferSize(c) - 1

Silent == [c \in Channels |-> [n \in 0 .. -1 |-> Zero]]

Init ==
  /\ signal \in Signals
  /\ trajectory \in Trajectories
  /\ cells = [c \in Channels |-> [i \in Ring(c) |-> Zero]]
  /\ position = [c \in Channels |-> 0]
  /\ memory = [c \in Channels |-> Quiet]
  /\ frameIndex = 0
  /\ phase = "idle"
  /\ frameCount = 0 /\ start = 0 /\ frames = 0 /\ frame = 0
  /\ points = Silent /\ delayed = Silent /\ fedBack = Silent
  /\ trail = [c \in Channels |-> [n \in 0 .. 0 |-> Quiet]]
  /\ played = 0
  /\ written = Silent
  /\ heard = Silent
  /\ remembered = [c \in Channels |-> [n \in 0 .. 0 |-> Quiet]]

(* Reverb::process is called; frameCount <= blockSizeBound is its          *)
(* precondition (Reverb.cpp:172), kept by the renderer's block size.       *)
Process(count) ==
  /\ phase = "idle"
  /\ played + count <= MaxFrames
  /\ frameCount' = count
  /\ start' = 0
  /\ phase' = "chunk"
  /\ UNCHANGED <<rigidVars, lineVars, memory, frames, frame, bufferVars, historyVars>>

(* Mutant: a swaying Channel reads the whole chunk from where it starts.   *)
ReadPointsAtStart(c, n, f) ==
  LET ring == BufferSize(c)
      base == trajectory[c][frameIndex + f]
  IN  IF c \notin Modulated
      THEN [j \in 0 .. 0 |-> ReadBlock(ring, cells[c], position[c], Delay[c], n)[f]]
      ELSE IF Interpolation = "lagrange3"
           THEN LagrangePoints(ring, cells[c], position[c], base)
           ELSE AdjacentPoints(ring, cells[c], position[c], base)

(* The points Channel c reads for frame f of a chunk of n frames.          *)
ReadPoints(c, n, f) ==
  LET ring == BufferSize(c)
      base == trajectory[c][frameIndex + f]
      at   == position[c] + f
  IN  IF c \notin Modulated
      THEN [j \in 0 .. 0 |-> ReadBlock(ring, cells[c], position[c], Delay[c], n)[f]]
      ELSE IF Interpolation = "lagrange3"
           THEN LagrangePoints(ring, cells[c], at, base)
           ELSE AdjacentPoints(ring, cells[c], at, base)

(* The read half of processBlock().                                        *)
ReadChunk ==
  LET n == Minimum(ChunkFrames, frameCount - start)
  IN  /\ phase = "chunk"
      /\ frames' = n
      /\ frame' = 0
      /\ points' = [c \in Channels |-> [f \in 0 .. n - 1 |-> ReadPoints(c, n, f)]]
      /\ delayed' = Silent
      /\ fedBack' = Silent
      /\ trail' = [c \in Channels |-> [f \in 0 .. 0 |-> memory[c]]]
      /\ phase' = "frames"
      /\ UNCHANGED <<rigidVars, lineVars, memory, frameCount, start, historyVars>>

(* `values` with one more sample, at index f.                              *)
Extended(values, f, value) ==
  [i \in 0 .. f |-> IF i = f THEN value ELSE values[i]]

(* One frame of the interpolator's, the gain's and the shelves' passes     *)
(* over the chunk; a Channel's passes touch nothing of another's.          *)
StepFrame ==
  /\ phase = "frames"
  /\ delayed' = [c \in Channels |->
       Extended(delayed[c], frame, Tapped(c, points[c][frame], memory[c]))]
  /\ fedBack' = [c \in Channels |->
       Extended(fedBack[c], frame, Returned(c, points[c][frame], memory[c]))]
  /\ memory' = [c \in Channels |-> Remembered(c, points[c][frame], memory[c])]
  /\ trail' = [c \in Channels |->
       Extended(trail[c], frame + 1, Remembered(c, points[c][frame], memory[c]))]
  /\ frame' = frame + 1
  /\ phase' = IF frame + 1 = frames THEN "write" ELSE "frames"
  /\ UNCHANGED <<rigidVars, lineVars, frameCount, start, frames, points, historyVars>>

(* The chunk on its way into Channel c's line.                             *)
ReturnedChunk(c) ==
  [f \in 0 .. frames - 1 |->
     Fed(c, signal[played + f][c], [d \in Channels |-> fedBack[d][f]])]

(* A history of `from` frames followed by a chunk of n.                    *)
Joined(history, from, chunk, n) ==
  [i \in 0 .. from + n - 1 |-> IF i < from THEN history[i] ELSE chunk[i - from]]

(* The write half of processBlock(), and the end of process()'s iteration. *)
WriteChunk ==
  /\ phase = "write"
  /\ cells' = [c \in Channels |->
       BlockCells(BufferSize(c), cells[c], position[c], ReturnedChunk(c), frames)]
  /\ position' = [c \in Channels |->
       BlockPosition(BufferSize(c), position[c], frames)]
  /\ frameIndex' = IF Modulated = {} THEN frameIndex ELSE frameIndex + frames
  /\ start' = start + frames
  /\ phase' = IF start + frames < frameCount THEN "chunk" ELSE "idle"
  /\ played' = played + frames
  /\ written' = [c \in Channels |->
       Joined(written[c], played, ReturnedChunk(c), frames)]
  /\ heard' = [c \in Channels |-> Joined(heard[c], played, delayed[c], frames)]
  /\ remembered' = [c \in Channels |->
       Joined(remembered[c], played, trail[c], frames + 1)]
  /\ UNCHANGED <<rigidVars, memory, frameCount, frames, frame, bufferVars>>

Next ==
  \/ \E count \in 1 .. BlockSizeBound : Process(count)
  \/ ReadChunk
  \/ StepFrame
  \/ WriteChunk

Spec == Init /\ [][Next]_vars

----------------------------------------------------------------------------
(* Properties *)

(* Every variable that indexes memory stays in range: positions in their   *)
(* rings, the chunk within its buffers, the histories as long as played.   *)
TypeOK ==
  /\ signal \in Signals
  /\ trajectory \in Trajectories
  /\ DOMAIN cells = Channels
  /\ \A c \in Channels : DOMAIN cells[c] = Ring(c)
  /\ position \in [Channels -> Nat]
  /\ \A c \in Channels : position[c] \in Ring(c)
  /\ phase \in {"idle", "chunk", "frames", "write"}
  /\ {frameCount, start, frames, frame, played} \subseteq Nat
  /\ frameIndex = (IF Modulated = {} THEN 0 ELSE played)
  /\ played + (IF phase = "idle" THEN 0 ELSE frameCount - start) <= MaxFrames
  /\ phase # "idle" => start < frameCount
  /\ phase \in {"frames", "write"} =>
       /\ frames \in 1 .. ChunkFrames
       /\ start + frames <= frameCount
       /\ IF phase = "frames" THEN frame < frames ELSE frame = frames

Network == INSTANCE FeedbackNetwork

(* Each ring holds exactly the last BufferSize(c) samples of its Channel.  *)
RingsHoldHistory ==
  \A c \in Channels : \A i \in Ring(c) :
    cells[c][i] = Network!Past(c, played - CellAge(BufferSize(c), position[c], i))

(* What is in flight.  Between chunks a Channel's memory is the one the    *)
(* network has after `played` frames; within a chunk the points already    *)
(* read are those the network will look back to, although nothing of the   *)
(* chunk is written yet, and the recursion has advanced `frame` frames     *)
(* along the trail.                                                        *)
ChunkInFlight ==
  /\ phase \in {"idle", "chunk"} => \A c \in Channels : memory[c] = remembered[c][played]
  /\ phase \in {"frames", "write"} => \A c \in Channels :
       /\ \A f \in 0 .. frames - 1 : points[c][f] = Network!TapPoints(c, played + f)
       /\ trail[c][0] = remembered[c][played]
       /\ memory[c] = trail[c][frame]
       /\ \A f \in 0 .. frame - 1 :
            /\ delayed[c][f] = Tapped(c, points[c][f], trail[c][f])
            /\ fedBack[c][f] = Returned(c, points[c][f], trail[c][f])
            /\ trail[c][f + 1] = Remembered(c, points[c][f], trail[c][f])

(* The chunked loop implements the frame-by-frame network, however the     *)
(* frames are grouped into process() calls and chunks: no chunk reads a    *)
(* sample it has yet to write (FeedbackLoop.h:24-28), none reads one that  *)
(* the ring has already lost, and the recursions and the Modulation's      *)
(* frame counter carry over every chunk boundary.                          *)
ImplementsNetwork == Network!Spec

=============================================================================
