----------------------------- MODULE RenderResult -----------------------------
(***************************************************************************)
(* `rvrbotron render` (src/cli/main.cpp) and its RenderResultTransaction,  *)
(* as run by several renderer processes for one output path: a working     *)
(* directory beside it is filled file by file and renamed into place.  Any *)
(* process may fail at any file operation, be interrupted (its handler     *)
(* only sets a flag) or die.  The rename is the POSIX one without an       *)
(* exclusive form, as on Linux: an existence check, then rename(2).        *)
(*                                                                         *)
(* Audio is abstracted to frame counts.  All captures have the same number *)
(* of frames written at the same places, and are one file here.            *)
(***************************************************************************)
EXTENDS Naturals

CONSTANTS
  Renders,     (* Renderer processes.                                       *)
  Job(_),      (* What each renders: [input, tail, captures, request].      *)
  BlockSize,   (* --block-size.                                             *)
  Candidates,  (* Names tried for the working directory: 1000 in the code.  *)
  None,        (* No such path; no such file.                               *)
  EmptyDir     (* A directory somebody else made at the output path.        *)

(* What a directory may hold, and whose it is.                             *)
Directories ==
  [owner : Renders, output : Nat \cup {None}, captured : Nat \cup {None},
   resolved : BOOLEAN, request : BOOLEAN,
   metadata : {None} \cup [frames : Nat, inputFrames : Nat]]

ASSUME RenderResultAssumption ==
  /\ BlockSize \in Nat \ {0}
  /\ Candidates \in Nat \ {0}
  /\ \A p \in Renders : /\ Job(p).input \in Nat /\ Job(p).tail \in Nat
                        /\ Job(p).captures \in BOOLEAN /\ Job(p).request \in BOOLEAN
  /\ None # EmptyDir
  /\ None \notin Nat /\ {None, EmptyDir} \cap Directories = {}

VARIABLES
  pc,            (* Where each process is.                                  *)
  candidate,     (* The number in its workingPath_.                         *)
  interrupted,   (* interruptedSignal # 0.                                  *)
  inputFrames, renderedFrames,
  captureFailed, (* WavStageCaptureSink::failed_.                           *)
  temporary,     (* The working directories on disk, by candidate number.   *)
  destination    (* The output path.                                        *)

progressVars == <<inputFrames, renderedFrames, captureFailed>>
vars == <<pc, candidate, interrupted, progressVars, temporary, destination>>

Empty(p) ==
  [owner |-> p, output |-> None, captured |-> None,
   resolved |-> FALSE, request |-> FALSE, metadata |-> None]

Smaller(a, b) == IF a <= b THEN a ELSE b

Goto(p, label) == pc' = [pc EXCEPT ![p] = label]

(* A HarnessError from here on runs the transaction's destructor.          *)
Fail(p) == Goto(p, "unwind") /\ UNCHANGED temporary

Files(p) == temporary[candidate[p]]

Store(p, files) == temporary' = [temporary EXCEPT ![candidate[p]] = files]

Init ==
  /\ pc = [p \in Renders |-> "start"]
  /\ candidate = [p \in Renders |-> 0]
  /\ interrupted = [p \in Renders |-> FALSE]
  /\ inputFrames = [p \in Renders |-> 0]
  /\ renderedFrames = [p \in Renders |-> 0]
  /\ captureFailed = [p \in Renders |-> FALSE]
  /\ temporary = [k \in 0 .. Candidates - 1 |-> None]
  /\ destination = None

----------------------------------------------------------------------------
(* The transaction's constructor.  If it throws, no destructor runs.       *)

Begin(p) ==
  /\ pc[p] = "start"
  /\ \/ destination = None /\ Goto(p, "reserve")
     \/ Goto(p, "ended")
  /\ UNCHANGED <<candidate, interrupted, progressVars, temporary, destination>>

(* Mutant: create_directory()'s "already there" is taken for success.      *)
ReserveExisting(p) ==
  /\ pc[p] = "reserve"
  /\ Store(p, Empty(p))
  /\ Goto(p, "configure")
  /\ UNCHANGED <<candidate, interrupted, progressVars, destination>>

(* One create_directory(), which only one of its callers can win; the next *)
(* number if somebody has this one, and an error after the last number or  *)
(* for any other reason.                                                   *)
Reserve(p) ==
  /\ pc[p] = "reserve"
  /\ \/ /\ temporary[candidate[p]] = None
        /\ Store(p, Empty(p))
        /\ Goto(p, "configure")
        /\ UNCHANGED candidate
     \/ /\ temporary[candidate[p]] # None
        /\ UNCHANGED temporary
        /\ IF candidate[p] + 1 < Candidates
           THEN candidate' = [candidate EXCEPT ![p] = @ + 1] /\ UNCHANGED pc
           ELSE Goto(p, "ended") /\ UNCHANGED candidate
     \/ Goto(p, "ended") /\ UNCHANGED <<candidate, temporary>>
  /\ UNCHANGED <<interrupted, progressVars, destination>>

----------------------------------------------------------------------------
(* render(), between the interruption checks.                              *)

(* Opening the input, the configuration, the captures and output.wav.      *)
Configure(p) ==
  /\ pc[p] = "configure"
  /\ \/ /\ ~interrupted[p]
        /\ Store(p, [Files(p) EXCEPT !.output = 0,
                                     !.captured = IF Job(p).captures THEN 0 ELSE None])
        /\ Goto(p, "input")
     \/ Fail(p)
  /\ UNCHANGED <<candidate, interrupted, progressVars, destination>>

(* Reverb::process on n frames and writeFrames.  captureFrame() may not    *)
(* throw: it records that it failed and captures nothing any more.         *)
RenderBlock(p, n) ==
  \E captured \in (IF Job(p).captures THEN 0 .. n ELSE {0}) :
    /\ captureFailed[p] => captured = 0
    /\ Store(p, [Files(p) EXCEPT !.output = @ + n,
                                 !.captured = IF @ = None THEN None ELSE @ + captured])
    /\ captureFailed' =
         [captureFailed EXCEPT ![p] = @ \/ (Job(p).captures /\ captured < n)]
    /\ renderedFrames' = [renderedFrames EXCEPT ![p] = @ + n]

ReadBlock(p) ==
  LET n == Smaller(BlockSize, Job(p).input - inputFrames[p])
  IN  /\ pc[p] = "input"
      /\ \/ /\ ~interrupted[p]
            /\ n > 0
            /\ RenderBlock(p, n)
            /\ inputFrames' = [inputFrames EXCEPT ![p] = @ + n]
            /\ UNCHANGED pc
         \/ /\ ~interrupted[p]
            /\ n = 0
            /\ Goto(p, "tail")
            /\ UNCHANGED <<temporary, progressVars>>
         \/ Fail(p) /\ UNCHANGED progressVars
      /\ UNCHANGED <<candidate, interrupted, destination>>

(* The tail loop; when nothing remains, output.wav is closed.              *)
DrainBlock(p) ==
  LET n == Smaller(BlockSize, inputFrames[p] + Job(p).tail - renderedFrames[p])
  IN  /\ pc[p] = "tail"
      /\ \/ /\ ~interrupted[p]
            /\ n > 0
            /\ RenderBlock(p, n)
            /\ UNCHANGED <<pc, inputFrames>>
         \/ /\ n = 0
            /\ Goto(p, "finish")
            /\ UNCHANGED <<temporary, progressVars>>
         \/ Fail(p) /\ UNCHANGED progressVars
      /\ UNCHANGED <<candidate, interrupted, destination>>

(* Mutant: finish() closes the captures without asking for failed_.        *)
FinishUnchecked(p) ==
  /\ pc[p] = "finish"
  /\ \/ Goto(p, "describe") /\ UNCHANGED temporary
     \/ Fail(p)
  /\ UNCHANGED <<candidate, interrupted, progressVars, destination>>

(* WavStageCaptureSink::finish().                                          *)
Finish(p) ==
  /\ pc[p] = "finish"
  /\ \/ ~captureFailed[p] /\ Goto(p, "describe") /\ UNCHANGED temporary
     \/ Fail(p)
  /\ UNCHANGED <<candidate, interrupted, progressVars, destination>>

(* resolved.json, and request.json when a request was given.               *)
Describe(p) ==
  /\ pc[p] = "describe"
  /\ \/ /\ Store(p, [Files(p) EXCEPT !.resolved = TRUE, !.request = Job(p).request])
        /\ Goto(p, "metadata")
     \/ Fail(p)
  /\ UNCHANGED <<candidate, interrupted, progressVars, destination>>

WriteMetadata(p) ==
  /\ pc[p] = "metadata"
  /\ \/ /\ ~interrupted[p]
        /\ Store(p, [Files(p) EXCEPT !.metadata =
             [frames |-> renderedFrames[p], inputFrames |-> inputFrames[p]]])
        /\ Goto(p, "publish")
     \/ Fail(p)
  /\ UNCHANGED <<candidate, interrupted, progressVars, destination>>

(* The last interruption check and publishWithoutReplacement's pathExists. *)
Publish(p) ==
  /\ pc[p] = "publish"
  /\ \/ /\ ~interrupted[p]
        /\ destination = None
        /\ Goto(p, "rename")
        /\ UNCHANGED temporary
     \/ Fail(p)
  /\ UNCHANGED <<candidate, interrupted, progressVars, destination>>

(* Mutant: what is at the output path is replaced.                         *)
RenameOver(p) ==
  /\ pc[p] = "rename"
  /\ destination' = Files(p)
  /\ Store(p, None)
  /\ Goto(p, "ended")
  /\ UNCHANGED <<candidate, interrupted, progressVars>>

(* Mutant: published_ is set before the rename is known to have worked.    *)
RenameTrusted(p) ==
  /\ pc[p] = "rename"
  /\ IF destination \in {None, EmptyDir}
     THEN destination' = Files(p) /\ Store(p, None)
     ELSE UNCHANGED <<destination, temporary>>
  /\ Goto(p, "ended")
  /\ UNCHANGED <<candidate, interrupted, progressVars>>

(* rename(2) of a directory replaces nothing but an empty directory.       *)
Rename(p) ==
  /\ pc[p] = "rename"
  /\ \/ /\ destination \in {None, EmptyDir}
        /\ destination' = Files(p)
        /\ Store(p, None)
        /\ Goto(p, "ended")
     \/ /\ destination \notin {None, EmptyDir}
        /\ Fail(p)
        /\ UNCHANGED destination
  /\ UNCHANGED <<candidate, interrupted, progressVars>>

(* ~RenderResultTransaction removes the working directory, and ignores it  *)
(* if that fails.                                                          *)
Unwind(p) ==
  /\ pc[p] = "unwind"
  /\ \/ Store(p, None) /\ Goto(p, "ended")
     \/ UNCHANGED temporary /\ Goto(p, "uncleared")
  /\ UNCHANGED <<candidate, interrupted, progressVars, destination>>

----------------------------------------------------------------------------
(* What happens to a process, and to the output path, from outside.        *)

Running(p) == pc[p] \notin {"start", "ended", "uncleared", "dead"}

(* handleInterruption.                                                     *)
Interrupt(p) ==
  /\ Running(p)
  /\ interrupted' = [interrupted EXCEPT ![p] = TRUE]
  /\ UNCHANGED <<pc, candidate, progressVars, temporary, destination>>

Die(p) ==
  /\ Running(p)
  /\ Goto(p, "dead")
  /\ UNCHANGED <<candidate, interrupted, progressVars, temporary, destination>>

Occupy ==
  /\ destination = None
  /\ destination' = EmptyDir
  /\ UNCHANGED <<pc, candidate, interrupted, progressVars, temporary>>

Next ==
  \/ \E p \in Renders :
       \/ Begin(p) \/ Reserve(p) \/ Configure(p) \/ ReadBlock(p) \/ DrainBlock(p)
       \/ Finish(p) \/ Describe(p) \/ WriteMetadata(p) \/ Publish(p) \/ Rename(p)
       \/ Unwind(p)
       \/ Interrupt(p) \/ Die(p)
  \/ Occupy

Spec == Init /\ [][Next]_vars

----------------------------------------------------------------------------
(* Properties *)

(* A process that has reserved a working directory is filling it.          *)
Filling(p) == Running(p) /\ pc[p] # "reserve"

(* The state has its types, and a process in the middle of a render has a  *)
(* working directory, which no other process has.                          *)
TypeOK ==
  /\ pc \in [Renders -> {"start", "reserve", "configure", "input", "tail", "finish",
                         "describe", "metadata", "publish", "rename", "unwind",
                         "ended", "uncleared", "dead"}]
  /\ candidate \in [Renders -> 0 .. Candidates - 1]
  /\ interrupted \in [Renders -> BOOLEAN]
  /\ captureFailed \in [Renders -> BOOLEAN]
  /\ DOMAIN temporary = 0 .. Candidates - 1
  /\ \A p \in Renders :
       /\ inputFrames[p] \in 0 .. Job(p).input
       /\ renderedFrames[p] \in 0 .. Job(p).input + Job(p).tail
       /\ Filling(p) => Files(p) # None /\ Files(p).owner = p

(* A whole Render Result of p: the audio and every capture have the input, *)
(* Pre-delay and tail frames that render.json accounts for, and the        *)
(* configuration is beside them.                                           *)
Whole(files) ==
  LET p == files.owner
      frames == Job(p).input + Job(p).tail
  IN  /\ files.output = frames
      /\ files.captured = (IF Job(p).captures THEN frames ELSE None)
      /\ files.resolved
      /\ files.request = Job(p).request
      /\ files.metadata = [frames |-> frames, inputFrames |-> Job(p).input]

(* "a Render Result is either complete or absent -- never half-written"    *)
(* (docs/guides/render-and-analyze-evidence.md:34), through failures,      *)
(* interruptions, deaths and other renderers working beside it.            *)
CompleteOrAbsent == destination \in {None, EmptyDir} \/ Whole(destination)

(* A Render Result once published is never replaced or changed.            *)
ResultStays == [][destination \notin {None, EmptyDir} => UNCHANGED destination]_vars

(* A working directory is left behind only by a process that died or could *)
(* not remove it: one that fails or is interrupted at any point, also one  *)
(* that loses the race for the output path, removes its own.               *)
OnlyTheDeadLeaveTraces ==
  \A k \in DOMAIN temporary : temporary[k] # None =>
    LET p == temporary[k].owner IN Running(p) \/ pc[p] \in {"uncleared", "dead"}

(* "An existing output path is never overwritten"                          *)
(* (docs/guides/render-and-analyze-evidence.md:35-36).                     *)
NothingOverwritten == [][destination # None => UNCHANGED destination]_vars

=============================================================================
