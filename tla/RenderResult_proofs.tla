-------------------------- MODULE RenderResult_proofs --------------------------
(***************************************************************************)
(* Proofs about RenderResult, for any number of renderers of one output    *)
(* path, any jobs, block size and number of working directories: a Render  *)
(* Result is complete or absent, stays once it is there, and only the dead *)
(* leave working directories behind.                                       *)
(***************************************************************************)
EXTENDS RenderResult, TLAPS

USE RenderResultAssumption

Labels == {"start", "reserve", "configure", "input", "tail", "finish", "describe",
           "metadata", "publish", "rename", "unwind", "ended", "uncleared", "dead"}

Types ==
  /\ pc \in [Renders -> Labels]
  /\ candidate \in [Renders -> 0 .. Candidates - 1]
  /\ interrupted \in [Renders -> BOOLEAN]
  /\ inputFrames \in [Renders -> Nat]
  /\ renderedFrames \in [Renders -> Nat]
  /\ captureFailed \in [Renders -> BOOLEAN]
  /\ temporary \in [0 .. Candidates - 1 -> Directories \cup {None}]
  /\ destination \in Directories \cup {None, EmptyDir}

(* A working directory is that of its owner's candidate, and its owner has *)
(* reserved it and has not ended.                                          *)
Owned ==
  \A k \in 0 .. Candidates - 1 : temporary[k] # None =>
    LET p == temporary[k].owner IN
    candidate[p] = k /\ pc[p] \notin {"start", "reserve", "ended"}

(* Whoever fills a working directory has one of its own.                   *)
Reserved(p) == Filling(p) => Files(p) # None /\ Files(p).owner = p

(* How far a render has come, by what it does next.                        *)
Progress(p) ==
  LET all == Job(p).input + Job(p).tail IN
  /\ inputFrames[p] <= Job(p).input /\ renderedFrames[p] <= all
  /\ pc[p] \in {"start", "reserve", "configure"} =>
       inputFrames[p] = 0 /\ renderedFrames[p] = 0 /\ ~captureFailed[p]
  /\ pc[p] = "input" => renderedFrames[p] = inputFrames[p]
  /\ pc[p] = "tail" => inputFrames[p] = Job(p).input
  /\ pc[p] \in {"finish", "describe", "metadata", "publish", "rename"} =>
       inputFrames[p] = Job(p).input /\ renderedFrames[p] = all
  /\ pc[p] \in {"describe", "metadata", "publish", "rename"} =>
       (Job(p).captures => ~captureFailed[p])

(* What is in its working directory by then.                               *)
Filled(p) ==
  /\ pc[p] \in {"input", "tail", "finish", "describe", "metadata", "publish", "rename"} =>
       /\ Files(p).output = renderedFrames[p]
       /\ ~Job(p).captures => Files(p).captured = None
       /\ Job(p).captures =>
            /\ Files(p).captured \in Nat
            /\ ~captureFailed[p] => Files(p).captured = renderedFrames[p]
  /\ pc[p] \in {"metadata", "publish", "rename"} =>
       Files(p).resolved /\ Files(p).request = Job(p).request
  /\ pc[p] \in {"publish", "rename"} =>
       Files(p).metadata = [frames |-> renderedFrames[p], inputFrames |-> inputFrames[p]]

Account(p) == Reserved(p) /\ Progress(p) /\ Filled(p)

(* The inductive invariant.                                                *)
Inv == /\ Types
       /\ Owned
       /\ \A p \in Renders : Account(p)
       /\ CompleteOrAbsent

LEMMA JobTyped ==
  ASSUME NEW p \in Renders
  PROVE  /\ Job(p).input \in Nat /\ Job(p).tail \in Nat
         /\ Job(p).captures \in BOOLEAN /\ Job(p).request \in BOOLEAN
  OBVIOUS

(* None and EmptyDir are no directories.                                   *)
LEMMA Markers ==
  /\ None # EmptyDir /\ None \notin Nat
  /\ \A d \in Directories : d # None /\ d # EmptyDir
  OBVIOUS

(* What a process does to its own entries, and to the one directory it has *)
(* or takes, leaves the accounts of all others as they are.                *)
Own(p) ==
  /\ \A q \in Renders \ {p} :
       /\ pc'[q] = pc[q] /\ candidate'[q] = candidate[q]
       /\ inputFrames'[q] = inputFrames[q] /\ renderedFrames'[q] = renderedFrames[q]
       /\ captureFailed'[q] = captureFailed[q]
  /\ \A k \in 0 .. Candidates - 1 : temporary'[k] # temporary[k] =>
       /\ k = candidate[p] /\ candidate'[p] = k
       /\ temporary[k] # None => temporary[k].owner = p
       /\ temporary'[k] # None => temporary'[k].owner = p

LEMMA OthersKept ==
  ASSUME Types, NEW p \in Renders, NEW q \in Renders \ {p}, Own(p), Account(q)
  PROVE  Account(q)'
<1>1. candidate[q] \in 0 .. Candidates - 1  BY DEF Types
<1>2. /\ pc'[q] = pc[q] /\ candidate'[q] = candidate[q]
      /\ inputFrames'[q] = inputFrames[q] /\ renderedFrames'[q] = renderedFrames[q]
      /\ captureFailed'[q] = captureFailed[q]
  BY DEF Own
<1>3. Progress(q)'  BY <1>2 DEF Account, Progress
<1>4. CASE Filling(q)
  <2>1. Files(q) # None /\ Files(q).owner = q  BY <1>4 DEF Account, Reserved
  <2>2. Files(q)' = Files(q)  BY <1>1, <1>2, <2>1 DEF Own, Files
  <2> QED BY <1>2, <1>3, <2>2 DEF Account, Reserved, Filled, Filling, Running
<1>5. CASE ~Filling(q)
  BY <1>2, <1>3, <1>5 DEF Account, Reserved, Filled, Filling, Running
<1> QED BY <1>4, <1>5

(* A step of p preserves the invariant if it keeps the accounts of p.      *)
LEMMA StepOf ==
  ASSUME Inv, NEW p \in Renders, Types', Own(p), Account(p)',
         /\ pc'[p] \in {"start", "reserve", "ended"} =>
              \A k \in 0 .. Candidates - 1 : temporary'[k] = None \/ temporary'[k].owner # p
         /\ pc[p] \in {"start", "reserve", "ended"} \/ candidate'[p] = candidate[p],
         CompleteOrAbsent'
  PROVE  Inv'
<1>1. \A q \in Renders : Account(q)'
  <2> SUFFICES ASSUME NEW q \in Renders PROVE Account(q)'
    OBVIOUS
  <2>1. CASE q = p  BY <2>1
  <2>2. CASE q # p  BY <2>2, OthersKept DEF Inv
  <2> QED BY <2>1, <2>2
<1>2. Owned'
  <2> SUFFICES ASSUME NEW k \in 0 .. Candidates - 1, temporary'[k] # None
               PROVE  /\ candidate'[temporary'[k].owner] = k
                      /\ pc'[temporary'[k].owner] \notin {"start", "reserve", "ended"}
    BY DEF Owned
  <2>0. temporary'[k].owner \in Renders  BY DEF Types, Directories
  <2>1. CASE temporary'[k].owner = p
    <3>1. pc'[p] \notin {"start", "reserve", "ended"}  BY <2>1
    <3>2. CASE temporary'[k] # temporary[k]  BY <2>1, <3>1, <3>2 DEF Own
    <3>3. CASE temporary'[k] = temporary[k]
      <4>1. candidate[p] = k /\ pc[p] \notin {"start", "reserve", "ended"}
        BY <2>1, <3>3 DEF Inv, Owned
      <4> QED BY <2>1, <3>1, <4>1
    <3> QED BY <3>2, <3>3
  <2>2. CASE temporary'[k].owner # p
    <3>1. temporary'[k] = temporary[k]  BY <2>2 DEF Own
    <3>2. temporary'[k].owner \in Renders \ {p}  BY <2>0, <2>2
    <3> QED BY <3>1, <3>2 DEF Inv, Owned, Own
  <2> QED BY <2>1, <2>2
<1> QED BY <1>1, <1>2 DEF Inv

LEMMA InitInv == Init => Inv
<1> SUFFICES ASSUME Init PROVE Inv
  OBVIOUS
<1>1. Types  BY Markers DEF Init, Types, Labels
<1>2. Owned  BY DEF Init, Owned
<1>3. ASSUME NEW p \in Renders PROVE Account(p)
  BY JobTyped DEF Init, Account, Reserved, Progress, Filled, Filling, Running
<1>4. CompleteOrAbsent  BY DEF Init, CompleteOrAbsent
<1> QED BY <1>1, <1>2, <1>3, <1>4 DEF Inv

(* Steps that change nothing but where the process is, and not to a state  *)
(* that says more of its progress or its directory.                        *)
LEMMA MovesOn ==
  ASSUME Inv, NEW p \in Renders, NEW label \in Labels, Goto(p, label),
         UNCHANGED <<candidate, progressVars, temporary, destination>>,
         interrupted' \in [Renders -> BOOLEAN],
         Account(p)', label \in {"start", "reserve", "ended"} => ~Filling(p) /\ pc[p] # "uncleared" /\ pc[p] # "dead"
  PROVE  Inv'
<1>1. Types'  BY DEF Inv, Types, Goto, progressVars
<1>2. Own(p)  BY DEF Inv, Types, Goto, progressVars, Own
<1>3. CompleteOrAbsent'  BY DEF Inv, CompleteOrAbsent, Whole
<1>4. candidate'[p] = candidate[p]  OBVIOUS
<1>5. pc'[p] \in {"start", "reserve", "ended"} =>
        \A k \in 0 .. Candidates - 1 : temporary'[k] = None \/ temporary'[k].owner # p
  <2>1. pc'[p] = label  BY DEF Goto, Inv, Types
  <2>2. ~Filling(p) /\ pc[p] # "uncleared" /\ pc[p] # "dead"
          => pc[p] \in {"start", "reserve", "ended"}
    BY DEF Filling, Running
  <2> QED BY <2>1, <2>2 DEF Inv, Owned
<1> QED BY <1>1, <1>2, <1>3, <1>4, <1>5, StepOf

LEMMA Fails ==
  ASSUME Inv, NEW p \in Renders, Filling(p), Fail(p),
         UNCHANGED <<candidate, interrupted, progressVars, destination>>
  PROVE  Inv'
<1>1. pc'[p] = "unwind"  BY DEF Fail, Goto, Inv, Types
<1>2. Files(p)' = Files(p)  BY DEF Fail, Files
<1>3. Account(p)'
  BY <1>1, <1>2 DEF Inv, Account, Reserved, Progress, Filled, Filling, Running, progressVars
<1>4. interrupted' \in [Renders -> BOOLEAN]  BY DEF Inv, Types
<1> QED BY <1>3, <1>4, MovesOn DEF Fail, Labels

LEMMA BeginStep ==
  ASSUME Inv, NEW p \in Renders, Begin(p)
  PROVE  Inv'
<1>1. interrupted' \in [Renders -> BOOLEAN]  BY DEF Begin, Inv, Types
<1>2. Account(p)'
  <2>1. pc[p] = "start" /\ pc'[p] \in {"reserve", "ended"}  BY DEF Begin, Goto, Inv, Types
  <2>2. Reserved(p)' /\ Filled(p)'  BY <2>1 DEF Reserved, Filled, Filling, Running
  <2>3. Progress(p)'  BY <2>1 DEF Begin, Inv, Account, Progress, progressVars
  <2> QED BY <2>2, <2>3 DEF Account
<1>3. ~Filling(p) /\ pc[p] # "uncleared" /\ pc[p] # "dead"  BY DEF Begin, Filling, Running
<1> QED BY <1>1, <1>2, <1>3, MovesOn DEF Begin, Labels

LEMMA ReserveStep ==
  ASSUME Inv, NEW p \in Renders, Reserve(p)
  PROVE  Inv'
<1>0. candidate[p] \in 0 .. Candidates - 1 /\ pc[p] = "reserve"  BY DEF Reserve, Inv, Types
<1>c. CompleteOrAbsent'  BY DEF Reserve, Inv, CompleteOrAbsent, Whole
<1>1. CASE /\ temporary[candidate[p]] = None
           /\ Store(p, Empty(p)) /\ Goto(p, "configure") /\ UNCHANGED candidate
  <2>0. Empty(p) \in Directories  BY DEF Empty, Directories
  <2>1. Empty(p) \in Directories /\ Empty(p) # None  BY <2>0, Markers
  <2>2. Types'
    BY <1>0, <1>1, <2>1 DEF Reserve, Inv, Types, Store, Goto, Labels, progressVars
  <2>3. Own(p)  BY <1>0, <1>1 DEF Reserve, Inv, Types, Store, Goto, Own, Empty, progressVars
  <2>4. Files(p)' = Empty(p) /\ pc'[p] = "configure"
    BY <1>0, <1>1 DEF Inv, Types, Store, Goto, Files
  <2>5. Account(p)'
    <3>1. Reserved(p)'  BY <2>1, <2>4 DEF Reserved, Empty
    <3>2. Progress(p)'  BY <1>0, <2>4 DEF Reserve, Inv, Account, Progress, progressVars
    <3>3. Filled(p)'  BY <2>4 DEF Filled
    <3> QED BY <3>1, <3>2, <3>3 DEF Account
  <2> QED BY <1>1, <1>c, <2>2, <2>3, <2>4, <2>5, StepOf
<1>2. CASE /\ temporary[candidate[p]] # None
           /\ UNCHANGED temporary
           /\ candidate[p] + 1 < Candidates
           /\ candidate' = [candidate EXCEPT ![p] = @ + 1] /\ UNCHANGED pc
  <2>1. Types'  BY <1>0, <1>2 DEF Reserve, Inv, Types, progressVars
  <2>2. Own(p)  BY <1>2 DEF Reserve, Inv, Types, Own, progressVars
  <2>3. Account(p)'
    BY <1>0, <1>2 DEF Reserve, Inv, Account, Reserved, Progress, Filled, Filling, Running, progressVars
  <2>4. \A k \in 0 .. Candidates - 1 : temporary'[k] = None \/ temporary'[k].owner # p
    BY <1>0, <1>2 DEF Inv, Owned
  <2> QED BY <1>0, <1>c, <2>1, <2>2, <2>3, <2>4, StepOf
<1>3. CASE Goto(p, "ended") /\ UNCHANGED <<candidate, temporary>>
  <2>1. interrupted' \in [Renders -> BOOLEAN]  BY DEF Reserve, Inv, Types
  <2>2. Account(p)'
    BY <1>0, <1>3 DEF Reserve, Goto, Inv, Types, Account, Reserved, Progress, Filled, Filling,
                      Running, progressVars
  <2>3. ~Filling(p) /\ pc[p] # "uncleared" /\ pc[p] # "dead"  BY <1>0 DEF Filling, Running
  <2> QED BY <1>3, <2>1, <2>2, <2>3, MovesOn DEF Reserve, Labels
<1> QED BY <1>1, <1>2, <1>3 DEF Reserve

(* Storing files of p in the directory it fills.                           *)
LEMMA Stores ==
  ASSUME Inv, NEW p \in Renders, Filling(p), NEW files \in Directories, files.owner = p,
         Store(p, files), NEW label \in Labels, label \notin {"start", "reserve", "ended"},
         pc' = [pc EXCEPT ![p] = label], UNCHANGED <<candidate, interrupted, destination>>,
         NEW in \in Nat, inputFrames' = [inputFrames EXCEPT ![p] = in],
         NEW rendered \in Nat, renderedFrames' = [renderedFrames EXCEPT ![p] = rendered],
         NEW failed \in BOOLEAN, captureFailed' = [captureFailed EXCEPT ![p] = failed],
         Files(p)' = files => Progress(p)' /\ Filled(p)'
  PROVE  Inv'
<1>1. candidate[p] \in 0 .. Candidates - 1 /\ Files(p).owner = p
  BY DEF Inv, Types, Account, Reserved
<1>2. Files(p)' = files /\ pc'[p] = label  BY <1>1 DEF Store, Files, Inv, Types
<1>3. Types'  BY <1>1 DEF Inv, Types, Store
<1>4. Own(p)  BY <1>1 DEF Inv, Types, Store, Own, Files
<1>5. Account(p)'  BY <1>2, Markers DEF Account, Reserved
<1>6. CompleteOrAbsent'  BY DEF Inv, CompleteOrAbsent, Whole
<1> QED BY <1>2, <1>3, <1>4, <1>5, <1>6, StepOf

(* The directory a process fills.                                          *)
LEMMA FilesTyped ==
  ASSUME Inv, NEW p \in Renders, Filling(p)
  PROVE  /\ Files(p) \in Directories /\ Files(p).owner = p
         /\ candidate[p] \in 0 .. Candidates - 1
<1>1. candidate[p] \in 0 .. Candidates - 1  BY DEF Inv, Types
<1>2. Files(p) # None /\ Files(p).owner = p  BY DEF Inv, Account, Reserved
<1> QED BY <1>1, <1>2 DEF Inv, Types, Files

LEMMA AudioStored ==
  ASSUME NEW d \in Directories, NEW x \in Nat \cup {None}, NEW y \in Nat \cup {None}
  PROVE  LET e == [d EXCEPT !.output = x, !.captured = y]
         IN  e \in Directories /\ e.owner = d.owner /\ e.output = x /\ e.captured = y
  BY DEF Directories

LEMMA ConfigureStep ==
  ASSUME Inv, NEW p \in Renders, Configure(p)
  PROVE  Inv'
<1>0. pc[p] = "configure" /\ Filling(p)  BY DEF Configure, Filling, Running
<1>1. CASE Fail(p)  BY <1>0, <1>1, Fails DEF Configure
<1>2. CASE ~Fail(p)
  <2> DEFINE captured == IF Job(p).captures THEN 0 ELSE None
             files == [Files(p) EXCEPT !.output = 0, !.captured = captured]
  <2>1. files \in Directories /\ files.owner = p
    <3>1. Files(p) \in Directories /\ Files(p).owner = p  BY <1>0, FilesTyped
    <3>2. captured \in Nat \cup {None}  OBVIOUS
    <3>3. ASSUME NEW d \in Directories, d.owner = p, NEW y \in Nat \cup {None}
          PROVE  LET e == [d EXCEPT !.output = 0, !.captured = y]
                 IN  e \in Directories /\ e.owner = p
      BY <3>3 DEF Directories
    <3> QED BY <3>1, <3>2, <3>3
  <2>2. /\ Store(p, files) /\ pc' = [pc EXCEPT ![p] = "input"]
        /\ UNCHANGED <<candidate, interrupted, progressVars, destination>>
    BY <1>2 DEF Configure, Goto
  <2>3. inputFrames[p] = 0 /\ renderedFrames[p] = 0 /\ captureFailed[p] = FALSE
    BY <1>0 DEF Inv, Account, Progress
  <2>4. /\ inputFrames' = [inputFrames EXCEPT ![p] = 0]
        /\ renderedFrames' = [renderedFrames EXCEPT ![p] = 0]
        /\ captureFailed' = [captureFailed EXCEPT ![p] = FALSE]
    BY <2>2, <2>3 DEF Inv, Types, progressVars
  <2>5. pc'[p] = "input"  BY <2>2 DEF Inv, Types
  <2>6. inputFrames'[p] = 0 /\ renderedFrames'[p] = 0 /\ captureFailed'[p] = FALSE
    BY <2>4 DEF Inv, Types
  <2>7. Progress(p)'  BY <2>5, <2>6, JobTyped DEF Progress
  <2>8. files.output = 0 /\ files.captured = IF Job(p).captures THEN 0 ELSE None
    BY <1>0, FilesTyped DEF Directories
  <2> HIDE DEF files
  <2>9. Files(p)' = files => Filled(p)'  BY <2>5, <2>6, <2>8, JobTyped DEF Filled
  <2> QED BY <1>0, <2>1, <2>2, <2>4, <2>7, <2>9, Stores DEF Labels
<1> QED BY <1>1, <1>2

(* A block of audio in the directory, and the counts that go with it.      *)
LEMMA RendersBlock ==
  ASSUME Inv, NEW p \in Renders, pc[p] \in {"input", "tail"}, NEW n \in Nat, RenderBlock(p, n),
         UNCHANGED <<pc, candidate, interrupted, destination>>,
         NEW in \in Nat, inputFrames' = [inputFrames EXCEPT ![p] = in],
         in <= Job(p).input, renderedFrames[p] + n <= Job(p).input + Job(p).tail,
         pc[p] = "input" => in = renderedFrames[p] + n,
         pc[p] = "tail" => in = inputFrames[p]
  PROVE  Inv'
<1>0. Filling(p)  BY DEF Filling, Running
<1>1. PICK captured \in (IF Job(p).captures THEN 0 .. n ELSE {0}) :
        /\ captureFailed[p] => captured = 0
        /\ Store(p, [Files(p) EXCEPT !.output = @ + n,
                                     !.captured = IF @ = None THEN None ELSE @ + captured])
        /\ captureFailed' =
             [captureFailed EXCEPT ![p] = @ \/ (Job(p).captures /\ captured < n)]
        /\ renderedFrames' = [renderedFrames EXCEPT ![p] = @ + n]
  BY DEF RenderBlock
<1>2. captured \in 0 .. n  BY <1>1
<1>3. /\ renderedFrames[p] \in Nat /\ captureFailed[p] \in BOOLEAN
      /\ pc' = [pc EXCEPT ![p] = pc[p]] /\ pc'[p] = pc[p] /\ pc[p] \in Labels
  BY DEF Inv, Types
<1> DEFINE files == [Files(p) EXCEPT !.output = @ + n,
                                     !.captured = IF @ = None THEN None ELSE @ + captured]
           rendered == renderedFrames[p] + n
           failed == captureFailed[p] \/ (Job(p).captures /\ captured < n)
<1>4. /\ Files(p) \in Directories /\ Files(p).owner = p /\ Files(p).output = renderedFrames[p]
      /\ ~Job(p).captures => Files(p).captured = None
      /\ Job(p).captures => /\ Files(p).captured \in Nat
                            /\ ~captureFailed[p] => Files(p).captured = renderedFrames[p]
  BY <1>0, FilesTyped DEF Inv, Account, Filled
<1>5. /\ files.owner = p /\ files.output = rendered
      /\ files.captured = IF Files(p).captured = None THEN None ELSE Files(p).captured + captured
  BY <1>4 DEF Directories
<1>6. /\ ~Job(p).captures => files.captured = None
      /\ Job(p).captures => /\ files.captured \in Nat
                            /\ ~failed => files.captured = rendered
  BY <1>2, <1>3, <1>4, <1>5, Markers
<1>7. files \in Directories
  <2>1. (IF Files(p).captured = None THEN None ELSE Files(p).captured + captured) \in Nat \cup {None}
    BY <1>5, <1>6, JobTyped
  <2>2. Files(p).output + n \in Nat \cup {None}  BY <1>3, <1>4
  <2> QED BY <1>4, <2>1, <2>2, AudioStored
<1>8. /\ inputFrames'[p] = in /\ renderedFrames'[p] = rendered /\ captureFailed'[p] = failed
  BY <1>1 DEF Inv, Types
<1>9. rendered \in Nat /\ failed \in BOOLEAN  BY <1>3
<1>10. /\ renderedFrames' = [renderedFrames EXCEPT ![p] = rendered]
       /\ captureFailed' = [captureFailed EXCEPT ![p] = failed]
       /\ Store(p, files)
  BY <1>1 DEF Inv, Types
<1> HIDE DEF files, rendered, failed
<1>11. rendered <= Job(p).input + Job(p).tail  BY DEF rendered
<1>12. pc[p] = "input" => in = rendered  BY DEF rendered
<1>13. pc[p] = "tail" => in = Job(p).input  BY DEF Inv, Account, Progress
<1>14. Progress(p)'  BY <1>3, <1>8, <1>11, <1>12, <1>13 DEF Progress
<1>15. Files(p)' = files => Filled(p)'  BY <1>3, <1>5, <1>6, <1>8 DEF Filled
<1> QED BY <1>0, <1>3, <1>5, <1>7, <1>9, <1>10, <1>14, <1>15, Stores

LEMMA ReadBlockStep ==
  ASSUME Inv, NEW p \in Renders, ReadBlock(p)
  PROVE  Inv'
<1> DEFINE n == Smaller(BlockSize, Job(p).input - inputFrames[p])
<1>0. pc[p] = "input" /\ Filling(p)  BY DEF ReadBlock, Filling, Running
<1>1. /\ inputFrames[p] \in Nat /\ inputFrames[p] <= Job(p).input
      /\ renderedFrames[p] = inputFrames[p]
      /\ Job(p).input \in Nat /\ Job(p).tail \in Nat
  BY <1>0, JobTyped DEF Inv, Types, Account, Progress
<1>2. n \in Nat /\ n <= Job(p).input - inputFrames[p]  BY <1>1 DEF Smaller
<1>3. n = 0 => inputFrames[p] = Job(p).input  BY <1>1 DEF Smaller
<1>4. \/ n > 0 /\ RenderBlock(p, n) /\ inputFrames' = [inputFrames EXCEPT ![p] = @ + n]
                 /\ UNCHANGED pc
      \/ n = 0 /\ Goto(p, "tail") /\ UNCHANGED <<temporary, progressVars>>
      \/ Fail(p) /\ UNCHANGED progressVars
  BY DEF ReadBlock
<1>5. UNCHANGED <<candidate, interrupted, destination>>  BY DEF ReadBlock
<1> HIDE DEF n
<1>6. CASE Fail(p) /\ UNCHANGED progressVars  BY <1>0, <1>5, <1>6, Fails
<1>7. CASE n = 0 /\ Goto(p, "tail") /\ UNCHANGED <<temporary, progressVars>>
  <2>1. pc'[p] = "tail"  BY <1>7 DEF Goto, Inv, Types
  <2>2. Files(p)' = Files(p)  BY <1>5, <1>7 DEF Files
  <2>3. Progress(p)'  BY <1>1, <1>3, <1>7, <2>1 DEF Inv, Account, Progress, progressVars
  <2>4. Reserved(p)' /\ Filled(p)'
    <3>1. Reserved(p)'  BY <1>0, <2>2 DEF Inv, Account, Reserved
    <3>2. renderedFrames'[p] = renderedFrames[p] /\ captureFailed'[p] = captureFailed[p]
      BY <1>7 DEF progressVars
    <3>3. Filled(p)'  BY <1>0, <2>1, <2>2, <3>2 DEF Inv, Account, Filled
    <3> QED BY <3>1, <3>3
  <2>5. interrupted' \in [Renders -> BOOLEAN]  BY <1>5 DEF Inv, Types
  <2> QED BY <1>5, <1>7, <2>3, <2>4, <2>5, MovesOn DEF Account, Labels
<1>8. CASE n > 0 /\ RenderBlock(p, n) /\ inputFrames' = [inputFrames EXCEPT ![p] = @ + n]
            /\ UNCHANGED pc
  <2>1. inputFrames' = [inputFrames EXCEPT ![p] = inputFrames[p] + n]  BY <1>8
  <2>2. inputFrames[p] + n \in Nat /\ inputFrames[p] + n <= Job(p).input
        /\ renderedFrames[p] + n <= Job(p).input + Job(p).tail
        /\ inputFrames[p] + n = renderedFrames[p] + n
    BY <1>1, <1>2
  <2> QED BY <1>0, <1>2, <1>5, <1>8, <2>1, <2>2, RendersBlock
<1> QED BY <1>4, <1>6, <1>7, <1>8

LEMMA DrainBlockStep ==
  ASSUME Inv, NEW p \in Renders, DrainBlock(p)
  PROVE  Inv'
<1> DEFINE n == Smaller(BlockSize, inputFrames[p] + Job(p).tail - renderedFrames[p])
<1>0. pc[p] = "tail" /\ Filling(p)  BY DEF DrainBlock, Filling, Running
<1>1. /\ inputFrames[p] \in Nat /\ inputFrames[p] = Job(p).input
      /\ renderedFrames[p] \in Nat /\ renderedFrames[p] <= Job(p).input + Job(p).tail
      /\ Job(p).input \in Nat /\ Job(p).tail \in Nat
  BY <1>0, JobTyped DEF Inv, Types, Account, Progress
<1>2. n \in Nat /\ renderedFrames[p] + n <= Job(p).input + Job(p).tail  BY <1>1 DEF Smaller
<1>3. n = 0 => renderedFrames[p] = Job(p).input + Job(p).tail  BY <1>1 DEF Smaller
<1>4. \/ n > 0 /\ RenderBlock(p, n) /\ UNCHANGED <<pc, inputFrames>>
      \/ n = 0 /\ Goto(p, "finish") /\ UNCHANGED <<temporary, progressVars>>
      \/ Fail(p) /\ UNCHANGED progressVars
  BY DEF DrainBlock
<1>5. UNCHANGED <<candidate, interrupted, destination>>  BY DEF DrainBlock
<1> HIDE DEF n
<1>6. CASE Fail(p) /\ UNCHANGED progressVars  BY <1>0, <1>5, <1>6, Fails
<1>7. CASE n = 0 /\ Goto(p, "finish") /\ UNCHANGED <<temporary, progressVars>>
  <2>1. pc'[p] = "finish"  BY <1>7 DEF Goto, Inv, Types
  <2>2. Files(p)' = Files(p)  BY <1>5, <1>7 DEF Files
  <2>3. Progress(p)'  BY <1>1, <1>3, <1>7, <2>1 DEF Inv, Account, Progress, progressVars
  <2>4. Reserved(p)' /\ Filled(p)'
    <3>1. Reserved(p)'  BY <1>0, <2>2 DEF Inv, Account, Reserved
    <3>2. renderedFrames'[p] = renderedFrames[p] /\ captureFailed'[p] = captureFailed[p]
      BY <1>7 DEF progressVars
    <3>3. Filled(p)'  BY <1>0, <2>1, <2>2, <3>2 DEF Inv, Account, Filled
    <3> QED BY <3>1, <3>3
  <2>5. interrupted' \in [Renders -> BOOLEAN]  BY <1>5 DEF Inv, Types
  <2> QED BY <1>5, <1>7, <2>3, <2>4, <2>5, MovesOn DEF Account, Labels
<1>8. CASE n > 0 /\ RenderBlock(p, n) /\ UNCHANGED <<pc, inputFrames>>
  <2>1. inputFrames' = [inputFrames EXCEPT ![p] = inputFrames[p]]  BY <1>8 DEF Inv, Types
  <2>2. UNCHANGED <<pc, candidate, interrupted, destination>>  BY <1>5, <1>8
  <2>3. inputFrames[p] <= Job(p).input  BY <1>1
  <2> QED BY <1>0, <1>1, <1>2, <1>8, <2>1, <2>2, <2>3, RendersBlock
<1> QED BY <1>4, <1>6, <1>7, <1>8

LEMMA FinishStep ==
  ASSUME Inv, NEW p \in Renders, Finish(p)
  PROVE  Inv'
<1>0. pc[p] = "finish" /\ Filling(p)  BY DEF Finish, Filling, Running
<1>1. UNCHANGED <<candidate, interrupted, progressVars, destination>>  BY DEF Finish
<1>2. CASE Fail(p)  BY <1>0, <1>1, <1>2, Fails
<1>3. CASE ~captureFailed[p] /\ Goto(p, "describe") /\ UNCHANGED temporary
  <2>1. pc'[p] = "describe"  BY <1>3 DEF Goto, Inv, Types
  <2>2. Files(p)' = Files(p)  BY <1>1, <1>3 DEF Files
  <2>3. /\ inputFrames'[p] = inputFrames[p] /\ renderedFrames'[p] = renderedFrames[p]
        /\ captureFailed'[p] = captureFailed[p]
    BY <1>1 DEF progressVars
  <2>4. Progress(p)'  BY <1>0, <1>3, <2>1, <2>3 DEF Inv, Account, Progress
  <2>5. Reserved(p)'  BY <1>0, <2>2 DEF Inv, Account, Reserved
  <2>6. Filled(p)'  BY <1>0, <2>1, <2>2, <2>3 DEF Inv, Account, Filled
  <2>7. interrupted' \in [Renders -> BOOLEAN]  BY <1>1 DEF Inv, Types
  <2> QED BY <1>1, <1>3, <2>4, <2>5, <2>6, <2>7, MovesOn DEF Account, Labels
<1> QED BY <1>2, <1>3 DEF Finish

LEMMA PublishStep ==
  ASSUME Inv, NEW p \in Renders, Publish(p)
  PROVE  Inv'
<1>0. pc[p] = "publish" /\ Filling(p)  BY DEF Publish, Filling, Running
<1>1. UNCHANGED <<candidate, interrupted, progressVars, destination>>  BY DEF Publish
<1>2. CASE Fail(p)  BY <1>0, <1>1, <1>2, Fails
<1>3. CASE Goto(p, "rename") /\ UNCHANGED temporary
  <2>1. pc'[p] = "rename"  BY <1>3 DEF Goto, Inv, Types
  <2>2. Files(p)' = Files(p)  BY <1>1, <1>3 DEF Files
  <2>3. /\ inputFrames'[p] = inputFrames[p] /\ renderedFrames'[p] = renderedFrames[p]
        /\ captureFailed'[p] = captureFailed[p]
    BY <1>1 DEF progressVars
  <2>4. Progress(p)'  BY <1>0, <2>1, <2>3 DEF Inv, Account, Progress
  <2>5. Reserved(p)'  BY <1>0, <2>2 DEF Inv, Account, Reserved
  <2>6. Filled(p)'  BY <1>0, <2>1, <2>2, <2>3 DEF Inv, Account, Filled
  <2>7. interrupted' \in [Renders -> BOOLEAN]  BY <1>1 DEF Inv, Types
  <2> QED BY <1>1, <1>3, <2>4, <2>5, <2>6, <2>7, MovesOn DEF Account, Labels
<1> QED BY <1>2, <1>3 DEF Publish

(* What p writes beside the audio.                                         *)
LEMMA StoresBeside ==
  ASSUME Inv, NEW p \in Renders, Filling(p), NEW files \in Directories, files.owner = p,
         Store(p, files), NEW label \in Labels, label \notin {"start", "reserve", "ended"},
         Goto(p, label), UNCHANGED <<candidate, interrupted, progressVars, destination>>,
         Files(p)' = files => Progress(p)' /\ Filled(p)'
  PROVE  Inv'
<1>1. /\ inputFrames[p] \in Nat /\ renderedFrames[p] \in Nat /\ captureFailed[p] \in BOOLEAN
      /\ inputFrames' = [inputFrames EXCEPT ![p] = inputFrames[p]]
      /\ renderedFrames' = [renderedFrames EXCEPT ![p] = renderedFrames[p]]
      /\ captureFailed' = [captureFailed EXCEPT ![p] = captureFailed[p]]
  BY DEF Inv, Types, progressVars
<1>2. pc' = [pc EXCEPT ![p] = label]  BY DEF Goto
<1>3. UNCHANGED <<candidate, interrupted, destination>>  OBVIOUS
<1> QED BY <1>1, <1>2, <1>3, Stores

LEMMA DescribeStep ==
  ASSUME Inv, NEW p \in Renders, Describe(p)
  PROVE  Inv'
<1>0. pc[p] = "describe" /\ Filling(p)  BY DEF Describe, Filling, Running
<1>1. UNCHANGED <<candidate, interrupted, progressVars, destination>>  BY DEF Describe
<1>2. CASE Fail(p)  BY <1>0, <1>1, <1>2, Fails
<1>3. CASE ~Fail(p)
  <2> DEFINE files == [Files(p) EXCEPT !.resolved = TRUE, !.request = Job(p).request]
  <2>1. Store(p, files) /\ Goto(p, "metadata")  BY <1>3 DEF Describe
  <2>2. Files(p) \in Directories /\ Files(p).owner = p  BY <1>0, FilesTyped
  <2>8. /\ files.output = Files(p).output /\ files.captured = Files(p).captured
    BY <2>2 DEF Directories
  <2>3. /\ files \in Directories /\ files.owner = p
        /\ files.resolved = TRUE /\ files.request = Job(p).request
    BY <2>2, JobTyped DEF Directories
  <2> HIDE DEF files
  <2>4. pc'[p] = "metadata"  BY <2>1 DEF Goto, Inv, Types
  <2>5. /\ inputFrames'[p] = inputFrames[p] /\ renderedFrames'[p] = renderedFrames[p]
        /\ captureFailed'[p] = captureFailed[p]
    BY <1>1 DEF progressVars
  <2>6. Progress(p)'  BY <1>0, <2>4, <2>5 DEF Inv, Account, Progress
  <2>7. /\ files.output = renderedFrames'[p]
        /\ ~Job(p).captures => files.captured = None
        /\ Job(p).captures =>
             /\ files.captured \in Nat
             /\ ~captureFailed'[p] => files.captured = renderedFrames'[p]
    BY <1>0, <2>8, <2>5 DEF Inv, Account, Filled
  <2>9. Files(p)' = files => Filled(p)'  BY <2>3, <2>4, <2>7 DEF Filled
  <2> QED BY <1>0, <1>1, <2>1, <2>3, <2>6, <2>9, StoresBeside DEF Labels
<1> QED BY <1>2, <1>3

LEMMA WriteMetadataStep ==
  ASSUME Inv, NEW p \in Renders, WriteMetadata(p)
  PROVE  Inv'
<1>0. pc[p] = "metadata" /\ Filling(p)  BY DEF WriteMetadata, Filling, Running
<1>1. UNCHANGED <<candidate, interrupted, progressVars, destination>>  BY DEF WriteMetadata
<1>2. CASE Fail(p)  BY <1>0, <1>1, <1>2, Fails
<1>3. CASE ~Fail(p)
  <2> DEFINE metadata == [frames |-> renderedFrames[p], inputFrames |-> inputFrames[p]]
             files == [Files(p) EXCEPT !.metadata = metadata]
  <2>1. Store(p, files) /\ Goto(p, "publish")  BY <1>3 DEF WriteMetadata
  <2>2. Files(p) \in Directories /\ Files(p).owner = p  BY <1>0, FilesTyped
  <2>3. metadata \in [frames : Nat, inputFrames : Nat]  BY DEF Inv, Types
  <2>4. /\ files \in Directories /\ files.owner = p
        /\ files.output = Files(p).output /\ files.captured = Files(p).captured
        /\ files.resolved = Files(p).resolved /\ files.request = Files(p).request
        /\ files.metadata = metadata
    <3> HIDE DEF metadata
    <3> QED BY <2>2, <2>3 DEF Directories
  <2> HIDE DEF files
  <2>5. pc'[p] = "publish"  BY <2>1 DEF Goto, Inv, Types
  <2>6. /\ inputFrames'[p] = inputFrames[p] /\ renderedFrames'[p] = renderedFrames[p]
        /\ captureFailed'[p] = captureFailed[p]
    BY <1>1 DEF progressVars
  <2>7. Progress(p)'  BY <1>0, <2>5, <2>6 DEF Inv, Account, Progress
  <2>8. Files(p)' = files => Filled(p)'  BY <1>0, <2>4, <2>5, <2>6 DEF Inv, Account, Filled
  <2> QED BY <1>0, <1>1, <2>1, <2>4, <2>7, <2>8, StoresBeside DEF Labels
<1> QED BY <1>2, <1>3

(* The directory of p, out of the way: published or removed.               *)
LEMMA Vacates ==
  ASSUME Inv, NEW p \in Renders, Filling(p), Store(p, None), Goto(p, "ended"),
         UNCHANGED <<candidate, interrupted, progressVars>>,
         destination' \in Directories \cup {None, EmptyDir}, CompleteOrAbsent'
  PROVE  Inv'
<1>1. candidate[p] \in 0 .. Candidates - 1 /\ Files(p).owner = p  BY FilesTyped
<1>2. Types'  BY <1>1 DEF Inv, Types, Store, Goto, Labels, progressVars
<1>3. Own(p)  BY <1>1 DEF Inv, Types, Store, Goto, Own, Files, progressVars
<1>4. pc'[p] = "ended"  BY DEF Goto, Inv, Types
<1>5. Account(p)'
  BY <1>4 DEF Inv, Account, Reserved, Progress, Filled, Filling, Running, progressVars
<1>6. \A k \in 0 .. Candidates - 1 : temporary'[k] = None \/ temporary'[k].owner # p
  <2> SUFFICES ASSUME NEW k \in 0 .. Candidates - 1, temporary'[k] # None
               PROVE  temporary'[k].owner # p
    OBVIOUS
  <2>1. k # candidate[p]  BY <1>1 DEF Inv, Types, Store
  <2>2. temporary'[k] = temporary[k]  BY <1>1, <2>1 DEF Inv, Types, Store
  <2> QED BY <2>1, <2>2 DEF Inv, Owned
<1> QED BY <1>2, <1>3, <1>5, <1>6, StepOf

LEMMA RenameStep ==
  ASSUME Inv, NEW p \in Renders, Rename(p)
  PROVE  Inv'
<1>0. pc[p] = "rename" /\ Filling(p)  BY DEF Rename, Filling, Running
<1>1. UNCHANGED <<candidate, interrupted, progressVars>>  BY DEF Rename
<1>2. CASE Fail(p) /\ UNCHANGED destination  BY <1>0, <1>1, <1>2, Fails
<1>3. CASE destination' = Files(p) /\ Store(p, None) /\ Goto(p, "ended")
  <2>1. Files(p) \in Directories /\ Files(p).owner = p  BY <1>0, FilesTyped
  <2>2. Whole(Files(p))
    <3>1. /\ inputFrames[p] = Job(p).input /\ renderedFrames[p] = Job(p).input + Job(p).tail
          /\ Job(p).captures => ~captureFailed[p]
      BY <1>0 DEF Inv, Account, Progress
    <3>2. /\ Files(p).output = renderedFrames[p]
          /\ ~Job(p).captures => Files(p).captured = None
          /\ Job(p).captures => (~captureFailed[p] => Files(p).captured = renderedFrames[p])
          /\ Files(p).resolved /\ Files(p).request = Job(p).request
          /\ Files(p).metadata = [frames |-> renderedFrames[p], inputFrames |-> inputFrames[p]]
      BY <1>0 DEF Inv, Account, Filled
    <3> QED BY <2>1, <3>1, <3>2 DEF Whole
  <2>3. CompleteOrAbsent'  BY <1>3, <2>2 DEF CompleteOrAbsent, Whole
  <2> QED BY <1>0, <1>1, <1>3, <2>1, <2>3, Vacates
<1> QED BY <1>2, <1>3 DEF Rename

LEMMA UnwindStep ==
  ASSUME Inv, NEW p \in Renders, Unwind(p)
  PROVE  Inv'
<1>0. pc[p] = "unwind" /\ Filling(p)  BY DEF Unwind, Filling, Running
<1>1. UNCHANGED <<candidate, interrupted, progressVars, destination>>  BY DEF Unwind
<1>2. CASE Store(p, None) /\ Goto(p, "ended")
  BY <1>0, <1>1, <1>2, Vacates DEF Inv, Types, CompleteOrAbsent, Whole
<1>3. CASE UNCHANGED temporary /\ Goto(p, "uncleared")
  <2>1. pc'[p] = "uncleared"  BY <1>3 DEF Goto, Inv, Types
  <2>2. Account(p)'
    BY <1>0, <1>1, <2>1 DEF Inv, Account, Reserved, Progress, Filled, Filling, Running, progressVars
  <2>3. interrupted' \in [Renders -> BOOLEAN]  BY <1>1 DEF Inv, Types
  <2> QED BY <1>1, <1>3, <2>2, <2>3, MovesOn DEF Labels
<1> QED BY <1>2, <1>3 DEF Unwind

LEMMA InterruptStep ==
  ASSUME Inv, NEW p \in Renders, Interrupt(p)
  PROVE  Inv'
<1>1. UNCHANGED <<pc, candidate, progressVars, temporary, destination>>  BY DEF Interrupt
<1>2. Types'  BY <1>1 DEF Interrupt, Inv, Types, progressVars
<1>3. Owned' /\ CompleteOrAbsent'  BY <1>1 DEF Inv, Owned, CompleteOrAbsent, Whole
<1>4. ASSUME NEW q \in Renders PROVE Account(q)'
  BY <1>1 DEF Inv, Account, Reserved, Progress, Filled, Filling, Running, Files, progressVars
<1> QED BY <1>2, <1>3, <1>4 DEF Inv

LEMMA DieStep ==
  ASSUME Inv, NEW p \in Renders, Die(p)
  PROVE  Inv'
<1>1. UNCHANGED <<candidate, interrupted, progressVars, temporary, destination>>
  BY DEF Die
<1>2. pc'[p] = "dead" /\ Goto(p, "dead")  BY DEF Die, Goto, Inv, Types
<1>3. Account(p)'
  BY <1>1, <1>2 DEF Inv, Account, Reserved, Progress, Filled, Filling, Running, progressVars
<1>4. interrupted' \in [Renders -> BOOLEAN]  BY <1>1 DEF Inv, Types
<1> QED BY <1>1, <1>2, <1>3, <1>4, MovesOn DEF Labels

LEMMA OccupyStep == Inv /\ Occupy => Inv'
<1> SUFFICES ASSUME Inv, Occupy PROVE Inv'
  OBVIOUS
<1>1. UNCHANGED <<pc, candidate, interrupted, progressVars, temporary>>  BY DEF Occupy
<1>2. Types'  BY <1>1 DEF Occupy, Inv, Types, progressVars
<1>3. Owned' /\ CompleteOrAbsent'  BY <1>1 DEF Occupy, Inv, Owned, CompleteOrAbsent
<1>4. ASSUME NEW q \in Renders PROVE Account(q)'
  BY <1>1 DEF Inv, Account, Reserved, Progress, Filled, Filling, Running, Files, progressVars
<1> QED BY <1>2, <1>3, <1>4 DEF Inv

LEMMA StutterStep == Inv /\ UNCHANGED vars => Inv'
<1> SUFFICES ASSUME Inv, UNCHANGED vars PROVE Inv'
  OBVIOUS
<1>1. Types'  BY DEF Inv, Types, vars, progressVars
<1>2. Owned' /\ CompleteOrAbsent'  BY DEF Inv, Owned, CompleteOrAbsent, Whole, vars
<1>3. ASSUME NEW q \in Renders PROVE Account(q)'
  BY DEF Inv, Account, Reserved, Progress, Filled, Filling, Running, Files, progressVars, vars
<1> QED BY <1>1, <1>2, <1>3 DEF Inv

(* The accounts of every renderer hold after every step of every renderer, *)
(* of whoever stops it, and of whoever takes the output path.              *)
THEOREM Invariance == Spec => []Inv
<1>1. Inv /\ [Next]_vars => Inv'
  BY BeginStep, ReserveStep, ConfigureStep, ReadBlockStep, DrainBlockStep, FinishStep,
     DescribeStep, WriteMetadataStep, PublishStep, RenameStep, UnwindStep, InterruptStep,
     DieStep, OccupyStep, StutterStep
  DEF Next
<1> QED BY <1>1, InitInv, PTL DEF Spec

(* The types, and no renderer in the middle of its work ever loses its     *)
(* working directory or shares it (RenderResultTransaction's constructor). *)
THEOREM TypeCorrect == Spec => []TypeOK
<1>1. Inv => TypeOK
  BY JobTyped DEF Inv, Types, Labels, Account, Reserved, Progress, TypeOK
<1> QED BY <1>1, Invariance, PTL

(* A Render Result is complete or absent, whatever fails, is interrupted,  *)
(* dies, or takes the output path meanwhile (publish()).                   *)
THEOREM ResultComplete == Spec => []CompleteOrAbsent
<1>1. Inv => CompleteOrAbsent  BY DEF Inv
<1> QED BY <1>1, Invariance, PTL

(* A working directory is left behind only by a process that died or could *)
(* not remove it (~RenderResultTransaction).                               *)
THEOREM TracesOfTheDead == Spec => []OnlyTheDeadLeaveTraces
<1>1. Inv => OnlyTheDeadLeaveTraces
  <2> SUFFICES ASSUME Inv, NEW k \in DOMAIN temporary, temporary[k] # None
               PROVE  \/ Running(temporary[k].owner)
                      \/ pc[temporary[k].owner] \in {"uncleared", "dead"}
    BY DEF OnlyTheDeadLeaveTraces
  <2>1. k \in 0 .. Candidates - 1  BY DEF Inv, Types
  <2>2. pc[temporary[k].owner] \notin {"start", "reserve", "ended"}  BY <2>1 DEF Inv, Owned
  <2> QED BY <2>2 DEF Running
<1> QED BY <1>1, Invariance, PTL

(* A Render Result, once published, stays (publishWithoutReplacement): it  *)
(* takes no invariant, since only Rename and Occupy touch the output path, *)
(* and neither does where a directory with files is.                       *)
THEOREM PublishedStays == Spec => ResultStays
<1>1. [Next]_vars => [destination \notin {None, EmptyDir} => UNCHANGED destination]_vars
  BY DEF Next, vars, Begin, Reserve, Configure, ReadBlock, DrainBlock, Finish, Describe,
         WriteMetadata, Publish, Rename, Unwind, Interrupt, Die, Occupy
<1> QED BY <1>1, PTL DEF Spec, ResultStays

=============================================================================
