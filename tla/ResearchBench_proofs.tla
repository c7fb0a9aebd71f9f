------------------------- MODULE ResearchBench_proofs -------------------------
(***************************************************************************)
(* Proofs about ResearchBench, for any number of connections, sources,     *)
(* request texts and renders: what the one non-blocking lock, the process  *)
(* lock and the shutdown flag achieve together, in every interleaving of   *)
(* handlers, renderer and main thread.                                     *)
(***************************************************************************)
EXTENDS ResearchBench, FiniteSetTheorems, TLAPS

USE ResearchBenchAssumption

Steps == HoldingSteps \cup {"idle", "wait"}
ChildStates == {"none", "running", "published", "ok", "failed"}
MainSteps == {"serving", "refusing", "polling", "waiting", "leaving",
              "emptying", "removing", "exited"}

Tasks == [step : Steps, item : Sources \cup Texts \cup {None},
          dir : Nat, input : Sources \cup {None}]

Types ==
  /\ main \in MainSteps /\ closes \in 0 .. 2 /\ shuttingDown \in BOOLEAN
  /\ target \in Clients \cup {None} /\ activeProcess \in Clients \cup {None}
  /\ lock \in Clients \cup {None} /\ processLock \in Clients \cup {None}
  /\ child \in [Clients -> ChildStates]
  /\ task \in [Clients -> Tasks]

SessionTypes ==
  /\ sourcePath \in Sources \cup {None}
  /\ renderCount \in 0 .. MaxRenders
  /\ resultDir \in 1 .. renderCount \cup {None}
  /\ root \in BOOLEAN /\ rendersDir \in BOOLEAN
  /\ sourceDir \in Sources \cup {None, "empty", Partial}
  /\ requestFile \in Texts \cup {None, Partial}
  /\ DOMAIN results \subseteq 1 .. renderCount

(* What a handler holds at each of its steps, and where its child can be   *)
(* alive.                                                                  *)
Holds(c) ==
  /\ (lock = c) <=> task[c].step \in HoldingSteps
  /\ (processLock = c) <=> task[c].step = "publish"
  /\ (activeProcess = c) <=> task[c].step = "await"
  /\ Alive(c) => task[c].step \in {"publish", "await"}

(* What the session and the disk keep for it while it holds the lock.  The *)
(* request text can only be lost, to the removal of the session root.      *)
Rendering == {"publish", "await", "collect"}

Keeps(c) ==
  /\ task[c].step \in {"upload", "prepare", "write"} => task[c].item \in Sources
  /\ task[c].step \in {"body", "begin"} => renderCount < MaxRenders
  /\ task[c].step \in {"body", "begin", "ask", "spawn"} \cup Rendering => task[c].item \in Texts
  /\ task[c].step \in {"ask", "spawn"} \cup Rendering =>
       task[c].dir = renderCount /\ task[c].dir > 0 /\ resultDir # task[c].dir
  /\ task[c].step \in {"spawn"} \cup Rendering => requestFile \in {task[c].item, None}
  /\ task[c].step \in Rendering =>
       /\ task[c].input = sourcePath
       /\ child[c] \in {"published", "ok"} /\ task[c].dir \in DOMAIN results =>
            results[task[c].dir] = [source |-> sourcePath, text |-> task[c].item]
  /\ task[c].step \in {"ask", "spawn"} => task[c].dir \notin DOMAIN results
  /\ task[c].step \in Rendering /\ child[c] = "running" => task[c].dir \notin DOMAIN results
  /\ task[c].step = "read" => task[c].dir = resultDir /\ resultDir # None

Account(c) == Holds(c) /\ Keeps(c)

(* The shutdown: once it is announced no child is being spawned, the one   *)
(* that lives is the one the main thread waits for, and then none does.    *)
Shutdown ==
  /\ main \notin {"serving", "refusing"} \/ closes > 0 => shuttingDown
  /\ main \in {"serving", "leaving"} => closes = 0
  /\ main \in {"emptying", "removing"} => closes > 0
  /\ main = "exited" => closes = 2
  /\ main = "waiting" => target \in Clients
  /\ shuttingDown => processLock = None
  /\ main \in {"polling", "waiting"} => \A c \in Clients : Alive(c) => c = target
  /\ main \in {"leaving", "emptying", "removing", "exited"} \/ (main = "refusing" /\ closes > 0) =>
       \A c \in Clients : ~Alive(c)

(* What is on disk before it is removed: the newest result, and what the   *)
(* one render under way has published.                                     *)
Stored ==
  ~Removing =>
    /\ resultDir # None => resultDir \in DOMAIN results
    /\ \A n \in DOMAIN results \ {resultDir} :
         \E c \in Clients : task[c].step \in Rendering /\ task[c].dir = n

(* The inductive invariant.                                                *)
Inv ==
  /\ Types /\ SessionTypes
  /\ \A c \in Clients : Account(c)
  /\ Shutdown
  /\ Stored

----------------------------------------------------------------------------
(* Frames: what a step of one client leaves alone.                         *)

LEMMA IdleTyped == Idle \in Tasks
  BY DEF Idle, Tasks, Steps

(* One task replaced.                                                      *)
LEMMA TaskSet ==
  ASSUME Types, NEW c \in Clients, NEW t \in Tasks, task' = [task EXCEPT ![c] = t]
  PROVE  /\ task' \in [Clients -> Tasks] /\ task'[c] = t
         /\ \A d \in Clients \ {c} : task'[d] = task[d]
  BY DEF Types

LEMMA TaskGoes ==
  ASSUME Types, NEW c \in Clients, NEW s \in Steps, Goto(c, s)
  PROVE  /\ task' \in [Clients -> Tasks]
         /\ task'[c].step = s /\ task'[c].item = task[c].item
         /\ task'[c].dir = task[c].dir /\ task'[c].input = task[c].input
         /\ \A d \in Clients \ {c} : task'[d] = task[d]
<1>1. task[c] \in Tasks  BY DEF Types
<1> DEFINE t == [task[c] EXCEPT !.step = s]
<1>2. /\ t \in Tasks /\ t.step = s /\ t.item = task[c].item
      /\ t.dir = task[c].dir /\ t.input = task[c].input
  BY <1>1 DEF Tasks
<1>3. task' = [task EXCEPT ![c] = t]  BY DEF Goto
<1> HIDE DEF t
<1> QED BY <1>2, <1>3, TaskSet

Only(c) == \A d \in Clients \ {c} : task'[d] = task[d] /\ child'[d] = child[d]

(* While c holds the lock, or nobody does, no other handler is busy.       *)
LEMMA Alone ==
  ASSUME Inv, NEW c \in Clients, lock \in {c, None}, NEW d \in Clients \ {c}
  PROVE  /\ task[d].step \in {"idle", "wait"} /\ ~Alive(d)
         /\ processLock # d /\ activeProcess # d
<1>1. Holds(d) /\ lock # d  BY DEF Inv, Account
<1>2. task[d].step \in Steps  BY DEF Inv, Types, Tasks
<1> QED BY <1>1, <1>2 DEF Holds, Steps, HoldingSteps

LEMMA OthersKept ==
  ASSUME Inv, NEW c \in Clients, lock \in {c, None}, Only(c), lock' \in {c, None},
         processLock' \in {processLock, c, None}, activeProcess' \in {activeProcess, c, None},
         NEW d \in Clients \ {c}
  PROVE  Account(d)'
<1>1. /\ task[d].step \in {"idle", "wait"} /\ ~Alive(d)
      /\ processLock # d /\ activeProcess # d
  BY Alone
<1>2. task'[d] = task[d] /\ child'[d] = child[d]  BY DEF Only
<1>3. lock' # d /\ processLock' # d /\ activeProcess' # d  BY <1>1
<1>4. Holds(d)'  BY <1>1, <1>2, <1>3 DEF Holds, HoldingSteps, Alive
<1>5. Keeps(d)'  BY <1>1, <1>2 DEF Keeps, Rendering
<1> QED BY <1>4, <1>5 DEF Account

(* What is stored stays accounted for, unless a step of c changes it.      *)
LEMMA StoredKept ==
  ASSUME Inv, NEW c \in Clients, Only(c), UNCHANGED <<main, closes, resultDir, results>>,
         task[c].step \in Rendering =>
           task'[c].step \in Rendering /\ task'[c].dir = task[c].dir
  PROVE  Stored'
<1> SUFFICES ASSUME ~Removing,
                    NEW n \in DOMAIN results \ {resultDir}
             PROVE  \E d \in Clients : task'[d].step \in Rendering /\ task'[d].dir = n
  BY DEF Inv, Stored, Removing
<1>1. PICK d \in Clients : task[d].step \in Rendering /\ task[d].dir = n
  BY DEF Inv, Stored
<1>2. task'[d].step \in Rendering /\ task'[d].dir = n
  BY <1>1 DEF Only
<1> QED BY <1>2

(* A step of c, which holds the lock or takes it, preserves the invariant  *)
(* if it keeps c's account; it brings no child to life once the shutdown   *)
(* is announced.                                                           *)
LEMMA StepOf ==
  ASSUME Inv, NEW c \in Clients, lock \in {c, None}, Only(c), lock' \in {c, None},
         processLock' \in {processLock, None} \/ (processLock' = c /\ ~shuttingDown),
         activeProcess' \in {activeProcess, c, None},
         UNCHANGED serverVars,
         Alive(c)' => Alive(c) \/ ~shuttingDown,
         Types', SessionTypes', Account(c)', Stored'
  PROVE  Inv'
<1>1. \A d \in Clients : Account(d)'
  <2> SUFFICES ASSUME NEW d \in Clients, d # c PROVE Account(d)'
    OBVIOUS
  <2> QED BY OthersKept
<1>2. UNCHANGED <<main, closes, target, shuttingDown>>  BY DEF serverVars
<1>3. \A d \in Clients : Alive(d)' => Alive(d) \/ ~shuttingDown
  BY DEF Only, Alive
<1>4. Shutdown'
  <2>1. shuttingDown => processLock' = None  BY DEF Inv, Shutdown
  <2>2. CASE shuttingDown
    <3>1. \A d \in Clients : Alive(d)' => Alive(d)  BY <1>3, <2>2
    <3> QED BY <1>2, <2>1, <3>1 DEF Inv, Shutdown
  <2>3. CASE ~shuttingDown
    <3>1. main \in {"serving", "refusing"} /\ ~(closes > 0)
      BY <2>3 DEF Inv, Shutdown
    <3> QED BY <1>2, <2>1, <2>3, <3>1 DEF Inv, Shutdown
  <2> QED BY <2>2, <2>3
<1> QED BY <1>1, <1>4 DEF Inv

(* A handler that answers leaves nothing to account for.                   *)
LEMMA Answered ==
  ASSUME Inv, NEW c \in Clients, task[c].step \in HoldingSteps \ {"publish", "await"},
         Answer(c), UNCHANGED <<serverVars, processLock, activeProcess>>,
         child' \in [Clients -> ChildStates], child'[c] \in {child[c], "none"},
         \A d \in Clients \ {c} : child'[d] = child[d],
         SessionTypes', Stored'
  PROVE  Inv'
<1>1. /\ task' \in [Clients -> Tasks] /\ task'[c] = Idle
      /\ \A d \in Clients \ {c} : task'[d] = task[d]
  BY IdleTyped, TaskSet DEF Inv, Answer
<1>2. Holds(c) /\ lock = c  BY DEF Inv, Account, Holds
<1>3. Only(c)  BY <1>1 DEF Only
<1>4. /\ UNCHANGED <<main, closes, target, shuttingDown>> /\ lock' = None
      /\ processLock' = processLock /\ activeProcess' = activeProcess
  BY DEF serverVars, Answer
<1>5. Types'  BY <1>1, <1>4 DEF Inv, Types
<1>6. task'[c].step = "idle" /\ Alive(c)' = FALSE
  BY <1>1, <1>2 DEF Idle, Holds, Alive
<1>7. Account(c)'
  <2>1. Holds(c)'  BY <1>2, <1>4, <1>6 DEF Holds, HoldingSteps
  <2>2. Keeps(c)'  BY <1>6 DEF Keeps, Rendering
  <2> QED BY <2>1, <2>2 DEF Account
<1> QED BY <1>2, <1>3, <1>4, <1>5, <1>6, <1>7, StepOf

(* One that goes from a step to another and changes nothing else.          *)
LEMMA Gone ==
  ASSUME Inv, NEW c \in Clients, NEW s \in HoldingSteps \ Rendering,
         task[c].step \in HoldingSteps \ Rendering,
         Goto(c, s), UNCHANGED <<serverVars, lock, processVars>>, SessionTypes',
         UNCHANGED <<resultDir, results>>, Keeps(c)'
  PROVE  Inv'
<1>1. /\ task' \in [Clients -> Tasks] /\ task'[c].step = s
      /\ \A d \in Clients \ {c} : task'[d] = task[d]
  BY TaskGoes DEF Inv, Steps
<1>2. Holds(c) /\ lock = c  BY DEF Inv, Account, Holds
<1>3. UNCHANGED <<main, closes, target, shuttingDown, lock, processLock, activeProcess, child>>
  BY DEF serverVars, processVars
<1>4. Only(c)  BY <1>1, <1>3 DEF Only
<1>5. Types'  BY <1>1, <1>3 DEF Inv, Types
<1>6. Holds(c)'  BY <1>1, <1>2, <1>3 DEF Holds, Alive, Rendering
<1>7. Alive(c)' => Alive(c)  BY <1>3 DEF Alive
<1>8. Stored'  BY <1>3, <1>4, StoredKept
<1> QED BY <1>2, <1>3, <1>4, <1>5, <1>6, <1>7, <1>8, StepOf DEF Account

(* One that takes the free lock.                                           *)
LEMMA Taken ==
  ASSUME Inv, NEW c \in Clients, NEW t \in Tasks, task[c].step \in {"idle", "wait"},
         Acquire(c), task' = [task EXCEPT ![c] = t],
         t.step \in HoldingSteps \ Rendering,
         UNCHANGED <<serverVars, processVars, sessionVars, diskVars>>, Keeps(c)'
  PROVE  Inv'
<1>1. /\ task' \in [Clients -> Tasks] /\ task'[c] = t
      /\ \A d \in Clients \ {c} : task'[d] = task[d]
  BY TaskSet DEF Inv
<1>2. Holds(c)  BY DEF Inv, Account
<1>3. /\ UNCHANGED <<main, closes, target, shuttingDown, processLock, activeProcess, child>>
      /\ UNCHANGED <<sourcePath, resultDir, renderCount>>
      /\ UNCHANGED <<root, sourceDir, rendersDir, requestFile, results>>
      /\ lock = None /\ lock' = c
  BY DEF serverVars, processVars, sessionVars, diskVars, Acquire
<1>4. Only(c)  BY <1>1, <1>3 DEF Only
<1>5. Types' /\ SessionTypes'  BY <1>1, <1>3 DEF Inv, Types, SessionTypes
<1>6. task[c].step \notin HoldingSteps /\ task[c].step \notin Rendering
  BY DEF HoldingSteps, Rendering
<1>7. Holds(c)'  BY <1>1, <1>2, <1>3, <1>6 DEF Holds, Alive, HoldingSteps, Rendering
<1>8. Alive(c)' => Alive(c)  BY <1>3 DEF Alive
<1>9. Stored'  BY <1>3, <1>4, <1>6, StoredKept
<1> QED BY <1>3, <1>4, <1>5, <1>7, <1>8, <1>9, StepOf DEF Account

----------------------------------------------------------------------------
(* The actions of a handler.                                               *)

LEMMA PostSourceKeepsInv ==
  ASSUME Inv, NEW c \in Clients, NEW source \in Sources, PostSource(c, source)
  PROVE  Inv'
<1> DEFINE t == [Idle EXCEPT !.step = "upload", !.item = source]
<1>1. t \in Tasks /\ t.step = "upload" /\ t.item = source
  BY DEF Idle, Tasks, Steps, HoldingSteps
<1>2. task[c].step = "idle" /\ task' = [task EXCEPT ![c] = t]  BY DEF PostSource, At
<1>3. task'[c] = t  BY <1>1, <1>2, TaskSet DEF Inv
<1> HIDE DEF t
<1>4. Keeps(c)'  BY <1>1, <1>3 DEF Keeps, Rendering
<1>5. t.step \in HoldingSteps \ Rendering  BY <1>1 DEF HoldingSteps, Rendering
<1> QED BY <1>1, <1>2, <1>4, <1>5, Taken DEF PostSource

LEMMA PostRenderKeepsInv ==
  ASSUME Inv, NEW c \in Clients, NEW text \in Texts, PostRender(c, text)
  PROVE  Inv'
<1> DEFINE t == [Idle EXCEPT !.step = "body", !.item = text]
<1>1. t \in Tasks /\ t.step = "body" /\ t.item = text
  BY DEF Idle, Tasks, Steps, HoldingSteps
<1>2. task[c].step = "idle" /\ task' = [task EXCEPT ![c] = t]  BY DEF PostRender, At
<1>3. task'[c] = t  BY <1>1, <1>2, TaskSet DEF Inv
<1>4. renderCount' < MaxRenders  BY DEF PostRender, sessionVars
<1> HIDE DEF t
<1>5. Keeps(c)'  BY <1>1, <1>3, <1>4 DEF Keeps, Rendering
<1>6. t.step \in HoldingSteps \ Rendering  BY <1>1 DEF HoldingSteps, Rendering
<1> QED BY <1>1, <1>2, <1>5, <1>6, Taken DEF PostRender

LEMMA AcquireToReadKeepsInv ==
  ASSUME Inv, NEW c \in Clients, AcquireToRead(c)
  PROVE  Inv'
<1> DEFINE t == [task[c] EXCEPT !.step = "find"]
<1>1. task[c] \in Tasks  BY DEF Inv, Types
<1>2. t \in Tasks /\ t.step = "find"  BY <1>1 DEF Tasks, Steps, HoldingSteps
<1>3. task[c].step = "wait" /\ task' = [task EXCEPT ![c] = t]
  BY DEF AcquireToRead, At, Goto
<1>4. task'[c] = t  BY <1>2, <1>3, TaskSet DEF Inv
<1> HIDE DEF t
<1>5. Keeps(c)'  BY <1>2, <1>4 DEF Keeps, Rendering
<1>6. t.step \in HoldingSteps \ Rendering  BY <1>2 DEF HoldingSteps, Rendering
<1> QED BY <1>2, <1>3, <1>5, <1>6, Taken DEF AcquireToRead

LEMMA GetOutputKeepsInv ==
  ASSUME Inv, NEW c \in Clients, GetOutput(c)
  PROVE  Inv'
<1> DEFINE t == [Idle EXCEPT !.step = "wait"]
<1>1. t \in Tasks /\ t.step = "wait"  BY DEF Idle, Tasks, Steps
<1>2. task[c].step = "idle" /\ task' = [task EXCEPT ![c] = t]  BY DEF GetOutput, At
<1>3. /\ task' \in [Clients -> Tasks] /\ task'[c] = t
      /\ \A d \in Clients \ {c} : task'[d] = task[d]
  BY <1>1, <1>2, TaskSet DEF Inv
<1> HIDE DEF t
<1>4. /\ UNCHANGED <<main, closes, target, shuttingDown>>
      /\ UNCHANGED <<lock, processLock, activeProcess, child>>
      /\ UNCHANGED <<sourcePath, resultDir, renderCount>>
      /\ UNCHANGED <<root, sourceDir, rendersDir, requestFile, results>>
  BY DEF GetOutput, serverVars, processVars, sessionVars, diskVars
<1>5. Types' /\ SessionTypes'  BY <1>3, <1>4 DEF Inv, Types, SessionTypes
<1>6. Account(c)'
  <2>1. Holds(c)  BY DEF Inv, Account
  <2>2. Holds(c)'  BY <1>1, <1>2, <1>3, <1>4, <2>1 DEF Holds, Alive, HoldingSteps
  <2>3. Keeps(c)'  BY <1>1, <1>3 DEF Keeps, Rendering
  <2> QED BY <2>2, <2>3 DEF Account
<1>7. \A d \in Clients : Account(d)'
  <2> SUFFICES ASSUME NEW d \in Clients, d # c PROVE Account(d)'
    BY <1>6
  <2>1. Account(d)  BY DEF Inv
  <2>2. Holds(d)'  BY <1>3, <1>4, <2>1 DEF Account, Holds, Alive
  <2>3. Keeps(d)'  BY <1>3, <1>4, <2>1 DEF Account, Keeps
  <2> QED BY <2>2, <2>3 DEF Account
<1>8. Shutdown'  BY <1>4 DEF Inv, Shutdown, Alive
<1>9. Stored'
  <2>1. Only(c)  BY <1>3, <1>4 DEF Only
  <2> QED BY <1>2, <1>4, <2>1, StoredKept DEF Rendering
<1> QED BY <1>5, <1>7, <1>8, <1>9 DEF Inv

LEMMA ReceiveBodyKeepsInv ==
  ASSUME Inv, NEW c \in Clients, ReceiveBody(c)
  PROVE  Inv'
<1>1. /\ UNCHANGED <<serverVars, lock, processVars, sessionVars, diskVars>>
      /\ UNCHANGED <<resultDir, results>>
  BY DEF ReceiveBody, sessionVars, diskVars
<1>2. UNCHANGED <<renderCount, sourcePath, requestFile>>  BY <1>1 DEF sessionVars, diskVars
<1>3. SessionTypes'  BY <1>1 DEF Inv, SessionTypes, sessionVars, diskVars
<1>4. Keeps(c)  BY DEF Inv, Account
<1>5. CASE task[c].step = "upload" /\ Goto(c, "prepare")
  <2>1. task'[c].step = "prepare" /\ task'[c].item = task[c].item
    BY <1>5, TaskGoes DEF Inv, Steps, HoldingSteps
  <2>2. Keeps(c)'  BY <1>4, <1>5, <2>1 DEF Keeps, Rendering
  <2> QED BY <1>1, <1>3, <1>5, <2>2, Gone DEF HoldingSteps, Rendering
<1>6. CASE task[c].step = "body" /\ Goto(c, "begin")
  <2>1. task'[c].step = "begin" /\ task'[c].item = task[c].item
    BY <1>6, TaskGoes DEF Inv, Steps, HoldingSteps
  <2>2. Keeps(c)'  BY <1>2, <1>4, <1>6, <2>1 DEF Keeps, Rendering
  <2> QED BY <1>1, <1>3, <1>6, <2>2, Gone DEF HoldingSteps, Rendering
<1> QED BY <1>5, <1>6 DEF ReceiveBody, At

(* The answers of handlers that changed no result, whatever else they did. *)
LEMMA AnsweredWithoutResult ==
  ASSUME Inv, NEW c \in Clients, task[c].step \in HoldingSteps \ Rendering,
         Answer(c), UNCHANGED <<serverVars, processLock, activeProcess, child>>,
         UNCHANGED <<resultDir, results>>, SessionTypes'
  PROVE  Inv'
<1>1. Only(c)  BY DEF Inv, Types, Answer, Only
<1>2. UNCHANGED <<main, closes, resultDir, results>>  BY DEF serverVars
<1>3. Stored'  BY <1>1, <1>2, StoredKept
<1>4. child \in [Clients -> ChildStates]  BY DEF Inv, Types
<1> QED BY <1>3, <1>4, Answered DEF Rendering

LEMMA RejectBodyKeepsInv ==
  ASSUME Inv, NEW c \in Clients, RejectBody(c)
  PROVE  Inv'
<1>1. /\ task[c].step \in {"upload", "body"} /\ Answer(c)
      /\ UNCHANGED <<serverVars, processVars, sessionVars, diskVars>>
  BY DEF RejectBody, At
<1>2. SessionTypes'  BY <1>1 DEF Inv, SessionTypes, sessionVars, diskVars
<1>3. UNCHANGED <<processLock, activeProcess, child, resultDir, results>>
  BY <1>1 DEF processVars, sessionVars, diskVars
<1> QED BY <1>1, <1>2, <1>3, AnsweredWithoutResult DEF HoldingSteps, Rendering

LEMMA PrepareSourceKeepsInv ==
  ASSUME Inv, NEW c \in Clients, PrepareSource(c)
  PROVE  Inv'
<1>1. /\ task[c].step = "prepare" /\ UNCHANGED <<serverVars, processVars>>
      /\ UNCHANGED <<sourcePath, resultDir, renderCount, rendersDir, requestFile, results>>
  BY DEF PrepareSource, At, sessionVars
<1>2. UNCHANGED <<processLock, activeProcess, child>>  BY <1>1 DEF processVars
<1>3. CASE sourceDir' = "empty" /\ root' = TRUE /\ Goto(c, "write") /\ UNCHANGED lock
  <2>1. SessionTypes'  BY <1>1, <1>3 DEF Inv, SessionTypes
  <2>2. task'[c].step = "write" /\ task'[c].item = task[c].item
    BY <1>3, TaskGoes DEF Inv, Steps, HoldingSteps
  <2>3. Keeps(c)'  BY <1>1, <2>2 DEF Inv, Account, Keeps, Rendering
  <2> QED BY <1>1, <1>3, <2>1, <2>3, Gone DEF HoldingSteps, Rendering
<1>4. CASE sourceDir' = None /\ Answer(c) /\ UNCHANGED root
  <2>1. SessionTypes'  BY <1>1, <1>4 DEF Inv, SessionTypes
  <2> QED BY <1>1, <1>2, <1>4, <2>1, AnsweredWithoutResult DEF HoldingSteps, Rendering
<1> QED BY <1>3, <1>4 DEF PrepareSource

LEMMA WriteSourceKeepsInv ==
  ASSUME Inv, NEW c \in Clients, WriteSource(c)
  PROVE  Inv'
<1>1. /\ task[c].step = "write" /\ Answer(c)
      /\ UNCHANGED <<serverVars, processLock, activeProcess, child>>
      /\ UNCHANGED <<resultDir, renderCount, root, rendersDir, requestFile, results>>
  BY DEF WriteSource, At, processVars
<1>2. task[c].item \in Sources  BY <1>1 DEF Inv, Account, Keeps
<1>3. /\ sourceDir' \in Sources \cup {None, "empty", Partial}
      /\ sourcePath' \in Sources \cup {None}
  BY <1>2 DEF WriteSource, Inv, SessionTypes
<1>4. SessionTypes'  BY <1>1, <1>3 DEF Inv, SessionTypes
<1> QED BY <1>1, <1>4, AnsweredWithoutResult DEF HoldingSteps, Rendering

LEMMA BeginRenderKeepsInv ==
  ASSUME Inv, NEW c \in Clients, BeginRender(c)
  PROVE  Inv'
<1>1. /\ task[c].step = "begin" /\ UNCHANGED <<serverVars, processVars>>
      /\ UNCHANGED <<sourcePath, resultDir, sourceDir, requestFile, results>>
  BY DEF BeginRender, At
<1>2. UNCHANGED <<processLock, activeProcess, child>>  BY <1>1 DEF processVars
<1>3. CASE Answer(c) /\ UNCHANGED <<renderCount, root, rendersDir>>
  <2>1. SessionTypes'  BY <1>1, <1>3 DEF Inv, SessionTypes
  <2> QED BY <1>1, <1>2, <1>3, <2>1, AnsweredWithoutResult DEF HoldingSteps, Rendering
<1>4. CASE /\ renderCount' = renderCount + 1 /\ root' = TRUE /\ rendersDir' = TRUE
           /\ task' = [task EXCEPT ![c].step = "ask", ![c].dir = renderCount + 1]
           /\ UNCHANGED lock
  <2> DEFINE t == [task[c] EXCEPT !.step = "ask", !.dir = renderCount + 1]
  <2>1. task[c] \in Tasks /\ renderCount \in 0 .. MaxRenders /\ renderCount < MaxRenders
    BY <1>1 DEF Inv, Types, SessionTypes, Account, Keeps
  <2>2. /\ t \in Tasks /\ t.step = "ask" /\ t.item = task[c].item /\ t.dir = renderCount + 1
    <3>1. renderCount + 1 \in Nat  BY <2>1
    <3> QED BY <2>1, <3>1 DEF Tasks, Steps, HoldingSteps
  <2>3. task' = [task EXCEPT ![c] = t]  BY <1>4
  <2> HIDE DEF t
  <2>4. /\ task' \in [Clients -> Tasks] /\ task'[c] = t
        /\ \A d \in Clients \ {c} : task'[d] = task[d]
    BY <2>2, <2>3, TaskSet DEF Inv
  <2>5. SessionTypes'
    <3>1. resultDir \in 1 .. renderCount \cup {None} /\ DOMAIN results \subseteq 1 .. renderCount
      BY DEF Inv, SessionTypes
    <3>2. renderCount' \in 0 .. MaxRenders  BY <1>4, <2>1
    <3>3. 1 .. renderCount \subseteq 1 .. renderCount'  BY <1>4, <2>1
    <3>4. root' \in BOOLEAN /\ rendersDir' \in BOOLEAN  BY <1>4
    <3> QED BY <1>1, <3>1, <3>2, <3>3, <3>4 DEF Inv, SessionTypes
  <2>6. resultDir # renderCount + 1 /\ renderCount + 1 \notin DOMAIN results
    <3>1. renderCount + 1 \notin 1 .. renderCount /\ renderCount + 1 # None  BY <2>1
    <3> QED BY <3>1 DEF Inv, SessionTypes
  <2>7. Keeps(c)'
    <3>1. task[c].item \in Texts  BY <1>1 DEF Inv, Account, Keeps
    <3> QED BY <1>1, <1>4, <2>1, <2>2, <2>4, <2>6, <3>1 DEF Keeps, Rendering
  <2>8. Holds(c) /\ lock = c  BY <1>1 DEF Inv, Account, Holds, HoldingSteps
  <2>9. Only(c)  BY <1>2, <2>4 DEF Only
  <2>10. UNCHANGED <<main, closes, target, shuttingDown>>  BY <1>1 DEF serverVars
  <2>11. Types'  BY <1>2, <1>4, <2>4, <2>10 DEF Inv, Types
  <2>12. Holds(c)'  BY <1>1, <1>2, <1>4, <2>2, <2>4, <2>8 DEF Holds, HoldingSteps, Alive
  <2>13. Alive(c)' => Alive(c)  BY <1>2 DEF Alive
  <2>14. Stored'  BY <1>1, <2>9, <2>10, StoredKept DEF Rendering
  <2> QED BY <1>1, <1>2, <1>4, <2>5, <2>7, <2>8, <2>9, <2>11, <2>12, <2>13, <2>14, StepOf
          DEF Account
<1> QED BY <1>3, <1>4 DEF BeginRender

LEMMA WriteRequestKeepsInv ==
  ASSUME Inv, NEW c \in Clients, WriteRequest(c)
  PROVE  Inv'
<1>1. /\ task[c].step = "ask" /\ UNCHANGED <<serverVars, processVars>>
      /\ UNCHANGED <<sourcePath, resultDir, renderCount>>
      /\ UNCHANGED <<root, sourceDir, rendersDir, results>>
  BY DEF WriteRequest, At, sessionVars
<1>2. UNCHANGED <<processLock, activeProcess, child>>  BY <1>1 DEF processVars
<1>3. Keeps(c) /\ task[c].item \in Texts  BY <1>1 DEF Inv, Account, Keeps, Rendering
<1>4. CASE requestFile' = task[c].item /\ Goto(c, "spawn") /\ UNCHANGED lock
  <2>1. SessionTypes'  BY <1>1, <1>3, <1>4 DEF Inv, SessionTypes
  <2>2. task'[c].step = "spawn" /\ task'[c].item = task[c].item /\ task'[c].dir = task[c].dir
    BY <1>4, TaskGoes DEF Inv, Steps, HoldingSteps
  <2>3. Keeps(c)'  BY <1>1, <1>3, <1>4, <2>2 DEF Keeps, Rendering
  <2> QED BY <1>1, <1>4, <2>1, <2>3, Gone DEF HoldingSteps, Rendering
<1>5. CASE requestFile' = (IF rendersDir THEN Partial ELSE None) /\ Answer(c)
  <2>1. SessionTypes'  BY <1>1, <1>5 DEF Inv, SessionTypes
  <2> QED BY <1>1, <1>2, <1>5, <2>1, AnsweredWithoutResult DEF HoldingSteps, Rendering
<1> QED BY <1>4, <1>5 DEF WriteRequest

LEMMA SpawnRendererKeepsInv ==
  ASSUME Inv, NEW c \in Clients, SpawnRenderer(c)
  PROVE  Inv'
<1>1. /\ task[c].step = "spawn" /\ processLock = None
      /\ UNCHANGED <<serverVars, activeProcess, sessionVars, diskVars>>
  BY DEF SpawnRenderer, At
<1>2. SessionTypes'  BY <1>1 DEF Inv, SessionTypes, sessionVars, diskVars
<1>3. UNCHANGED <<sourcePath, resultDir, renderCount, requestFile, results>>
  BY <1>1 DEF sessionVars, diskVars
<1>4. CASE Answer(c) /\ UNCHANGED <<processLock, child>>
  BY <1>1, <1>2, <1>3, <1>4, AnsweredWithoutResult DEF HoldingSteps, Rendering
<1>5. CASE /\ ~shuttingDown /\ processLock' = c
           /\ child' = [child EXCEPT ![c] = "running"]
           /\ task' = [task EXCEPT ![c].step = "publish", ![c].input = sourcePath]
           /\ UNCHANGED lock
  <2> DEFINE t == [task[c] EXCEPT !.step = "publish", !.input = sourcePath]
  <2>1. task[c] \in Tasks /\ sourcePath \in Sources \cup {None}
    BY DEF Inv, Types, SessionTypes
  <2>2. /\ t \in Tasks /\ t.step = "publish" /\ t.item = task[c].item
        /\ t.dir = task[c].dir /\ t.input = sourcePath
    BY <2>1 DEF Tasks, Steps, HoldingSteps
  <2>3. task' = [task EXCEPT ![c] = t]  BY <1>5
  <2> HIDE DEF t
  <2>4. /\ task' \in [Clients -> Tasks] /\ task'[c] = t
        /\ \A d \in Clients \ {c} : task'[d] = task[d]
    BY <2>2, <2>3, TaskSet DEF Inv
  <2>5. /\ child' \in [Clients -> ChildStates] /\ child'[c] = "running"
        /\ \A d \in Clients \ {c} : child'[d] = child[d]
    BY <1>5 DEF Inv, Types, ChildStates
  <2>6. Keeps(c)  BY DEF Inv, Account
  <2>7. Keeps(c)'  BY <1>1, <1>3, <2>2, <2>4, <2>5, <2>6 DEF Keeps, Rendering
  <2>8. Holds(c) /\ lock = c  BY <1>1 DEF Inv, Account, Holds, HoldingSteps
  <2>9. Only(c)  BY <2>4, <2>5 DEF Only
  <2>10. UNCHANGED <<main, closes, target, shuttingDown>>  BY <1>1 DEF serverVars
  <2>11. Types'  BY <1>1, <1>5, <2>4, <2>5, <2>10 DEF Inv, Types
  <2>12. Holds(c)'  BY <1>1, <1>5, <2>2, <2>4, <2>8 DEF Holds, HoldingSteps
  <2>13. Stored'  BY <1>1, <1>3, <2>9, <2>10, StoredKept DEF Rendering
  <2> QED BY <1>1, <1>2, <1>5, <2>7, <2>8, <2>9, <2>11, <2>12, <2>13, StepOf DEF Account
<1> QED BY <1>4, <1>5 DEF SpawnRenderer

(* A handler with a child goes on to its next step with it.                *)
LEMMA GoneRendering ==
  ASSUME Inv, NEW c \in Clients, NEW s \in Rendering, task[c].step \in Rendering, Goto(c, s),
         UNCHANGED <<serverVars, lock, child, sessionVars, diskVars>>,
         processLock' \in {processLock, None},
         activeProcess' \in {activeProcess, c, None},
         Holds(c)'
  PROVE  Inv'
<1>1. /\ task' \in [Clients -> Tasks]
      /\ task'[c].step = s /\ task'[c].item = task[c].item
      /\ task'[c].dir = task[c].dir /\ task'[c].input = task[c].input
      /\ \A d \in Clients \ {c} : task'[d] = task[d]
  BY TaskGoes DEF Inv, Steps, HoldingSteps, Rendering
<1>2. lock = c  BY DEF Inv, Account, Holds, HoldingSteps, Rendering
<1>3. /\ UNCHANGED <<main, closes, target, shuttingDown>>
      /\ UNCHANGED <<sourcePath, resultDir, renderCount, requestFile, results>>
  BY DEF serverVars, sessionVars, diskVars
<1>4. SessionTypes'  BY DEF Inv, SessionTypes, sessionVars, diskVars
<1>5. Types'  BY <1>1, <1>3 DEF Inv, Types
<1>6. Only(c)  BY <1>1 DEF Only
<1>7. Keeps(c)'
  <2>1. Keeps(c)  BY DEF Inv, Account
  <2> QED BY <1>1, <1>3, <2>1 DEF Keeps, Rendering
<1>8. Stored'  BY <1>1, <1>3, <1>6, StoredKept
<1>9. Alive(c)' => Alive(c)  BY DEF Alive
<1> QED BY <1>2, <1>4, <1>5, <1>6, <1>7, <1>8, <1>9, StepOf DEF Account

LEMMA PublishProcessKeepsInv ==
  ASSUME Inv, NEW c \in Clients, PublishProcess(c)
  PROVE  Inv'
<1>1. /\ task[c].step = "publish" /\ Goto(c, "await")
      /\ activeProcess' = c /\ processLock' = None
      /\ UNCHANGED <<serverVars, lock, child, sessionVars, diskVars>>
  BY DEF PublishProcess, At
<1>2. task'[c].step = "await"  BY <1>1, TaskGoes DEF Inv, Steps, HoldingSteps
<1>3. Holds(c)  BY DEF Inv, Account
<1>4. Holds(c)'  BY <1>1, <1>2, <1>3 DEF Holds, HoldingSteps, Alive
<1> QED BY <1>1, <1>4, GoneRendering DEF Rendering

LEMMA ReapKeepsInv ==
  ASSUME Inv, NEW c \in Clients, Reap(c)
  PROVE  Inv'
<1>1. /\ task[c].step = "await" /\ Goto(c, "collect") /\ ~Alive(c)
      /\ activeProcess' = None
      /\ UNCHANGED <<serverVars, lock, processLock, child, sessionVars, diskVars>>
  BY DEF Reap, At
<1>2. task'[c].step = "collect"  BY <1>1, TaskGoes DEF Inv, Steps, HoldingSteps
<1>3. Holds(c)  BY DEF Inv, Account
<1>4. Holds(c)'  BY <1>1, <1>2, <1>3 DEF Holds, HoldingSteps, Alive
<1> QED BY <1>1, <1>4, GoneRendering DEF Rendering

LEMMA CollectKeepsInv ==
  ASSUME Inv, NEW c \in Clients, Collect(c)
  PROVE  Inv'
<1> DEFINE n == task[c].dir
<1>1. /\ task[c].step = "collect" /\ Answer(c) /\ child' = [child EXCEPT ![c] = "none"]
      /\ UNCHANGED <<serverVars, processLock, activeProcess, sourcePath, renderCount>>
      /\ UNCHANGED <<root, sourceDir, rendersDir, requestFile>>
  BY DEF Collect, At
<1>2. /\ child' \in [Clients -> ChildStates] /\ child'[c] = "none"
      /\ \A d \in Clients \ {c} : child'[d] = child[d]
  BY <1>1 DEF Inv, Types, ChildStates
<1>3. n = renderCount /\ n > 0 /\ resultDir # n
  BY <1>1 DEF Inv, Account, Keeps, Rendering
<1>4. \A m \in DOMAIN results : ~Removing => m \in {resultDir, n}
  <2> SUFFICES ASSUME ~Removing, NEW m \in DOMAIN results \ {resultDir} PROVE m = n
    OBVIOUS
  <2>1. PICK d \in Clients : task[d].step \in Rendering /\ task[d].dir = m
    BY DEF Inv, Stored
  <2>2. lock = c /\ lock = d
    BY <1>1, <2>1 DEF Inv, Account, Holds, HoldingSteps, Rendering
  <2> QED BY <2>1, <2>2
<1>5. UNCHANGED <<main, closes>>  BY <1>1 DEF serverVars
<1>6. renderCount \in Nat /\ DOMAIN results \subseteq 1 .. renderCount
  BY DEF Inv, SessionTypes
<1>7. CASE results' = Without(n) /\ UNCHANGED resultDir
  <2>1. DOMAIN results' = DOMAIN results \ {n}  BY <1>7 DEF Without
  <2>2. SessionTypes'  BY <1>1, <1>7, <2>1 DEF Inv, SessionTypes
  <2>3. Stored'  BY <1>3, <1>4, <1>5, <1>7, <2>1 DEF Inv, Stored, Removing
  <2> QED BY <1>1, <1>2, <2>2, <2>3, Answered DEF HoldingSteps
<1>8. CASE n \in DOMAIN results /\ resultDir' = n /\ results' = Without(resultDir)
  <2>1. DOMAIN results' = DOMAIN results \ {resultDir}  BY <1>8 DEF Without
  <2>2. SessionTypes'  BY <1>1, <1>6, <1>8, <2>1 DEF Inv, SessionTypes
  <2>3. Stored'  BY <1>3, <1>4, <1>5, <1>8, <2>1 DEF Inv, Stored, Removing
  <2> QED BY <1>1, <1>2, <2>2, <2>3, Answered DEF HoldingSteps
<1> QED BY <1>7, <1>8 DEF Collect

LEMMA FindOutputKeepsInv ==
  ASSUME Inv, NEW c \in Clients, FindOutput(c)
  PROVE  Inv'
<1>1. /\ task[c].step = "find"
      /\ UNCHANGED <<serverVars, processVars, sessionVars, diskVars>>
  BY DEF FindOutput, At
<1>2. SessionTypes'  BY <1>1 DEF Inv, SessionTypes, sessionVars, diskVars
<1>3. /\ UNCHANGED <<processLock, activeProcess, child, resultDir, results>>
      /\ UNCHANGED <<main, closes, target, shuttingDown>>
  BY <1>1 DEF processVars, sessionVars, diskVars, serverVars
<1>4. CASE Answer(c)
  BY <1>1, <1>2, <1>3, <1>4, AnsweredWithoutResult DEF HoldingSteps, Rendering
<1>5. CASE /\ resultDir \in DOMAIN results
           /\ task' = [task EXCEPT ![c].step = "read", ![c].dir = resultDir]
           /\ UNCHANGED lock
  <2> DEFINE t == [task[c] EXCEPT !.step = "read", !.dir = resultDir]
  <2>1. task[c] \in Tasks  BY DEF Inv, Types
  <2>2. resultDir \in Nat /\ resultDir # None  BY <1>5 DEF Inv, SessionTypes
  <2>3. t \in Tasks /\ t.step = "read" /\ t.dir = resultDir
    BY <2>1, <2>2 DEF Tasks, Steps, HoldingSteps
  <2>4. task' = [task EXCEPT ![c] = t]  BY <1>5
  <2> HIDE DEF t
  <2>5. /\ task' \in [Clients -> Tasks] /\ task'[c] = t
        /\ \A d \in Clients \ {c} : task'[d] = task[d]
    BY <2>3, <2>4, TaskSet DEF Inv
  <2>6. Holds(c) /\ lock = c  BY <1>1 DEF Inv, Account, Holds, HoldingSteps
  <2>7. Only(c)  BY <1>3, <2>5 DEF Only
  <2>8. Types'  BY <1>3, <1>5, <2>5 DEF Inv, Types
  <2>9. Holds(c)'  BY <1>1, <1>3, <1>5, <2>3, <2>5, <2>6 DEF Holds, HoldingSteps, Alive
  <2>10. Keeps(c)'  BY <1>3, <2>2, <2>3, <2>5 DEF Keeps, Rendering
  <2>11. Stored'  BY <1>1, <1>3, <2>7, StoredKept DEF Rendering
  <2>12. Alive(c)' => Alive(c)  BY <1>3 DEF Alive
  <2> QED BY <1>1, <1>2, <1>3, <1>5, <2>6, <2>7, <2>8, <2>9, <2>10, <2>11, <2>12, StepOf
          DEF Account
<1> QED BY <1>4, <1>5 DEF FindOutput

LEMMA ReadOutputKeepsInv ==
  ASSUME Inv, NEW c \in Clients, ReadOutput(c)
  PROVE  Inv'
<1>1. /\ task[c].step = "read" /\ Answer(c)
      /\ UNCHANGED <<serverVars, processVars, sessionVars, diskVars>>
  BY DEF ReadOutput, At
<1>2. SessionTypes'  BY <1>1 DEF Inv, SessionTypes, sessionVars, diskVars
<1>3. UNCHANGED <<processLock, activeProcess, child, resultDir, results>>
  BY <1>1 DEF processVars, sessionVars, diskVars
<1> QED BY <1>1, <1>2, <1>3, AnsweredWithoutResult DEF HoldingSteps, Rendering

----------------------------------------------------------------------------
(* The renderer.                                                           *)

(* It changes its own state, and what is stored only under its render.     *)
LEMMA RendererStep ==
  ASSUME Inv, NEW c \in Clients, NEW s \in ChildStates \ {"running"}, Alive(c),
         child' = [child EXCEPT ![c] = s],
         UNCHANGED <<serverVars, lock, processLock, activeProcess, task, sessionVars>>,
         UNCHANGED <<root, sourceDir, rendersDir, requestFile>>,
         DOMAIN results \subseteq DOMAIN results',
         DOMAIN results' \subseteq DOMAIN results \cup {task[c].dir},
         s \in {"published", "ok"} /\ task[c].dir \in DOMAIN results' =>
           results'[task[c].dir] = [source |-> sourcePath, text |-> task[c].item]
  PROVE  Inv'
<1>1. task[c].step \in {"publish", "await"} /\ lock = c /\ Holds(c) /\ Keeps(c)
  BY DEF Inv, Account, Holds, HoldingSteps
<1>2. /\ UNCHANGED <<main, closes, target, shuttingDown>>
      /\ UNCHANGED <<sourcePath, resultDir, renderCount>>
  BY DEF serverVars, sessionVars
<1>3. /\ child' \in [Clients -> ChildStates] /\ child'[c] = s
      /\ \A d \in Clients \ {c} : child'[d] = child[d]
  BY DEF Inv, Types
<1>4. Only(c)  BY <1>3 DEF Only
<1>5. Types'  BY <1>2, <1>3 DEF Inv, Types
<1>6. SessionTypes'
  <2>1. task[c].dir \in 1 .. renderCount
    BY <1>1 DEF Keeps, Rendering, Inv, SessionTypes
  <2> QED BY <1>2, <2>1 DEF Inv, SessionTypes
<1>7. Holds(c)'  BY <1>1, <1>2 DEF Holds
<1>8. Keeps(c)'  BY <1>1, <1>2, <1>3 DEF Keeps, Rendering
<1>9. Stored'
  <2> SUFFICES ASSUME ~Removing
               PROVE  /\ resultDir # None => resultDir \in DOMAIN results'
                      /\ \A n \in DOMAIN results' \ {resultDir} :
                           \E d \in Clients : task[d].step \in Rendering /\ task[d].dir = n
    BY <1>2 DEF Stored, Removing
  <2>1. resultDir # None => resultDir \in DOMAIN results'  BY DEF Inv, Stored
  <2>2. ASSUME NEW n \in DOMAIN results' \ {resultDir}
        PROVE  \E d \in Clients : task[d].step \in Rendering /\ task[d].dir = n
    BY <1>1 DEF Inv, Stored, Rendering
  <2> QED BY <2>1, <2>2
<1> QED BY <1>1, <1>4, <1>5, <1>6, <1>7, <1>8, <1>9, StepOf DEF Account

LEMMA RendererPublishesKeepsInv ==
  ASSUME Inv, NEW c \in Clients, RendererPublishes(c)
  PROVE  Inv'
<1> DEFINE n == task[c].dir
           new == [m \in DOMAIN results \cup {n} |->
                     IF m = n THEN [source |-> sourceDir, text |-> requestFile] ELSE results[m]]
<1>1. /\ child[c] = "running" /\ sourceDir = task[c].input /\ requestFile \in Texts
      /\ child' = [child EXCEPT ![c] = "published"] /\ results' = new
      /\ UNCHANGED <<serverVars, lock, processLock, activeProcess, task, sessionVars>>
      /\ UNCHANGED <<root, sourceDir, rendersDir, requestFile>>
  BY DEF RendererPublishes
<1>2. Alive(c) /\ task[c].step \in {"publish", "await"}
  BY <1>1 DEF Inv, Account, Holds, Alive
<1>3. sourceDir = sourcePath /\ requestFile = task[c].item
  BY <1>1, <1>2 DEF Inv, Account, Keeps, Rendering
<1>4. /\ DOMAIN new = DOMAIN results \cup {n}
      /\ new[n] = [source |-> sourcePath, text |-> task[c].item]
  BY <1>3
<1> HIDE DEF new
<1>5. "published" \in ChildStates  BY DEF ChildStates
<1> QED BY <1>1, <1>2, <1>4, <1>5, RendererStep

LEMMA RendererExitsKeepsInv ==
  ASSUME Inv, NEW c \in Clients, RendererExits(c)
  PROVE  Inv'
<1>1. /\ UNCHANGED <<serverVars, lock, processLock, activeProcess, task, sessionVars>>
      /\ UNCHANGED <<root, sourceDir, rendersDir, requestFile, results>>
  BY DEF RendererExits, diskVars
<1>2. "failed" \in ChildStates /\ "ok" \in ChildStates  BY DEF ChildStates
<1>3. CASE child[c] = "running" /\ child' = [child EXCEPT ![c] = "failed"]
  <2>1. Alive(c)  BY <1>3 DEF Alive
  <2> QED BY <1>1, <1>2, <1>3, <2>1, RendererStep
<1>4. CASE child[c] = "published" /\ child' = [child EXCEPT ![c] = "ok"]
  <2>1. Alive(c)  BY <1>4 DEF Alive
  <2>2. task[c].dir \in DOMAIN results =>
          results[task[c].dir] = [source |-> sourcePath, text |-> task[c].item]
    BY <1>4, <2>1 DEF Inv, Account, Holds, Keeps, Rendering
  <2> QED BY <1>1, <1>2, <1>4, <2>1, <2>2, RendererStep
<1> QED BY <1>3, <1>4 DEF RendererExits

----------------------------------------------------------------------------
(* The main thread.  It takes nothing from the handlers but their child    *)
(* and the disk beneath the session root.                                  *)

LEMMA MainStep ==
  ASSUME Inv, Untouched,
         main' \in MainSteps, closes' \in 0 .. 2, shuttingDown' \in BOOLEAN,
         target' \in Clients \cup {None}, root' \in BOOLEAN,
         \/ UNCHANGED child
         \/ target \in Clients /\ child' = [child EXCEPT ![target] = "failed"],
         \/ UNCHANGED <<sourceDir, rendersDir, requestFile, results>>
         \/ /\ sourceDir' = None /\ rendersDir' = FALSE /\ requestFile' = None
            /\ DOMAIN results' = {} /\ Removing',
         Removing => Removing', Shutdown'
  PROVE  Inv'
<1>1. /\ UNCHANGED <<lock, processLock, activeProcess, task>>
      /\ UNCHANGED <<sourcePath, resultDir, renderCount>>
  BY DEF Untouched, sessionVars
<1>2. child' \in [Clients -> ChildStates]  BY DEF Inv, Types, ChildStates
<1>3. Types'  BY <1>1, <1>2 DEF Inv, Types
<1>4. SessionTypes'  BY <1>1 DEF Inv, SessionTypes
<1>5. \A c \in Clients : child'[c] \in {child[c], "failed"}
  BY DEF Inv, Types
<1>6. \A c \in Clients : Account(c)'
  <2> SUFFICES ASSUME NEW c \in Clients PROVE Account(c)'
    OBVIOUS
  <2>1. Holds(c) /\ Keeps(c)  BY DEF Inv, Account
  <2>2. Holds(c)'  BY <1>1, <1>5, <2>1 DEF Holds, Alive
  <2>3. Keeps(c)'  BY <1>1, <1>5, <2>1 DEF Keeps
  <2> QED BY <2>2, <2>3 DEF Account
<1>7. Stored'
  <2>1. CASE UNCHANGED results  BY <1>1, <2>1 DEF Inv, Stored
  <2>2. CASE Removing'  BY <2>2 DEF Stored
  <2> QED BY <2>1, <2>2
<1> QED BY <1>3, <1>4, <1>6, <1>7 DEF Inv

LEMMA SignalKeepsInv ==
  ASSUME Inv, Signal
  PROVE  Inv'
<1>1. /\ main = "serving" /\ main' = "refusing"
      /\ UNCHANGED <<closes, target, shuttingDown, child>>
      /\ UNCHANGED <<root, sourceDir, rendersDir, requestFile, results>> /\ Untouched
  BY DEF Signal, diskVars
<1>2. closes = 0 /\ UNCHANGED processLock  BY <1>1 DEF Inv, Shutdown, Untouched
<1>3. Shutdown' /\ (Removing => Removing')
  BY <1>1, <1>2 DEF Inv, Shutdown, Removing
<1> QED BY <1>1, <1>3, MainStep DEF MainSteps, Inv, Types, SessionTypes

(* Every child alive when the shutdown is announced is one it can find:    *)
(* none is between being spawned and being published.                      *)
LEMMA RefuseKeepsInv ==
  ASSUME Inv, Refuse
  PROVE  Inv'
<1>1. /\ main = "refusing" /\ processLock = None /\ shuttingDown' = TRUE
      /\ target' = activeProcess /\ main' = "polling"
      /\ UNCHANGED <<closes, child>>
      /\ UNCHANGED <<root, sourceDir, rendersDir, requestFile, results>> /\ Untouched
  BY DEF Refuse, diskVars
<1>2. UNCHANGED processLock  BY <1>1 DEF Untouched
<1>3. \A c \in Clients : Alive(c) => c = activeProcess
  BY <1>1 DEF Inv, Account, Holds
<1>4. \A c \in Clients : Alive(c)' = Alive(c)  BY <1>1 DEF Alive
<1>5. Shutdown' /\ (Removing => Removing')
  BY <1>1, <1>2, <1>3, <1>4 DEF Inv, Shutdown, Removing
<1> QED BY <1>1, <1>5, MainStep DEF MainSteps, Inv, Types, SessionTypes

LEMMA PollKeepsInv ==
  ASSUME Inv, Poll
  PROVE  Inv'
<1>1. /\ main = "polling" /\ UNCHANGED <<closes, target, shuttingDown, child>>
      /\ UNCHANGED <<root, sourceDir, rendersDir, requestFile, results>> /\ Untouched
      /\ IF target # None /\ Alive(target) THEN main' = "waiting" ELSE Terminated
  BY DEF Poll, diskVars
<1>2. /\ UNCHANGED processLock /\ shuttingDown /\ target \in Clients \cup {None}
      /\ closes \in 0 .. 2
      /\ \A c \in Clients : Alive(c) => c = target
  BY <1>1 DEF Inv, Types, Shutdown, Untouched
<1>3. \A c \in Clients : Alive(c)' = Alive(c)  BY <1>1 DEF Alive
<1>4. /\ main' \in {"waiting", "leaving", "emptying"}
      /\ main' = "leaving" => closes = 0
      /\ main' = "emptying" => closes > 0
      /\ main' = "waiting" => target \in Clients
      /\ main' # "waiting" => \A c \in Clients : ~Alive(c)
  BY <1>1, <1>2 DEF Terminated
<1>5. Shutdown'  BY <1>1, <1>2, <1>3, <1>4 DEF Inv, Shutdown
<1>6. Removing => Removing'  BY <1>1 DEF Removing
<1> QED BY <1>1, <1>4, <1>5, <1>6, MainStep DEF MainSteps, Inv, Types, SessionTypes

LEMMA WaitOrKillKeepsInv ==
  ASSUME Inv, WaitOrKill
  PROVE  Inv'
<1>1. /\ main = "waiting" /\ UNCHANGED <<closes, target, shuttingDown>> /\ Terminated
      /\ UNCHANGED <<root, sourceDir, rendersDir, requestFile, results>> /\ Untouched
      /\ \/ ~Alive(target) /\ UNCHANGED child
         \/ Alive(target) /\ child' = [child EXCEPT ![target] = "failed"]
  BY DEF WaitOrKill, diskVars
<1>2. /\ UNCHANGED processLock /\ shuttingDown /\ target \in Clients /\ closes \in 0 .. 2
      /\ \A c \in Clients : Alive(c) => c = target
  BY <1>1 DEF Inv, Types, Shutdown, Untouched
<1>3. \A c \in Clients : ~Alive(c)'
  BY <1>1, <1>2 DEF Alive, Inv, Types
<1>4. /\ main' \in {"leaving", "emptying"}
      /\ main' = "leaving" => closes = 0
      /\ main' = "emptying" => closes > 0
  BY <1>1, <1>2 DEF Terminated
<1>5. Shutdown'  BY <1>1, <1>2, <1>3, <1>4 DEF Inv, Shutdown
<1>6. Removing => Removing'  BY <1>1 DEF Removing
<1> QED BY <1>1, <1>2, <1>4, <1>5, <1>6, MainStep DEF MainSteps, Inv, Types, SessionTypes

LEMMA LeaveKeepsInv ==
  ASSUME Inv, Leave
  PROVE  Inv'
<1>1. /\ main = "leaving" /\ main' = "refusing" /\ closes' = 1
      /\ UNCHANGED <<target, shuttingDown, child>>
      /\ UNCHANGED <<root, sourceDir, rendersDir, requestFile, results>> /\ Untouched
  BY DEF Leave, diskVars
<1>2. /\ UNCHANGED processLock /\ shuttingDown /\ closes = 0
      /\ \A c \in Clients : ~Alive(c)
  BY <1>1 DEF Inv, Shutdown, Untouched
<1>3. \A c \in Clients : Alive(c)' = Alive(c)  BY <1>1 DEF Alive
<1>4. Shutdown'  BY <1>1, <1>2, <1>3 DEF Inv, Shutdown
<1>5. Removing => Removing'  BY <1>1, <1>2 DEF Removing
<1> QED BY <1>1, <1>4, <1>5, MainStep DEF MainSteps, Inv, Types, SessionTypes

LEMMA EmptyRootKeepsInv ==
  ASSUME Inv, EmptyRoot
  PROVE  Inv'
<1>1. /\ main = "emptying" /\ main' = "removing"
      /\ UNCHANGED <<closes, target, shuttingDown, child, root>> /\ Untouched
      /\ sourceDir' = None /\ rendersDir' = FALSE /\ requestFile' = None
      /\ DOMAIN results' = {}
  BY DEF EmptyRoot
<1>2. /\ UNCHANGED processLock /\ shuttingDown /\ closes \in 1 .. 2
      /\ \A c \in Clients : ~Alive(c)
  BY <1>1 DEF Inv, Types, Shutdown, Untouched
<1>3. \A c \in Clients : Alive(c)' = Alive(c)  BY <1>1 DEF Alive
<1>4. Shutdown'  BY <1>1, <1>2, <1>3 DEF Inv, Shutdown
<1>5. Removing'  BY <1>1, <1>2 DEF Removing
<1> QED BY <1>1, <1>4, <1>5, MainStep DEF MainSteps, Inv, Types, SessionTypes

LEMMA RemoveRootKeepsInv ==
  ASSUME Inv, RemoveRoot
  PROVE  Inv'
<1>1. /\ main = "removing"
      /\ UNCHANGED <<target, shuttingDown, child>> /\ Untouched
      /\ UNCHANGED <<sourceDir, rendersDir, requestFile, results>>
      /\ root' \in BOOLEAN
      /\ IF closes = 1 THEN main' = "refusing" /\ closes' = 2
                       ELSE main' = "exited" /\ UNCHANGED closes
  BY DEF RemoveRoot, Inv, SessionTypes
<1>2. /\ UNCHANGED processLock /\ shuttingDown /\ closes \in 1 .. 2
      /\ \A c \in Clients : ~Alive(c)
  BY <1>1 DEF Inv, Types, Shutdown, Untouched
<1>3. \A c \in Clients : Alive(c)' = Alive(c)  BY <1>1 DEF Alive
<1>4. main' \in {"refusing", "exited"} /\ closes' = 2  BY <1>1, <1>2
<1>5. Shutdown' /\ Removing'  BY <1>1, <1>2, <1>3, <1>4 DEF Inv, Shutdown, Removing
<1> QED BY <1>1, <1>4, <1>5, MainStep DEF MainSteps, Inv, Types, SessionTypes

----------------------------------------------------------------------------
(* The invariant, and what it gives.                                       *)

LEMMA InitInv == Init => Inv
<1> SUFFICES ASSUME Init PROVE Inv
  OBVIOUS
<1>1. Types
  <2>1. task \in [Clients -> Tasks]  BY IdleTyped DEF Init
  <2>2. child \in [Clients -> ChildStates]  BY DEF Init, ChildStates
  <2>3. main \in MainSteps /\ closes \in 0 .. 2  BY DEF Init, MainSteps
  <2>4. /\ target = None /\ activeProcess = None /\ lock = None /\ processLock = None
        /\ shuttingDown \in BOOLEAN
    BY DEF Init
  <2> QED BY <2>1, <2>2, <2>3, <2>4 DEF Types
<1>2. DOMAIN results = {}  BY DEF Init
<1>3. SessionTypes
  <2>1. renderCount \in 0 .. MaxRenders  BY DEF Init
  <2> QED BY <1>2, <2>1 DEF Init, SessionTypes
<1>4. \A c \in Clients : Account(c)
  BY DEF Init, Account, Holds, Keeps, Alive, Idle, HoldingSteps, Rendering
<1>5. Shutdown  BY DEF Init, Shutdown
<1>6. Stored  BY <1>2 DEF Init, Stored
<1> QED BY <1>1, <1>3, <1>4, <1>5, <1>6 DEF Inv

LEMMA NextInv == Inv /\ [Next]_vars => Inv'
<1> SUFFICES ASSUME Inv, [Next]_vars PROVE Inv'
  OBVIOUS
<1>1. CASE UNCHANGED vars
  <2>1. /\ UNCHANGED <<main, closes, target, shuttingDown, lock>>
        /\ UNCHANGED <<processLock, activeProcess, child, task>>
        /\ UNCHANGED <<sourcePath, resultDir, renderCount>>
        /\ UNCHANGED <<root, sourceDir, rendersDir, requestFile, results>>
    BY <1>1 DEF vars, serverVars, processVars, sessionVars, diskVars
  <2>2. Types' /\ SessionTypes'  BY <2>1 DEF Inv, Types, SessionTypes
  <2>3. \A c \in Clients : Account(c)'
    BY <2>1 DEF Inv, Account, Holds, Keeps, Alive
  <2>4. Shutdown'  BY <2>1 DEF Inv, Shutdown, Alive
  <2>5. Stored'  BY <2>1 DEF Inv, Stored, Removing
  <2> QED BY <2>2, <2>3, <2>4, <2>5 DEF Inv
<1>2. ASSUME NEW c \in Clients,
             \/ \E source \in Sources : PostSource(c, source)
             \/ \E text \in Texts : PostRender(c, text)
             \/ ReceiveBody(c) \/ RejectBody(c) \/ GetOutput(c) \/ AcquireToRead(c)
      PROVE  Inv'
  BY <1>2, PostSourceKeepsInv, PostRenderKeepsInv, ReceiveBodyKeepsInv, RejectBodyKeepsInv,
     GetOutputKeepsInv, AcquireToReadKeepsInv
<1>3. ASSUME NEW c \in Clients, HandlerRuns(c) PROVE Inv'
  BY <1>3, PrepareSourceKeepsInv, WriteSourceKeepsInv, BeginRenderKeepsInv,
     WriteRequestKeepsInv, SpawnRendererKeepsInv, PublishProcessKeepsInv, ReapKeepsInv,
     CollectKeepsInv, FindOutputKeepsInv, ReadOutputKeepsInv DEF HandlerRuns
<1>4. ASSUME NEW c \in Clients, RendererRuns(c) PROVE Inv'
  BY <1>4, RendererPublishesKeepsInv, RendererExitsKeepsInv DEF RendererRuns
<1>5. CASE Signal \/ MainRuns
  BY <1>5, SignalKeepsInv, RefuseKeepsInv, PollKeepsInv, WaitOrKillKeepsInv, LeaveKeepsInv,
     EmptyRootKeepsInv, RemoveRootKeepsInv DEF MainRuns
<1> QED BY <1>1, <1>2, <1>3, <1>4, <1>5 DEF Next

(* The invariant holds of every state of every behaviour.                  *)
THEOREM Invariance == Spec => []Inv
  BY InitInv, NextInv, PTL DEF Spec

(* Each lock is held by exactly the handler inside its section, whatever   *)
(* returns, raises or is refused on the way.                               *)
THEOREM TypesCorrect == Spec => []TypeOK
<1>1. Inv => TypeOK
  <2> SUFFICES ASSUME Inv PROVE TypeOK
    OBVIOUS
  <2>1. \A c \in Clients : task[c].step \in Steps /\ child[c] \in ChildStates
    BY DEF Inv, Types, Tasks
  <2>2. \A c \in Clients :
          /\ (lock = c) <=> task[c].step \in HoldingSteps
          /\ (processLock = c) <=> task[c].step = "publish"
    BY DEF Inv, Account, Holds
  <2> QED BY <2>1, <2>2 DEF Inv, Types, SessionTypes, TypeOK, MainSteps, Steps, ChildStates
<1> QED BY <1>1, Invariance, PTL

(* Only the handler inside the session lock can have a living child.       *)
THEOREM OneRendererAtMost == Spec => []OneRenderer
<1>1. Inv => OneRenderer
  <2> SUFFICES ASSUME Inv PROVE OneRenderer
    OBVIOUS
  <2> DEFINE living == {c \in Clients : Alive(c)}
  <2>1. \A c \in living : lock = c  BY DEF Inv, Account, Holds, HoldingSteps
  <2>2. living = {} \/ living = {lock}  BY <2>1
  <2> HIDE DEF living
  <2>3. Cardinality(living) <= 1
    <3>1. CASE living = {}  BY <3>1, FS_EmptySet
    <3>2. CASE living = {lock}
      <4>1. Cardinality({lock}) = 1  BY FS_Singleton
      <4> QED BY <3>2, <4>1
    <3> QED BY <2>2, <3>1, <3>2
  <2> QED BY <2>3 DEF OneRenderer, living
<1> QED BY <1>1, Invariance, PTL

(* Whatever the handlers were doing when the signal came, no renderer is   *)
(* left when the main thread removes the session root and exits.           *)
THEOREM NoRendererOutlives == Spec => []NoOrphan
<1>1. Inv => NoOrphan  BY DEF Inv, Shutdown, NoOrphan
<1> QED BY <1>1, Invariance, PTL

(* A render answers for the text its client posted and for the source the  *)
(* session names when it answers.                                          *)
THEOREM RendersAsAsked == Spec => []RenderedAsAsked
<1>1. Inv => RenderedAsAsked
  BY DEF Inv, Account, Keeps, Rendering, RenderedAsAsked
<1> QED BY <1>1, Invariance, PTL

(* Failed renders leave the newest result, and nothing else, on disk.      *)
THEOREM NewestResultStays == Spec => []NewestResultKept
<1>1. Inv => NewestResultKept
  <2> SUFFICES ASSUME Inv, ~Removing
               PROVE  /\ resultDir # None => resultDir \in DOMAIN results
                      /\ lock = None => DOMAIN results = {resultDir} \ {None}
    BY DEF NewestResultKept
  <2>1. resultDir # None => resultDir \in DOMAIN results  BY DEF Inv, Stored
  <2>2. ASSUME lock = None PROVE DOMAIN results \subseteq {resultDir}
    <3>1. \A c \in Clients : task[c].step \notin Rendering
      BY <2>2 DEF Inv, Account, Holds, HoldingSteps, Rendering
    <3> QED BY <3>1 DEF Inv, Stored
  <2>3. None \notin DOMAIN results  BY DEF Inv, SessionTypes
  <2> QED BY <2>1, <2>2, <2>3
<1> QED BY <1>1, Invariance, PTL

(* No render deletes the output a reader has found.                        *)
THEOREM ReadersAreSafe == Spec => []ReaderSafe
<1>1. Inv => ReaderSafe  BY DEF Inv, Account, Keeps, Stored, ReaderSafe
<1> QED BY <1>1, Invariance, PTL

----------------------------------------------------------------------------
(* What a step may never do.                                               *)

(* The result the bench serves is only ever replaced by the newest render, *)
(* which is there when it becomes the result (serve.py:334-337).           *)
ResultAdvances ==
  resultDir' # resultDir =>
    /\ resultDir' = renderCount /\ (resultDir # None => resultDir < resultDir')
    /\ resultDir' \in DOMAIN results'

(* No render writes into another's directory, nor twice into its own: what *)
(* was published under a number is removed, never rewritten.               *)
PublishedOnce ==
  \A n \in DOMAIN results \cap DOMAIN results' : results'[n] = results[n]

LEMMA NextSteps ==
  ASSUME Inv, [Next]_vars
  PROVE  ResultAdvances /\ PublishedOnce
<1>1. CASE UNCHANGED <<resultDir, results>>
  BY <1>1 DEF ResultAdvances, PublishedOnce
<1>2. ASSUME NEW c \in Clients, Collect(c)
      PROVE  ResultAdvances /\ PublishedOnce
  <2> DEFINE n == task[c].dir
  <2>1. /\ task[c].step = "collect"
        /\ \/ results' = Without(n) /\ resultDir' = resultDir
           \/ n \in DOMAIN results /\ resultDir' = n /\ results' = Without(resultDir)
    BY <1>2 DEF Collect, At
  <2>2. n = renderCount /\ resultDir # n /\ renderCount \in Nat
    <3>1. renderCount \in Nat  BY DEF Inv, SessionTypes
    <3> QED BY <2>1, <3>1 DEF Inv, Account, Keeps, Rendering
  <2>3. resultDir # None => resultDir < n  BY <2>2 DEF Inv, SessionTypes
  <2>4. ResultAdvances  BY <2>1, <2>2, <2>3 DEF ResultAdvances, Without
  <2>5. PublishedOnce  BY <2>1 DEF PublishedOnce, Without
  <2> QED BY <2>4, <2>5
<1>3. ASSUME NEW c \in Clients, RendererPublishes(c)
      PROVE  ResultAdvances /\ PublishedOnce
  <2> DEFINE n == task[c].dir
  <2>1. /\ child[c] = "running" /\ UNCHANGED resultDir
        /\ results' = [m \in DOMAIN results \cup {n} |->
                         IF m = n THEN [source |-> sourceDir, text |-> requestFile]
                                  ELSE results[m]]
    BY <1>3 DEF RendererPublishes, sessionVars
  <2>2. task[c].step \in Rendering
    BY <2>1 DEF Inv, Account, Holds, Alive, Rendering
  <2>3. n \notin DOMAIN results  BY <2>1, <2>2 DEF Inv, Account, Keeps
  <2>4. \A m \in DOMAIN results : results'[m] = results[m]  BY <2>1, <2>3
  <2> QED BY <2>1, <2>4 DEF ResultAdvances, PublishedOnce
<1>4. CASE EmptyRoot
  <2>1. UNCHANGED resultDir /\ DOMAIN results' = {}
    BY <1>4 DEF EmptyRoot, Untouched, sessionVars
  <2> QED BY <2>1 DEF ResultAdvances, PublishedOnce
<1>5. CASE UNCHANGED vars
  BY <1>1, <1>5 DEF vars, sessionVars, diskVars
<1>6. ASSUME NEW c \in Clients,
             \/ \E source \in Sources : PostSource(c, source)
             \/ \E text \in Texts : PostRender(c, text)
             \/ ReceiveBody(c) \/ RejectBody(c) \/ GetOutput(c) \/ AcquireToRead(c)
      PROVE  UNCHANGED <<resultDir, results>>
  BY <1>6 DEF PostSource, PostRender, ReceiveBody, RejectBody, GetOutput, AcquireToRead,
     sessionVars, diskVars
<1>7. ASSUME NEW c \in Clients, HandlerRuns(c), ~Collect(c)
      PROVE  UNCHANGED <<resultDir, results>>
  BY <1>7 DEF HandlerRuns, PrepareSource, WriteSource, BeginRender, WriteRequest,
     SpawnRenderer, PublishProcess, Reap, FindOutput, ReadOutput, sessionVars, diskVars
<1>8. ASSUME NEW c \in Clients, RendererExits(c)
      PROVE  UNCHANGED <<resultDir, results>>
  BY <1>8 DEF RendererExits, sessionVars, diskVars
<1>9. CASE Signal \/ (MainRuns /\ ~EmptyRoot)
  <2>1. UNCHANGED <<resultDir, results>>
    BY <1>9 DEF Signal, MainRuns, Refuse, Poll, WaitOrKill, Leave, RemoveRoot, Untouched,
       sessionVars, diskVars
  <2> QED BY <1>1, <2>1
<1> QED
  BY <1>1, <1>2, <1>3, <1>4, <1>5, <1>6, <1>7, <1>8, <1>9 DEF Next, RendererRuns, MainRuns

(* Every step advances the result or leaves it, and rewrites no output.    *)
THEOREM ResultsAdvance == Spec => [][ResultAdvances /\ PublishedOnce]_vars
<1>1. Inv /\ [Next]_vars => [ResultAdvances /\ PublishedOnce]_vars
  BY NextSteps
<1> QED BY <1>1, Invariance, PTL DEF Spec

=============================================================================
