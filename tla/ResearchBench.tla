---------------------------- MODULE ResearchBench ----------------------------
(***************************************************************************)
(* tools/research_bench/serve.py: one Session shared by the handler        *)
(* threads of a ThreadingHTTPServer, the renderer child a handler spawns,  *)
(* and the main thread, which on a signal ends the child, stops the server *)
(* and removes the session root -- without waiting for the handlers, whose *)
(* threads are daemons.                                                    *)
(*                                                                         *)
(* A client is a connection with its handler thread; it has one request at *)
(* a time.  A source's file name is identified with its bytes.  A refused  *)
(* request (not authorized, busy, no such route) changes nothing and is no *)
(* action.                                                                 *)
(***************************************************************************)
EXTENDS Naturals, FiniteSets

CONSTANTS
  Clients,     (* Connections to the bench.                                 *)
  Sources,     (* Audition sources that may be uploaded.                    *)
  Texts,       (* Request texts that may be rendered.                       *)
  None,        (* Python's None.                                            *)
  Partial,     (* The content of a file whose write failed half way.        *)
  MaxRenders   (* Bound of the model: renders ever started.                 *)

ASSUME ResearchBenchAssumption ==
  /\ MaxRenders \in Nat
  /\ {None, Partial} \cap (Clients \cup Sources \cup Texts) = {}
  /\ None # Partial /\ None \notin Nat

VARIABLES
  main,          (* Where the main thread is.                               *)
  closes,        (* Calls of Session.close: the finally's and atexit's.     *)
  target,        (* The child terminate_active_render found.                *)
  shuttingDown,  (* Session.shutting_down.                                  *)
  lock,          (* Session.lock: its owner.                                *)
  processLock,   (* Session.process_lock: the handler inside it.            *)
  activeProcess, (* Session.active_process, by the client it renders for.   *)
  child,         (* Each handler's renderer process.                        *)
  task,          (* Each handler's request: step, item, render dir, source. *)
  sourcePath, resultDir, renderCount,
  root,          (* On disk: the session root exists.                       *)
  sourceDir,     (* On disk: None, "empty", or the one file in source/.     *)
  rendersDir,    (* On disk: renders/ exists.                               *)
  requestFile,   (* On disk: renders/request.json.                          *)
  results        (* On disk: renders/<n>, by n.                             *)

serverVars == <<main, closes, target, shuttingDown>>
processVars == <<processLock, activeProcess, child>>
sessionVars == <<sourcePath, resultDir, renderCount>>
diskVars == <<root, sourceDir, rendersDir, requestFile, results>>
vars == <<serverVars, lock, processVars, task, sessionVars, diskVars>>

Idle == [step |-> "idle", item |-> None, dir |-> 0, input |-> None]

Alive(c) == child[c] \in {"running", "published"}

Without(n) == [m \in DOMAIN results \ {n} |-> results[m]]

Init ==
  /\ main = "serving" /\ closes = 0 /\ target = None /\ shuttingDown = FALSE
  /\ lock = None /\ processLock = None /\ activeProcess = None
  /\ child = [c \in Clients |-> "none"]
  /\ task = [c \in Clients |-> Idle]
  /\ sourcePath = None /\ resultDir = None /\ renderCount = 0
  /\ root = TRUE /\ sourceDir = None /\ rendersDir = FALSE
  /\ requestFile = None /\ results = [n \in {} |-> None]

----------------------------------------------------------------------------
(* The handlers.  Daemon threads run until the process is gone.            *)

At(c, step) == main # "exited" /\ task[c].step = step

Goto(c, step) == task' = [task EXCEPT ![c].step = step]

(* Mutant: an action that ends early leaves the lock behind.               *)
AnswerWithoutRelease(c) == UNCHANGED lock /\ task' = [task EXCEPT ![c] = Idle]

(* The action returns or raises: `finally` releases the lock either way.   *)
Answer(c) == lock' = None /\ task' = [task EXCEPT ![c] = Idle]

(* Mutant: _exclusive runs the action whoever holds the lock.              *)
AcquireAnyway(c) == lock' = c

(* _exclusive's non-blocking acquire; a busy lock refuses the request.     *)
Acquire(c) == lock = None /\ lock' = c

(* Both POST routes take the lock before they read the body.               *)
PostSource(c, source) ==
  /\ At(c, "idle")
  /\ Acquire(c)
  /\ task' = [task EXCEPT ![c] = [Idle EXCEPT !.step = "upload", !.item = source]]
  /\ UNCHANGED <<serverVars, processVars, sessionVars, diskVars>>

PostRender(c, text) ==
  /\ At(c, "idle")
  /\ renderCount < MaxRenders
  /\ Acquire(c)
  /\ task' = [task EXCEPT ![c] = [Idle EXCEPT !.step = "body", !.item = text]]
  /\ UNCHANGED <<serverVars, processVars, sessionVars, diskVars>>

(* The body arrives whole and, for a source, inspect_wav accepts it.       *)
ReceiveBody(c) ==
  /\ \/ At(c, "upload") /\ Goto(c, "prepare")
     \/ At(c, "body") /\ Goto(c, "begin")
  /\ UNCHANGED <<serverVars, lock, processVars, sessionVars, diskVars>>

(* The body is over its limit, cut short, or no supported WAV file.        *)
RejectBody(c) ==
  /\ At(c, "upload") \/ At(c, "body")
  /\ Answer(c)
  /\ UNCHANGED <<serverVars, processVars, sessionVars, diskVars>>

(* store_source replaces the source directory; mkdir(parents=True) creates *)
(* the root too, should it be gone.  It may also fail.                     *)
PrepareSource(c) ==
  /\ At(c, "prepare")
  /\ \/ /\ sourceDir' = "empty"
        /\ root' = TRUE
        /\ Goto(c, "write")
        /\ UNCHANGED lock
     \/ /\ sourceDir' = None
        /\ Answer(c)
        /\ UNCHANGED root
  /\ UNCHANGED <<serverVars, processVars, sessionVars, rendersDir, requestFile, results>>

(* path.write_bytes(data): the session points to the file only if all of   *)
(* it was written.  It fails when the directory is gone, or half way.      *)
WriteSource(c) ==
  /\ At(c, "write")
  /\ Answer(c)
  /\ \/ /\ sourceDir # None
        /\ sourceDir' = task[c].item
        /\ sourcePath' = task[c].item
     \/ /\ sourceDir' = IF sourceDir = None THEN None ELSE Partial
        /\ UNCHANGED sourcePath
  /\ UNCHANGED <<serverVars, processVars, resultDir, renderCount,
                 root, rendersDir, requestFile, results>>

(* render() refuses without a source; else it counts and makes renders/.   *)
BeginRender(c) ==
  /\ At(c, "begin")
  /\ \/ /\ sourcePath = None
        /\ Answer(c)
        /\ UNCHANGED <<renderCount, root, rendersDir>>
     \/ /\ sourcePath # None
        /\ renderCount' = renderCount + 1
        /\ root' = TRUE
        /\ rendersDir' = TRUE
        /\ task' = [task EXCEPT ![c].step = "ask", ![c].dir = renderCount + 1]
        /\ UNCHANGED lock
  /\ UNCHANGED <<serverVars, processVars, sourcePath, resultDir,
                 sourceDir, requestFile, results>>

(* request_path.write_bytes, over the previous attempt's text.             *)
WriteRequest(c) ==
  /\ At(c, "ask")
  /\ \/ /\ rendersDir
        /\ requestFile' = task[c].item
        /\ Goto(c, "spawn")
        /\ UNCHANGED lock
     \/ /\ requestFile' = IF rendersDir THEN Partial ELSE None
        /\ Answer(c)
  /\ UNCHANGED <<serverVars, processVars, sessionVars,
                 root, sourceDir, rendersDir, results>>

(* Mutant: the spawn does not look at shutting_down.                       *)
SpawnUnchecked(c) ==
  /\ At(c, "spawn")
  /\ processLock = None
  /\ processLock' = c
  /\ child' = [child EXCEPT ![c] = "running"]
  /\ task' = [task EXCEPT ![c].step = "publish", ![c].input = sourcePath]
  /\ UNCHANGED <<serverVars, lock, activeProcess, sessionVars, diskVars>>

(* Inside process_lock: refused while shutting down, else Popen.  Popen    *)
(* may raise, which leaves both locks.                                     *)
SpawnRenderer(c) ==
  /\ At(c, "spawn")
  /\ processLock = None
  /\ \/ /\ ~shuttingDown
        /\ processLock' = c
        /\ child' = [child EXCEPT ![c] = "running"]
        /\ task' = [task EXCEPT ![c].step = "publish", ![c].input = sourcePath]
        /\ UNCHANGED lock
     \/ /\ Answer(c)
        /\ UNCHANGED <<processLock, child>>
  /\ UNCHANGED <<serverVars, activeProcess, sessionVars, diskVars>>

(* Mutant: publishing the child does not leave process_lock.               *)
PublishProcessLocked(c) ==
  /\ At(c, "publish")
  /\ activeProcess' = c
  /\ Goto(c, "await")
  /\ UNCHANGED <<serverVars, lock, processLock, child, sessionVars, diskVars>>

(* self.active_process = process, and out of process_lock.                 *)
PublishProcess(c) ==
  /\ At(c, "publish")
  /\ activeProcess' = c
  /\ processLock' = None
  /\ Goto(c, "await")
  /\ UNCHANGED <<serverVars, lock, child, sessionVars, diskVars>>

(* communicate() returns once the child is gone.                           *)
Reap(c) ==
  /\ At(c, "await")
  /\ ~Alive(c)
  /\ processLock = None
  /\ activeProcess' = None
  /\ Goto(c, "collect")
  /\ UNCHANGED <<serverVars, lock, processLock, child, sessionVars, diskVars>>

(* Mutant: the previous result goes before the outcome is known.           *)
CollectClearingFirst(c) ==
  LET n == task[c].dir
  IN  /\ At(c, "collect")
      /\ Answer(c)
      /\ child' = [child EXCEPT ![c] = "none"]
      /\ IF child[c] = "ok" /\ n \in DOMAIN results
         THEN resultDir' = n ELSE UNCHANGED resultDir
      /\ results' = [m \in DOMAIN results \ {resultDir} |-> results[m]]
      /\ UNCHANGED <<serverVars, processLock, activeProcess, sourcePath, renderCount,
                     root, sourceDir, rendersDir, requestFile>>

(* A failed render, or one the bench cannot play (float64), is removed; a  *)
(* good one becomes the result and the previous one is removed.  When      *)
(* render.json is gone with the session root, reading it raises.           *)
Collect(c) ==
  LET n == task[c].dir
  IN  /\ At(c, "collect")
      /\ Answer(c)
      /\ child' = [child EXCEPT ![c] = "none"]
      /\ \/ /\ results' = Without(n)
            /\ UNCHANGED resultDir
         \/ /\ child[c] = "ok"
            /\ n \in DOMAIN results
            /\ resultDir' = n
            /\ results' = Without(resultDir)
      /\ UNCHANGED <<serverVars, processLock, activeProcess, sourcePath, renderCount,
                     root, sourceDir, rendersDir, requestFile>>

(* GET /api/output.wav.                                                    *)
GetOutput(c) ==
  /\ At(c, "idle")
  /\ task' = [task EXCEPT ![c] = [Idle EXCEPT !.step = "wait"]]
  /\ UNCHANGED <<serverVars, lock, processVars, sessionVars, diskVars>>

(* Mutant: read_output does not take the lock.                             *)
AcquireToReadUnlocked(c) ==
  /\ At(c, "wait")
  /\ Goto(c, "find")
  /\ UNCHANGED <<serverVars, lock, processVars, sessionVars, diskVars>>

(* read_output waits for the lock, where _exclusive would refuse.          *)
AcquireToRead(c) ==
  /\ At(c, "wait")
  /\ Acquire(c)
  /\ Goto(c, "find")
  /\ UNCHANGED <<serverVars, processVars, sessionVars, diskVars>>

(* The newest result's output.wav: nothing rendered, or path.exists().     *)
FindOutput(c) ==
  /\ At(c, "find")
  /\ \/ /\ resultDir \notin DOMAIN results
        /\ Answer(c)
     \/ /\ resultDir \in DOMAIN results
        /\ task' = [task EXCEPT ![c].step = "read", ![c].dir = resultDir]
        /\ UNCHANGED lock
  /\ UNCHANGED <<serverVars, processVars, sessionVars, diskVars>>

(* path.read_bytes().                                                      *)
ReadOutput(c) ==
  /\ At(c, "read")
  /\ Answer(c)
  /\ UNCHANGED <<serverVars, processVars, sessionVars, diskVars>>

----------------------------------------------------------------------------
(* The renderer process of client c.  It publishes its Render Result in    *)
(* one rename, and only if the request and the source it was given are     *)
(* there and whole; it may fail for any other reason too.                  *)

RendererPublishes(c) ==
  /\ child[c] = "running"
  /\ sourceDir = task[c].input
  /\ requestFile \in Texts
  /\ child' = [child EXCEPT ![c] = "published"]
  /\ results' = [n \in DOMAIN results \cup {task[c].dir} |->
                   IF n = task[c].dir THEN [source |-> sourceDir, text |-> requestFile]
                                      ELSE results[n]]
  /\ UNCHANGED <<serverVars, lock, processLock, activeProcess, task, sessionVars,
                 root, sourceDir, rendersDir, requestFile>>

RendererExits(c) ==
  /\ \/ child[c] = "running" /\ child' = [child EXCEPT ![c] = "failed"]
     \/ child[c] = "published" /\ child' = [child EXCEPT ![c] = "ok"]
  /\ UNCHANGED <<serverVars, lock, processLock, activeProcess, task, sessionVars, diskVars>>

----------------------------------------------------------------------------
(* The main thread: the signal handler first, then serve_forever returns,  *)
(* then close() twice, from the finally clause and from atexit.            *)

Untouched == UNCHANGED <<lock, processLock, activeProcess, task, sessionVars>>

Signal ==
  /\ main = "serving"
  /\ main' = "refusing"
  /\ UNCHANGED <<closes, target, shuttingDown, child, diskVars>> /\ Untouched

(* After terminate_active_render: the handler asks the server to stop,     *)
(* close() goes on to remove the root.                                     *)
Terminated == main' = IF closes = 0 THEN "leaving" ELSE "emptying"

(* terminate_active_render, inside process_lock.                           *)
Refuse ==
  /\ main = "refusing"
  /\ processLock = None
  /\ shuttingDown' = TRUE
  /\ target' = activeProcess
  /\ main' = "polling"
  /\ UNCHANGED <<closes, child, diskVars>> /\ Untouched

(* Outside it: poll(), then terminate().                                   *)
Poll ==
  /\ main = "polling"
  /\ IF target # None /\ Alive(target)
     THEN main' = "waiting" ELSE Terminated
  /\ UNCHANGED <<closes, target, shuttingDown, child, diskVars>> /\ Untouched

(* Mutant: no kill() when wait(timeout=5) gives up.                        *)
WaitWithoutKill ==
  /\ main = "waiting"
  /\ ~Alive(target)
  /\ UNCHANGED child
  /\ Terminated
  /\ UNCHANGED <<closes, target, shuttingDown, diskVars>> /\ Untouched

(* wait(timeout=5); a child still there then is killed.                    *)
WaitOrKill ==
  /\ main = "waiting"
  /\ \/ ~Alive(target) /\ UNCHANGED child
     \/ Alive(target) /\ child' = [child EXCEPT ![target] = "failed"]
  /\ Terminated
  /\ UNCHANGED <<closes, target, shuttingDown, diskVars>> /\ Untouched

(* server.shutdown() makes serve_forever return; close() is called.        *)
Leave ==
  /\ main = "leaving"
  /\ main' = "refusing"
  /\ closes' = 1
  /\ UNCHANGED <<target, shuttingDown, child, diskVars>> /\ Untouched

(* rmtree(root, ignore_errors=True) removes what it finds in the root ...  *)
EmptyRoot ==
  /\ main = "emptying"
  /\ main' = "removing"
  /\ sourceDir' = None
  /\ rendersDir' = FALSE
  /\ requestFile' = None
  /\ results' = [n \in {} |-> None]
  /\ UNCHANGED <<closes, target, shuttingDown, child, root>> /\ Untouched

(* ... and then the root, if nothing appeared in it since.  After the      *)
(* second close the interpreter exits, with whatever threads are left.     *)
RemoveRoot ==
  /\ main = "removing"
  /\ root' = (sourceDir # None \/ rendersDir)
  /\ IF closes = 1 THEN main' = "refusing" /\ closes' = 2
                   ELSE main' = "exited" /\ UNCHANGED closes
  /\ UNCHANGED <<target, shuttingDown, child,
                 sourceDir, rendersDir, requestFile, results>> /\ Untouched

----------------------------------------------------------------------------
(* What a handler does by itself: no client and no renderer is awaited.    *)
HandlerRuns(c) ==
  \/ PrepareSource(c) \/ WriteSource(c)
  \/ BeginRender(c) \/ WriteRequest(c) \/ SpawnRenderer(c) \/ PublishProcess(c)
  \/ Reap(c) \/ Collect(c)
  \/ FindOutput(c) \/ ReadOutput(c)

RendererRuns(c) == RendererPublishes(c) \/ RendererExits(c)

MainRuns == Refuse \/ Poll \/ WaitOrKill \/ Leave \/ EmptyRoot \/ RemoveRoot

Next ==
  \/ \E c \in Clients :
       \/ \E source \in Sources : PostSource(c, source)
       \/ \E text \in Texts : PostRender(c, text)
       \/ ReceiveBody(c) \/ RejectBody(c)
       \/ GetOutput(c) \/ AcquireToRead(c)
       \/ HandlerRuns(c)
       \/ RendererRuns(c)
  \/ Signal
  \/ MainRuns

Spec == Init /\ [][Next]_vars

(* Threads that can run do.  Nothing makes a client send its body, a       *)
(* renderer finish, or a signal arrive; the process_lock is contended, and *)
(* a thread waiting for it gets it if it is released again and again.      *)
Fairness ==
  /\ WF_vars(MainRuns) /\ SF_vars(Refuse)
  /\ \A c \in Clients : WF_vars(HandlerRuns(c))

FairSpec == Spec /\ Fairness

----------------------------------------------------------------------------
(* Properties *)

HoldingSteps ==
  {"upload", "prepare", "write", "body", "begin", "ask", "spawn", "publish",
   "await", "collect", "find", "read"}

(* The state has its types, and each lock is held by exactly the handler   *)
(* that is in its section: no return and no exception leaks one.           *)
TypeOK ==
  /\ main \in {"serving", "refusing", "polling", "waiting", "leaving",
               "emptying", "removing", "exited"}
  /\ closes \in 0 .. 2
  /\ {target, activeProcess} \subseteq Clients \cup {None}
  /\ shuttingDown \in BOOLEAN
  /\ \A c \in Clients :
       /\ task[c].step \in HoldingSteps \cup {"idle", "wait"}
       /\ (lock = c) <=> task[c].step \in HoldingSteps
       /\ (processLock = c) <=> task[c].step = "publish"
       /\ child[c] \in {"none", "running", "published", "ok", "failed"}
  /\ sourcePath \in Sources \cup {None}
  /\ sourceDir \in Sources \cup {None, "empty", Partial}
  /\ requestFile \in Texts \cup {None, Partial}
  /\ renderCount \in 0 .. MaxRenders
  /\ {root, rendersDir} \subseteq BOOLEAN
  /\ DOMAIN results \subseteq 1 .. renderCount

(* From the first rmtree of the root on, nothing on disk is dependable.    *)
Removing == closes = 2 \/ (closes = 1 /\ main = "removing")

(* There is never a second renderer: issue #139 rules out parallel         *)
(* execution (serve.py:544).                                               *)
OneRenderer == Cardinality({c \in Clients : Alive(c)}) <= 1

(* No renderer outlives the launcher, whatever the handlers were doing     *)
(* when the signal came -- not even one being spawned (serve.py:353-362).  *)
NoOrphan == main \in {"emptying", "removing", "exited"} => \A c \in Clients : ~Alive(c)

(* What a render answers for is what its client asked for: its own request *)
(* text, and the source the session names -- although both go through      *)
(* files that every render and every upload overwrites.                    *)
RenderedAsAsked ==
  \A c \in Clients :
    task[c].step = "collect" /\ child[c] = "ok" /\ task[c].dir \in DOMAIN results =>
      results[task[c].dir] = [source |-> sourcePath, text |-> task[c].item]

(* The newest successful result stays until another one replaces it,       *)
(* however many renders fail after it; and once no action is running it is *)
(* the only one on disk.                                                   *)
NewestResultKept ==
  ~Removing =>
    /\ resultDir # None => resultDir \in DOMAIN results
    /\ lock = None => DOMAIN results = {resultDir} \ {None}

(* A reader that found the newest output never has it deleted underneath   *)
(* it by a render that completes (serve.py:403-404).                       *)
ReaderSafe ==
  \A c \in Clients :
    task[c].step = "read" /\ ~Removing =>
      task[c].dir = resultDir /\ resultDir \in DOMAIN results

(* A signal stops the launcher, although uploads may stall in the lock     *)
(* forever and a renderer may ignore its SIGTERM.                          *)
ShutdownCompletes == (main = "refusing") ~> (main = "exited")

(* If renderers finish, every render is answered: waiting for the child    *)
(* and the two locks never block each other.                               *)
RenderAnswered ==
  (\A c \in Clients : WF_vars(RendererRuns(c))) =>
    \A c \in Clients :
      (task[c].step = "spawn") ~> (task[c].step = "idle" \/ main = "exited")

(* "Everything the bench writes lives beneath it, and it is removed on     *)
(* shutdown" (serve.py:255-256).                                           *)
SessionRemoved == main = "exited" => ~root

=============================================================================
