--------------------------- MODULE ObjectAdapter ---------------------------
(***************************************************************************)
(* Class ObjectAdapter: the server side of the middleware.  A pump thread  *)
(* reads requests from clients and hands them to a pool of worker threads, *)
(* which find the servant of the request and execute it.                   *)
(*                                                                         *)
(* A worker asks the pump for work with a message that also carries the    *)
(* reply of its previous request, and the pump answers with a request or   *)
(* with "stop".  So a worker's position says where its one message is:     *)
(*   connecting   the thread has not asked for work yet;                   *)
(*   asked        its message is on its way to the pump;                   *)
(*   ready        the pump knows it is ready (ready_workers);              *)
(*   work         it has a request, and looks for the servant;             *)
(*   execute      the servant's operation is executing;                    *)
(*   told         "stop" is on its way to it;                              *)
(*   stopped, failed   the thread has ended.                               *)
(*                                                                         *)
(* Meanwhile callers add and remove a servant and activate, shut down and  *)
(* wait for the adapter, in any order and from several threads.            *)
(***************************************************************************)
EXTENDS Integers, Sequences, FiniteSets, Functions, FiniteSetTheorems, TLAPS

CONSTANTS
    Callers,      \* threads that call the adapter's operations
    Workers,      \* the worker threads, pool_size_ of them
    Requests,     \* bound: the requests that clients send
    NoRequest,    \* the "ready" message of a worker without a reply
    NoCaller

ASSUME AdapterAssumption ==
    /\ IsFiniteSet(Workers) /\ Workers # {}
    /\ NoRequest \notin Requests /\ NoCaller \notin Callers
    /\ {"done", "raced"} \cap (Callers \cup {NoCaller}) = {}

VARIABLES
    pub,          \* state_ of the StopPublisher, or "None" before the publisher is constructed
    subscribed,   \* has the subscriber connected its socket?
    readable,     \* has the stop message arrived at the subscriber's socket?
    state,        \* state_
    servant,      \* is the servant that requests ask for in servants_?
    pc,           \* what each caller is doing
    promised,     \* the promise by which the pump tells activate() its outcome
    once,         \* who executes cleanup(), under call_once
    pump,         \* the pump thread: none, starting, spawning (the workers), running, gone
    shuttingDown, \* the pump's local variable
    readyQueue,   \* the pump's local variable ready_workers
    polled,       \* is the frontend in the poller?
    numWorkers,   \* the pump's local variable num_workers
    worker,       \* each worker's position
    job,          \* the request each worker is occupied with, or replies to
    req,          \* each request, as its client sees it
    broken,       \* history: a thread could not be started, or died
    waited        \* history: wait_for_shutdown() has returned

-----------------------------------------------------------------------------
(* Class StopPublisher: a thread that tells the threads of the adapter to  *)
(* stop.  A subscriber gets a socket that becomes readable once somebody   *)
(* calls stop(), which any thread may do any number of times.              *)

pubVars == <<pub, subscribed, readable>>

PubState == {"None", "Started", "Stopping", "Stopped", "Failed"}

PubInit ==
    /\ pub = "None"
    /\ subscribed = FALSE
    /\ readable = FALSE

\* StopPublisher(): the constructor returns once the thread has bound the
\* socket, or throws if it could not.  Nobody sees the state Starting.
PubConstruct(ok) ==
    /\ pub = "None"
    /\ pub' = IF ok THEN "Started" ELSE "Failed"
    /\ UNCHANGED <<subscribed, readable>>

\* subscribe() throws unless the publisher is in the state Started.
PubSubscribe ==
    /\ pub = "Started"
    /\ subscribed' = TRUE
    /\ UNCHANGED <<pub, readable>>

\* The state after stop(): a no-op unless the publisher is in the state Started.
AfterStop(p) == IF p = "Started" THEN "Stopping" ELSE p

PubStop ==
    /\ pub' = AfterStop(pub)
    /\ UNCHANGED <<subscribed, readable>>

\* Mutant of PubSend: the thread ends without sending the message.
PubSendNothing ==
    /\ pub = "Stopping"
    /\ pub' = "Stopped"
    /\ UNCHANGED <<subscribed, readable>>

\* stopper_thread(): send the stop message and finish.
PubSend ==
    /\ pub = "Stopping"
    /\ pub' = "Stopped"
    /\ readable' = subscribed
    /\ UNCHANGED subscribed

\* wait_until_stopped() returns.
PubIsStopped == pub \in {"Stopped", "Failed"}

-----------------------------------------------------------------------------
callerVars == <<pc, promised, once>>
pumpVars == <<pump, shuttingDown, readyQueue, polled, numWorkers>>
workerVars == <<worker, job>>
vars == <<pubVars, state, servant, callerVars, pumpVars, workerVars, req, broken, waited>>

AdapterState ==
    {"Inactive", "Activating", "Active", "Deactivating", "Destroyed", "Failed"}

CallerPC == {"idle", "startStopper", "startPump", "waitReady", "shutdown",
             "wait", "once", "cleanup", "waitStopped"}

WorkerPC == {"none", "connecting", "asked", "ready", "work", "execute", "told",
             "stopped", "failed"}

PumpPC == {"none", "starting", "spawning", "running", "gone"}

TypeOK ==
    /\ pub \in PubState /\ subscribed \in BOOLEAN /\ readable \in BOOLEAN
    /\ state \in AdapterState
    /\ servant \in BOOLEAN
    /\ pc \in [Callers -> CallerPC]
    /\ promised \in {"no", "ready", "exception"}
    /\ once \in Callers \cup {NoCaller, "done", "raced"}
    /\ pump \in PumpPC
    /\ shuttingDown \in BOOLEAN /\ polled \in BOOLEAN
    /\ readyQueue \in Seq(Workers)
    /\ numWorkers \in 0 .. Cardinality(Workers)
    /\ worker \in [Workers -> WorkerPC]
    /\ job \in [Workers -> Requests \cup {NoRequest}]
    /\ req \in [Requests -> {"none", "sent", "given", "done"}]
    /\ broken \in BOOLEAN /\ waited \in BOOLEAN

Init ==
    /\ PubInit
    /\ state = "Inactive"
    /\ servant = FALSE
    /\ pc = [c \in Callers |-> "idle"]
    /\ promised = "no"
    /\ once = NoCaller
    /\ pump = "none"
    /\ shuttingDown = FALSE /\ polled = FALSE
    /\ readyQueue = <<>>
    /\ numWorkers = 0
    /\ worker = [w \in Workers |-> "none"]
    /\ job = [w \in Workers |-> NoRequest]
    /\ req = [r \in Requests |-> "none"]
    /\ broken = FALSE /\ waited = FALSE

-----------------------------------------------------------------------------
(* add(), remove(), find() *)

\* The operations on the maps of servants throw in these states.
BadState == state \in {"Destroyed", "Failed"}

Add(c) ==
    /\ pc[c] = "idle" /\ ~BadState
    /\ ~servant /\ servant' = TRUE
    /\ UNCHANGED <<pubVars, state, callerVars, pumpVars, workerVars, req, broken>>

Remove(c) ==
    /\ pc[c] = "idle" /\ ~BadState
    /\ servant /\ servant' = FALSE
    /\ UNCHANGED <<pubVars, state, callerVars, pumpVars, workerVars, req, broken>>

-----------------------------------------------------------------------------
(* activate() *)

Activate(c) ==
    /\ pc[c] = "idle" /\ state = "Inactive"
    /\ state' = "Activating"
    /\ pc' = [pc EXCEPT ![c] = "startStopper"]
    /\ UNCHANGED <<pubVars, servant, promised, once, pumpVars, workerVars, req, broken>>

\* run_workers(): construct the publisher for stop messages.
StartStopper(c) ==
    /\ pc[c] = "startStopper"
    /\ \E ok \in BOOLEAN :
         /\ PubConstruct(ok)
         /\ pc' = [pc EXCEPT ![c] = IF ok THEN "startPump" ELSE "idle"]
         /\ state' = IF ok THEN state ELSE "Failed"
    /\ UNCHANGED <<servant, promised, once, pumpVars, workerVars, req, broken>>

\* run_workers(): start the pump thread, which may fail for want of resources.
StartPump(c) ==
    /\ pc[c] = "startPump"
    /\ \/ /\ pump' = "starting"
          /\ pc' = [pc EXCEPT ![c] = "waitReady"]
          /\ UNCHANGED <<state, broken>>
       \/ /\ pc' = [pc EXCEPT ![c] = "idle"]
          /\ state' = "Failed"
          /\ broken' = TRUE
          /\ UNCHANGED pump
    /\ UNCHANGED <<pubVars, servant, promised, once, shuttingDown, readyQueue,
                   polled, numWorkers, workerVars, req>>

\* The rest of activate(), once the pump has kept its promise.
Activated(c) ==
    /\ pc[c] = "waitReady" /\ promised # "no"
    /\ pc' = [pc EXCEPT ![c] = "idle"]
    /\ state' = IF promised = "ready" THEN "Active" ELSE "Failed"
    /\ UNCHANGED <<pubVars, servant, promised, once, pumpVars, workerVars, req, broken>>

-----------------------------------------------------------------------------
(* shutdown() and wait_for_shutdown() *)

Deactivate ==
    /\ state' = "Deactivating"
    /\ PubStop

\* shutdown().  It is a no-op for an adapter that is shut down, and throws for
\* one that failed.  During activation it waits for the outcome.
Shutdown(c) ==
    /\ pc[c] = "idle"
    /\ \/ /\ state = "Inactive"
          /\ state' = "Destroyed"
          /\ UNCHANGED <<pubVars, pc>>
       \/ /\ state = "Activating"
          /\ pc' = [pc EXCEPT ![c] = "shutdown"]
          /\ UNCHANGED <<pubVars, state>>
       \/ /\ state = "Active"
          /\ Deactivate
          /\ UNCHANGED pc
    /\ UNCHANGED <<servant, promised, once, pumpVars, workerVars, req, broken>>

ShutdownContinue(c) ==
    /\ pc[c] = "shutdown" /\ state # "Activating"
    /\ pc' = [pc EXCEPT ![c] = "idle"]
    /\ IF state = "Active" THEN Deactivate ELSE UNCHANGED <<pubVars, state>>
    /\ UNCHANGED <<servant, promised, once, pumpVars, workerVars, req, broken>>

WaitForShutdown(c) ==
    /\ pc[c] = "idle"
    /\ pc' = [pc EXCEPT ![c] = "wait"]
    /\ UNCHANGED <<pubVars, state, servant, promised, once, pumpVars, workerVars,
                   req, broken>>

\* The adapter is being shut down: call cleanup() if nobody has done so.
WaitEnds(c) ==
    /\ pc[c] = "wait" /\ state \in {"Deactivating", "Destroyed", "Failed"}
    /\ state' = IF state = "Deactivating" THEN "Destroyed" ELSE state
    /\ pc' = [pc EXCEPT ![c] = IF once = NoCaller THEN "cleanup" ELSE "once"]
    /\ once' = IF once = NoCaller THEN c ELSE once
    /\ UNCHANGED <<pubVars, servant, promised, pumpVars, workerVars, req, broken>>

\* Mutant of Cleanup: it does not join with the threads.
CleanupWithoutJoin(c) ==
    /\ pc[c] = "cleanup"
    /\ servant' = FALSE
    /\ once' = "done"
    /\ pc' = [pc EXCEPT ![c] = "waitStopped"]
    /\ UNCHANGED <<pubVars, state, promised, pumpVars, workerVars, req, broken>>

\* cleanup(): join with the threads, and destroy the servants without a lock.
Cleanup(c) ==
    /\ pc[c] = "cleanup"
    /\ \A w \in Workers : worker[w] \in {"none", "stopped", "failed"}
    /\ pump \in {"none", "gone"}
    /\ servant' = FALSE
    /\ once' = "done"
    /\ pc' = [pc EXCEPT ![c] = "waitStopped"]
    /\ UNCHANGED <<pubVars, state, promised, pumpVars, workerVars, req, broken>>

\* cleanup() while the pump is still starting workers, because one has died
\* already: it iterates over workers_ while the pump appends to it.  The data
\* race may make it miss a thread.
CleanupRaces(c) ==
    /\ pc[c] = "cleanup"
    /\ pump = "spawning"
    /\ servant' = FALSE
    /\ once' = "raced"
    /\ pc' = [pc EXCEPT ![c] = "waitStopped"]
    /\ UNCHANGED <<pubVars, state, promised, pumpVars, workerVars, req, broken>>

CleanedUp(c) ==
    /\ pc[c] = "once" /\ once \in {"done", "raced"}
    /\ pc' = [pc EXCEPT ![c] = "waitStopped"]
    /\ UNCHANGED <<pubVars, state, servant, promised, once, pumpVars, workerVars,
                   req, broken>>

\* wait_for_shutdown() returns, or throws, once the publisher has stopped.
WaitReturns(c) ==
    /\ pc[c] = "waitStopped"
    /\ pub = "None" \/ PubIsStopped
    /\ pc' = [pc EXCEPT ![c] = "idle"]
    /\ waited' = TRUE
    /\ UNCHANGED <<pubVars, state, servant, promised, once, pumpVars, workerVars,
                   req, broken>>

-----------------------------------------------------------------------------
(* pump() *)

\* Mutant of ThreadFails: the publisher is not stopped.
ThreadFailsSilently ==
    /\ state' = "Failed"
    /\ UNCHANGED pubVars

\* store_exception(), in the pump or a worker, and what goes with it.
ThreadFails ==
    /\ state' = "Failed"
    /\ PubStop

\* pump(): bind the endpoint and subscribe.  Another server may have the
\* endpoint already.
PumpStarts ==
    /\ pump = "starting"
    /\ \/ /\ PubSubscribe
          /\ pump' = "spawning"
          /\ UNCHANGED <<state, promised>>
       \/ /\ ThreadFails
          /\ pump' = "gone" /\ promised' = "exception"
    /\ UNCHANGED <<servant, pc, once, shuttingDown, readyQueue, polled, numWorkers,
                   workerVars, req, broken>>

\* Mutant of SpawnWorker: the worker is not counted.
SpawnWorkerUncounted(w) ==
    /\ pump = "spawning" /\ worker[w] = "none"
    /\ worker' = [worker EXCEPT ![w] = "connecting"]
    /\ UNCHANGED <<pubVars, state, servant, callerVars, pumpVars, job, req, broken>>

\* pump(): start a worker.  When that fails for want of resources, the sockets
\* that the workers started before it use are gone.
SpawnWorker(w) ==
    /\ pump = "spawning" /\ worker[w] = "none"
    /\ \/ /\ worker' = [worker EXCEPT ![w] = "connecting"]
          /\ numWorkers' = numWorkers + 1
          /\ UNCHANGED <<pubVars, state, promised, pump, broken>>
       \/ /\ ThreadFails
          /\ pump' = "gone" /\ promised' = "exception"
          /\ broken' = TRUE
          /\ UNCHANGED <<worker, numWorkers>>
    /\ UNCHANGED <<servant, pc, once, shuttingDown, readyQueue, polled, job, req>>

\* pump(): every worker has been started, so keep the promise and enter the loop.
PumpReady ==
    /\ pump = "spawning" /\ \A w \in Workers : worker[w] # "none"
    /\ pump' = "running" /\ promised' = "ready"
    /\ UNCHANGED <<pubVars, state, servant, pc, once, shuttingDown, readyQueue,
                   polled, numWorkers, workerVars, req, broken>>

\* The end of an iteration of the loop: when the pump is shutting down it tells
\* the workers in queue to stop, and returns when it has told them all.
EndIteration(queue, ws) ==
    IF ~shuttingDown'
      THEN /\ readyQueue' = queue
           /\ worker' = ws
           /\ UNCHANGED <<pump, numWorkers>>
      ELSE /\ readyQueue' = <<>>
           /\ worker' = [w \in Workers |-> IF w \in Range(queue) THEN "told" ELSE ws[w]]
           /\ numWorkers' = numWorkers - Len(queue)
           /\ pump' = IF queue # <<>> /\ numWorkers' = 0 THEN "gone" ELSE pump

\* Mutant of PumpStop: the pump does not wait for the workers.
PumpStopAtOnce ==
    /\ pump = "running" /\ readable
    /\ pump' = "gone"
    /\ worker' = [w \in Workers |-> IF worker[w] = "ready" THEN "told" ELSE worker[w]]
    /\ UNCHANGED <<pubVars, state, servant, callerVars, shuttingDown, readyQueue,
                   polled, numWorkers, job, req, broken>>

\* The stop socket is readable: accept no more requests.
PumpStop ==
    /\ pump = "running" /\ ~shuttingDown /\ readable
    /\ shuttingDown' = TRUE
    /\ polled' = FALSE
    /\ EndIteration(readyQueue, worker)
    /\ UNCHANGED <<pubVars, state, servant, callerVars, job, req, broken>>

\* A worker asks for work, and its reply, if any, goes to the client.
PumpBackend(w) ==
    /\ pump = "running" /\ worker[w] = "asked"
    /\ UNCHANGED shuttingDown
    /\ polled' = (polled \/ (~shuttingDown /\ readyQueue = <<>>))
    /\ EndIteration(Append(readyQueue, w), [worker EXCEPT ![w] = "ready"])
    /\ req' = IF job[w] = NoRequest THEN req ELSE [req EXCEPT ![job[w]] = "done"]
    /\ job' = [job EXCEPT ![w] = NoRequest]
    /\ UNCHANGED <<pubVars, state, servant, callerVars, broken>>

\* Mutant of PumpFrontend: the frontend stays in the poller.
PumpFrontendKeepsPolling(r) ==
    /\ pump = "running" /\ ~shuttingDown /\ polled
    /\ req[r] = "sent"
    /\ LET w == Head(readyQueue)
       IN  /\ worker' = [worker EXCEPT ![w] = "work"]
           /\ job' = [job EXCEPT ![w] = r]
    /\ req' = [req EXCEPT ![r] = "given"]
    /\ readyQueue' = Tail(readyQueue)
    /\ UNCHANGED <<pubVars, state, servant, callerVars, pump, shuttingDown, polled,
                   numWorkers, broken>>

\* A request goes to the worker that has been ready for longest.
PumpFrontend(r) ==
    /\ pump = "running" /\ ~shuttingDown /\ polled
    /\ req[r] = "sent"
    /\ LET w == Head(readyQueue)
       IN  /\ worker' = [worker EXCEPT ![w] = "work"]
           /\ job' = [job EXCEPT ![w] = r]
    /\ req' = [req EXCEPT ![r] = "given"]
    /\ readyQueue' = Tail(readyQueue)
    /\ polled' = (readyQueue' # <<>>)
    /\ UNCHANGED <<pubVars, state, servant, callerVars, pump, shuttingDown,
                   numWorkers, broken>>

\* poll() times out: the pump stops the middleware, and so this adapter.
PumpIdle ==
    /\ pump = "running" /\ state = "Active"
    /\ ~readable /\ \A w \in Workers : worker[w] # "asked"
    /\ polled => \A r \in Requests : req[r] # "sent"
    /\ Deactivate
    /\ UNCHANGED <<servant, callerVars, pumpVars, workerVars, req, broken>>

\* A fatal error in the loop: the sockets that the workers use are gone.
PumpFails ==
    /\ pump = "running"
    /\ pump' = "gone"
    /\ ThreadFails
    /\ broken' = TRUE
    /\ UNCHANGED <<servant, callerVars, shuttingDown, readyQueue, polled,
                   numWorkers, workerVars, req>>

-----------------------------------------------------------------------------
(* worker() and dispatch() *)

WorkerConnects(w) ==
    /\ worker[w] = "connecting"
    /\ worker' = [worker EXCEPT ![w] = "asked"]
    /\ UNCHANGED <<pubVars, state, servant, callerVars, pumpVars, job, req, broken>>

\* dispatch(): a bad request, or one without a servant, is answered at once.
\* find_servant() throws when the adapter is being destroyed, which counts as
\* no servant.
Dispatch(w) ==
    /\ worker[w] = "work"
    /\ \/ worker' = [worker EXCEPT ![w] = "asked"]
       \/ ~BadState /\ servant /\ worker' = [worker EXCEPT ![w] = "execute"]
    /\ UNCHANGED <<pubVars, state, servant, callerVars, pumpVars, job, req, broken>>

\* The servant's operation returns, and the worker replies.
Reply(w) ==
    /\ worker[w] = "execute"
    /\ worker' = [worker EXCEPT ![w] = "asked"]
    /\ UNCHANGED <<pubVars, state, servant, callerVars, pumpVars, job, req, broken>>

WorkerStops(w) ==
    /\ worker[w] = "told"
    /\ worker' = [worker EXCEPT ![w] = "stopped"]
    /\ UNCHANGED <<pubVars, state, servant, callerVars, pumpVars, job, req, broken>>

\* A fatal error in a worker, other than in the operation.
WorkerFails(w) ==
    /\ worker[w] \in {"connecting", "work"}
    /\ worker' = [worker EXCEPT ![w] = "failed"]
    /\ ThreadFails
    /\ broken' = TRUE
    /\ UNCHANGED <<servant, callerVars, pumpVars, job, req>>

-----------------------------------------------------------------------------

\* A client sends a request.
Send(r) ==
    /\ req[r] = "none"
    /\ req' = [req EXCEPT ![r] = "sent"]
    /\ UNCHANGED <<pubVars, state, servant, callerVars, pumpVars, workerVars, broken>>

CallerStep(c) ==
    \/ StartStopper(c) \/ StartPump(c) \/ Activated(c) \/ ShutdownContinue(c)
    \/ WaitEnds(c) \/ Cleanup(c) \/ CleanupRaces(c) \/ CleanedUp(c)

PumpStep ==
    \/ PumpStarts \/ PumpReady \/ PumpStop
    \/ \E w \in Workers : SpawnWorker(w) \/ PumpBackend(w)
    \/ \E r \in Requests : PumpFrontend(r)

WorkerStep(w) == WorkerConnects(w) \/ Dispatch(w) \/ Reply(w) \/ WorkerStops(w)

PublisherStep ==
    /\ PubSend
    /\ UNCHANGED <<state, servant, callerVars, pumpVars, workerVars, req, broken>>

Next ==
    \/ \E c \in Callers : WaitReturns(c)
    \/ /\ \/ \E c \in Callers : \/ Add(c) \/ Remove(c) \/ Activate(c) \/ Shutdown(c)
                                \/ WaitForShutdown(c) \/ CallerStep(c)
          \/ PumpStep \/ PumpIdle \/ PumpFails
          \/ \E w \in Workers : WorkerStep(w) \/ WorkerFails(w)
          \/ PublisherStep
          \/ \E r \in Requests : Send(r)
       /\ UNCHANGED waited

Spec == Init /\ [][Next]_vars

\* Every thread that can take a step eventually does, and the servant's
\* operations return.  Nobody has to call the adapter, or to send a request,
\* and nothing has to fail.
FairSpec ==
    /\ Spec
    /\ \A c \in Callers : WF_vars((CallerStep(c) /\ UNCHANGED waited) \/ WaitReturns(c))
    /\ WF_vars(PumpStep /\ UNCHANGED waited)
    /\ \A w \in Workers : WF_vars(WorkerStep(w) /\ UNCHANGED waited)
    /\ WF_vars(PublisherStep /\ UNCHANGED waited)

-----------------------------------------------------------------------------
(* Properties *)

\* After wait_for_shutdown() has returned to anyone, no thread of the adapter
\* is left and no servant is in the map, also when several threads wait at
\* once or the adapter failed: the middleware that owns the adapter can go.
\* (When a thread dies during activation, activate() overwrites Failed, and
\* add() accepts servants again; when it dies while the pump still starts the
\* others, cleanup() races with the pump for workers_.)
CleanAfterWait ==
    waited /\ once # "raced" =>
        /\ \A w \in Workers : worker[w] \in {"none", "stopped", "failed"}
        /\ pump \in {"none", "gone"}
        /\ ~servant \/ broken

\* No worker gets lost or is counted twice by the pump: the workers that it
\* waits for, num_workers, are those it has not told to stop, the queue holds
\* each ready worker once, and the frontend is polled only while a worker is
\* ready, or else the pump would take a worker from an empty queue.
WorkersAccounted ==
    /\ pump = "spawning" =>
          numWorkers = Cardinality({w \in Workers : worker[w] # "none"})
    /\ pump = "running" =>
        /\ numWorkers =
             Cardinality({w \in Workers : worker[w] \notin {"told", "stopped"}})
        /\ IsInjective(readyQueue)
        /\ Range(readyQueue) = {w \in Workers : worker[w] = "ready"}
        /\ polled <=> (~shuttingDown /\ readyQueue # <<>>)

\* A request that the pump has given to a worker is answered, also when the
\* adapter is shut down meanwhile: "we continue processing while there are
\* still outstanding replies".
RequestsAnswered ==
    \A r \in Requests : []<>(req[r] # "given" \/ broken)

\* activate(), shutdown() and wait_for_shutdown() return.  (The last one needs
\* somebody to call shutdown(), or a failure.)  In particular wait_for_shutdown()
\* returns after a failed activation, and while it holds state_mutex_ to wait
\* for the publisher nobody needs that mutex to stop the publisher.
CallsReturn ==
    \A c \in Callers :
        []<>(pc[c] \in {"idle", "wait"} \/ broken)

\* Once shut down, the adapter's threads end by themselves.
ShutdownEnds ==
    state = "Deactivating" ~>
        \/ broken
        \/ pump = "gone" /\ \A w \in Workers : worker[w] = "stopped"

(* When wait_for_shutdown() has returned, the threads have ended and the   *)
(* servants are gone, and the pump knows its workers                       *)
(* (ObjectAdapter::wait_for_shutdown, run_workers, cleanup).               *)
AdapterClean == TypeOK /\ CleanAfterWait /\ WorkersAccounted

(* Every request is answered, every call of activate(), shutdown() and     *)
(* wait_for_shutdown() returns, and a shutdown ends                        *)
(* (ObjectAdapter::run_workers, activate, shutdown, wait_for_shutdown).    *)
AdapterServes == RequestsAnswered /\ CallsReturn /\ ShutdownEnds

-----------------------------------------------------------------------------
(* Proofs, for any numbers of callers, workers and requests.               *)

(* The positions of a caller in activate().                                *)
Starting == {"startStopper", "startPump", "waitReady"}

(* At most one caller is in activate(), and until the pump thread runs     *)
(* there are no workers, nor anything for the pump to remember.            *)
Activation ==
    /\ \A c \in Callers : pc[c] \in {"startStopper", "startPump"} =>
          state = "Activating" /\ pump = "none"
    /\ \A c \in Callers : pc[c] = "startStopper" => pub = "None"
    /\ \A c, d \in Callers : pc[c] \in Starting /\ pc[d] \in Starting => c = d
    /\ state = "Inactive" =>
          pump = "none" /\ pub = "None" /\ \A c \in Callers : pc[c] \notin Starting
    /\ pump \in {"none", "starting"} =>
          /\ \A w \in Workers : worker[w] = "none"
          /\ promised = "no" /\ readyQueue = <<>> /\ ~polled /\ ~shuttingDown
    /\ pump = "starting" => state = "Activating" /\ numWorkers = 0
    /\ pump = "none" => numWorkers = 0
    /\ pump = "spawning" =>
          /\ state = "Activating" \/ broken
          /\ \A w \in Workers : worker[w] \in {"none", "connecting", "asked", "failed"}
          /\ promised = "no" /\ readyQueue = <<>> /\ ~polled /\ ~shuttingDown
    /\ \A c \in Callers : pc[c] = "waitReady" /\ promised = "ready" /\ state # "Activating" =>
          broken

(* What cleanup() joins with: no thread of the adapter is running.         *)
Ended ==
    /\ \A w \in Workers : worker[w] \in {"none", "stopped", "failed"}
    /\ pump \in {"none", "gone"}

(* call_once: one caller cleans up, nobody gets past it before that is     *)
(* done, and afterwards the adapter is never activated again.              *)
CleaningUp ==
    /\ \A c \in Callers : pc[c] = "cleanup" => once = c
    /\ \A c \in Callers : pc[c] = "waitStopped" => once \in {"done", "raced"}
    /\ waited => once \in {"done", "raced"}
    /\ once # NoCaller => /\ state \notin {"Inactive", "Activating"}
                          /\ state \in {"Destroyed", "Failed"} \/ broken
    /\ once = "done" => Ended /\ (~servant \/ broken)

(* The inductive invariant.                                                *)
IInv == TypeOK /\ Activation /\ CleaningUp /\ WorkersAccounted

-----------------------------------------------------------------------------
(* No operation of a caller, the pump, a worker or the publisher lets a    *)
(* second activate() in, or starts a worker before the pump runs.          *)
LEMMA ActivationKept ==
    ASSUME TypeOK, Activation, [Next]_vars
    PROVE  Activation'
<1>t. pc \in [Callers -> CallerPC] /\ DOMAIN worker = Workers
  BY DEF TypeOK
<1> USE DEF Activation, Starting, pubVars, callerVars, pumpVars, workerVars
<1>1. ASSUME NEW c \in Callers, Add(c)
      PROVE  Activation'
  BY <1>t, <1>1 DEF Add
<1>2. ASSUME NEW c \in Callers, Remove(c)
      PROVE  Activation'
  BY <1>t, <1>2 DEF Remove
<1>3. ASSUME NEW c \in Callers, Activate(c)
      PROVE  Activation'
  BY <1>t, <1>3 DEF Activate
<1>4. ASSUME NEW c \in Callers, Shutdown(c)
      PROVE  Activation'
  BY <1>t, <1>4 DEF Shutdown, Deactivate, PubStop, AfterStop
<1>5. ASSUME NEW c \in Callers, WaitForShutdown(c)
      PROVE  Activation'
  BY <1>t, <1>5 DEF WaitForShutdown
<1>6. ASSUME NEW c \in Callers, StartStopper(c)
      PROVE  Activation'
  BY <1>t, <1>6 DEF StartStopper, PubConstruct
<1>7. ASSUME NEW c \in Callers, StartPump(c)
      PROVE  Activation'
  BY <1>t, <1>7 DEF StartPump
<1>8. ASSUME NEW c \in Callers, Activated(c)
      PROVE  Activation'
  BY <1>t, <1>8 DEF Activated
<1>9. ASSUME NEW c \in Callers, ShutdownContinue(c)
      PROVE  Activation'
  BY <1>t, <1>9 DEF ShutdownContinue, Deactivate, PubStop, AfterStop
<1>10. ASSUME NEW c \in Callers, WaitEnds(c)
      PROVE  Activation'
  BY <1>t, <1>10 DEF WaitEnds
<1>11. ASSUME NEW c \in Callers, Cleanup(c)
      PROVE  Activation'
  BY <1>t, <1>11 DEF Cleanup
<1>12. ASSUME NEW c \in Callers, CleanedUp(c)
      PROVE  Activation'
  BY <1>t, <1>12 DEF CleanedUp
<1>13. ASSUME NEW c \in Callers, WaitReturns(c)
      PROVE  Activation'
  BY <1>t, <1>13 DEF WaitReturns
<1>14. CASE PumpStarts
  BY <1>t, <1>14 DEF PumpStarts, PubSubscribe, ThreadFails, PubStop
<1>15. CASE PumpStop
  BY <1>t, <1>15 DEF PumpStop, EndIteration
<1>16. CASE PumpIdle
  BY <1>t, <1>16 DEF PumpIdle, Deactivate, PubStop
<1>17. CASE PumpFails
  BY <1>t, <1>17 DEF PumpFails, ThreadFails, PubStop
<1>18. ASSUME NEW w \in Workers, PumpBackend(w)
      PROVE  Activation'
  BY <1>t, <1>18 DEF PumpBackend, EndIteration
<1>19. ASSUME NEW w \in Workers, WorkerConnects(w)
      PROVE  Activation'
  BY <1>t, <1>19 DEF WorkerConnects
<1>20. ASSUME NEW w \in Workers, Dispatch(w)
      PROVE  Activation'
  BY <1>t, <1>20 DEF Dispatch
<1>21. ASSUME NEW w \in Workers, Reply(w)
      PROVE  Activation'
  BY <1>t, <1>21 DEF Reply
<1>22. ASSUME NEW w \in Workers, WorkerStops(w)
      PROVE  Activation'
  BY <1>t, <1>22 DEF WorkerStops
<1>23. ASSUME NEW w \in Workers, WorkerFails(w)
      PROVE  Activation'
  BY <1>t, <1>23 DEF WorkerFails, ThreadFails, PubStop
<1>24. ASSUME NEW r \in Requests, PumpFrontend(r)
      PROVE  Activation'
  BY <1>t, <1>24 DEF PumpFrontend
<1>25. ASSUME NEW r \in Requests, Send(r)
      PROVE  Activation'
  BY <1>t, <1>25 DEF Send
<1>26. CASE PublisherStep
  BY <1>26 DEF PublisherStep, PubSend
<1>27. ASSUME NEW c \in Callers, CleanupRaces(c)
      PROVE  Activation'
  BY <1>t, <1>27 DEF CleanupRaces
<1>28. ASSUME NEW w \in Workers, SpawnWorker(w)
      PROVE  Activation'
  BY <1>t, <1>28 DEF SpawnWorker, ThreadFails, PubStop
<1>29. CASE PumpReady
  BY <1>t, <1>29 DEF PumpReady
<1>30. CASE UNCHANGED vars
  BY <1>30, SMTT(30) DEF vars
<1>31. QED
  BY <1>1, <1>2, <1>3, <1>4, <1>5, <1>6, <1>7, <1>8, <1>9, <1>10, <1>11,
     <1>12, <1>13, <1>14, <1>15, <1>16, <1>17, <1>18, <1>19, <1>20, <1>21, <1>22,
     <1>23, <1>24, <1>25, <1>26, <1>27, <1>28, <1>29, <1>30, ZenonT(40)
  DEF Next, CallerStep, PumpStep, WorkerStep

(* Nothing starts a thread, or adds a servant, after cleanup().            *)
LEMMA CleaningUpKept ==
    ASSUME TypeOK, Activation, CleaningUp, [Next]_vars
    PROVE  CleaningUp'
<1>t. pc \in [Callers -> CallerPC] /\ DOMAIN worker = Workers
  BY DEF TypeOK
<1> USE AdapterAssumption
    DEF CleaningUp, Ended, Activation, Starting, pubVars, callerVars, pumpVars, workerVars
<1>1. ASSUME NEW c \in Callers, Add(c), UNCHANGED waited
      PROVE  CleaningUp'
  BY <1>t, <1>1 DEF Add, BadState
<1>2. ASSUME NEW c \in Callers, Remove(c), UNCHANGED waited
      PROVE  CleaningUp'
  BY <1>t, <1>2 DEF Remove
<1>3. ASSUME NEW c \in Callers, Activate(c), UNCHANGED waited
      PROVE  CleaningUp'
  BY <1>t, <1>3 DEF Activate
<1>4. ASSUME NEW c \in Callers, Shutdown(c), UNCHANGED waited
      PROVE  CleaningUp'
  BY <1>t, <1>4 DEF Shutdown, Deactivate, PubStop, AfterStop
<1>5. ASSUME NEW c \in Callers, WaitForShutdown(c), UNCHANGED waited
      PROVE  CleaningUp'
  BY <1>t, <1>5 DEF WaitForShutdown
<1>6. ASSUME NEW c \in Callers, StartStopper(c), UNCHANGED waited
      PROVE  CleaningUp'
  BY <1>t, <1>6 DEF StartStopper, PubConstruct
<1>7. ASSUME NEW c \in Callers, StartPump(c), UNCHANGED waited
      PROVE  CleaningUp'
  BY <1>t, <1>7 DEF StartPump
<1>8. ASSUME NEW c \in Callers, Activated(c), UNCHANGED waited
      PROVE  CleaningUp'
  BY <1>t, <1>8 DEF Activated
<1>9. ASSUME NEW c \in Callers, ShutdownContinue(c), UNCHANGED waited
      PROVE  CleaningUp'
  BY <1>t, <1>9 DEF ShutdownContinue, Deactivate, PubStop, AfterStop
<1>10. ASSUME NEW c \in Callers, WaitEnds(c), UNCHANGED waited
      PROVE  CleaningUp'
  BY <1>t, <1>10 DEF WaitEnds
<1>11. ASSUME NEW c \in Callers, Cleanup(c), UNCHANGED waited
      PROVE  CleaningUp'
  BY <1>t, <1>11 DEF Cleanup
<1>12. ASSUME NEW c \in Callers, CleanedUp(c), UNCHANGED waited
      PROVE  CleaningUp'
  BY <1>t, <1>12 DEF CleanedUp
<1>13. ASSUME NEW c \in Callers, WaitReturns(c)
      PROVE  CleaningUp'
  BY <1>t, <1>13 DEF WaitReturns
<1>14. CASE PumpStarts /\ UNCHANGED waited
  BY <1>t, <1>14 DEF PumpStarts, PubSubscribe, ThreadFails, PubStop
<1>15. CASE PumpStop /\ UNCHANGED waited
  BY <1>t, <1>15 DEF PumpStop, EndIteration
<1>16. CASE PumpIdle /\ UNCHANGED waited
  BY <1>t, <1>16 DEF PumpIdle, Deactivate, PubStop
<1>17. CASE PumpFails /\ UNCHANGED waited
  BY <1>t, <1>17 DEF PumpFails, ThreadFails, PubStop
<1>18. ASSUME NEW w \in Workers, PumpBackend(w), UNCHANGED waited
      PROVE  CleaningUp'
  BY <1>t, <1>18 DEF PumpBackend, EndIteration
<1>19. ASSUME NEW w \in Workers, WorkerConnects(w), UNCHANGED waited
      PROVE  CleaningUp'
  BY <1>t, <1>19 DEF WorkerConnects
<1>20. ASSUME NEW w \in Workers, Dispatch(w), UNCHANGED waited
      PROVE  CleaningUp'
  BY <1>t, <1>20 DEF Dispatch
<1>21. ASSUME NEW w \in Workers, Reply(w), UNCHANGED waited
      PROVE  CleaningUp'
  BY <1>t, <1>21 DEF Reply
<1>22. ASSUME NEW w \in Workers, WorkerStops(w), UNCHANGED waited
      PROVE  CleaningUp'
  BY <1>t, <1>22 DEF WorkerStops
<1>23. ASSUME NEW w \in Workers, WorkerFails(w), UNCHANGED waited
      PROVE  CleaningUp'
  BY <1>t, <1>23 DEF WorkerFails, ThreadFails, PubStop
<1>24. ASSUME NEW r \in Requests, PumpFrontend(r), UNCHANGED waited
      PROVE  CleaningUp'
  BY <1>t, <1>24 DEF PumpFrontend
<1>25. ASSUME NEW r \in Requests, Send(r), UNCHANGED waited
      PROVE  CleaningUp'
  BY <1>t, <1>25 DEF Send
<1>26. CASE PublisherStep /\ UNCHANGED waited
  BY <1>26, <1>t DEF PublisherStep, PubSend
<1>27. ASSUME NEW c \in Callers, CleanupRaces(c), UNCHANGED waited
      PROVE  CleaningUp'
  BY <1>t, <1>27 DEF CleanupRaces
<1>28. ASSUME NEW w \in Workers, SpawnWorker(w), UNCHANGED waited
      PROVE  CleaningUp'
  BY <1>t, <1>28 DEF SpawnWorker, ThreadFails, PubStop
<1>29. CASE PumpReady /\ UNCHANGED waited
  BY <1>t, <1>29 DEF PumpReady
<1>30. CASE UNCHANGED vars
  BY <1>30, SMTT(30) DEF vars
<1>31. QED
  BY <1>1, <1>2, <1>3, <1>4, <1>5, <1>6, <1>7, <1>8, <1>9, <1>10, <1>11,
     <1>12, <1>13, <1>14, <1>15, <1>16, <1>17, <1>18, <1>19, <1>20, <1>21, <1>22,
     <1>23, <1>24, <1>25, <1>26, <1>27, <1>28, <1>29, <1>30, ZenonT(40)
  DEF Next, CallerStep, PumpStep, WorkerStep

-----------------------------------------------------------------------------
(* A queue without repetitions is as long as it has members: the pump      *)
(* counts the workers of ready_workers by its size().                      *)
LEMMA QueueLength ==
    ASSUME NEW S, NEW q \in Seq(S), IsInjective(q)
    PROVE  IsFiniteSet(Range(q)) /\ Cardinality(Range(q)) = Len(q)
<1>1. q \in [1..Len(q) -> Range(q)] /\ Len(q) \in Nat
  BY DEF Range
<1>2. q \in Bijection(1..Len(q), Range(q))
  BY <1>1 DEF Bijection, Injection, Surjection, Range
<1>3. ExistsBijection(1..Len(q), Range(q))
  BY <1>2 DEF ExistsBijection
<1>4. IsFiniteSet(1..Len(q)) /\ Cardinality(1..Len(q)) = Len(q)
  <2>1. \A n \in Nat : IsFiniteSet(1..n) /\ Cardinality(1..n) = n
    BY FS_Interval
  <2>2. QED
    BY <1>1, <2>1
<1>5. QED
  BY <1>3, <1>4, FS_Bijection

(* The workers that the pump has started, those it has not told to stop,   *)
(* and those that wait in ready_workers.                                   *)
Spawned(ws) == {w \in Workers : ws[w] # "none"}
Waiting(ws) == {w \in Workers : ws[w] \notin {"told", "stopped"}}
Ready(ws) == {w \in Workers : ws[w] = "ready"}

(* When the pump is shutting down, it subtracts from num_workers as many   *)
(* workers as it tells to stop; otherwise it keeps them all.               *)
LEMMA EndIterationAccounts ==
    ASSUME NEW q \in Seq(Workers), NEW ws \in [Workers -> WorkerPC], IsInjective(q),
           Range(q) = Ready(ws), numWorkers = Cardinality(Waiting(ws)),
           EndIteration(q, ws)
    PROVE  /\ readyQueue' = IF shuttingDown' THEN <<>> ELSE q
           /\ Range(readyQueue') = Ready(worker')
           /\ worker' \in [Workers -> WorkerPC]
           /\ numWorkers' = Cardinality(Waiting(worker'))
           /\ pump' \in {pump, "gone"}
<1>1. CASE ~shuttingDown'
  BY <1>1 DEF EndIteration
<1>2. CASE shuttingDown'
  <2>1. /\ readyQueue' = <<>>
        /\ worker' = [w \in Workers |-> IF w \in Range(q) THEN "told" ELSE ws[w]]
        /\ numWorkers' = numWorkers - Len(q)
        /\ pump' \in {pump, "gone"}
    BY <1>2 DEF EndIteration
  <2>2. Range(<<>>) = {}
    BY DEF Range
  <2>3. /\ Ready(worker') = {}
        /\ Waiting(worker') = Waiting(ws) \ Range(q)
        /\ Waiting(ws) \cap Range(q) = Range(q)
        /\ worker' \in [Workers -> WorkerPC]
    BY <2>1 DEF Ready, Waiting, WorkerPC
  <2>4. IsFiniteSet(Waiting(ws))
    BY FS_Subset, AdapterAssumption DEF Waiting
  <2>5. /\ IsFiniteSet(Range(q)) /\ Cardinality(Range(q)) = Len(q)
    BY QueueLength
  <2>6. Cardinality(Waiting(ws) \ Range(q)) = Cardinality(Waiting(ws)) - Cardinality(Range(q))
    <3>1. Cardinality(Waiting(ws) \ Range(q))
            = Cardinality(Waiting(ws)) - Cardinality(Waiting(ws) \cap Range(q))
      BY <2>4, FS_Difference
    <3>2. QED
      BY <2>3, <3>1
  <2>7. QED
    BY <1>2, <2>1, <2>2, <2>3, <2>5, <2>6
<1>3. QED
  BY <1>1, <1>2

(* WorkersAccounted, in terms of these sets of workers.                    *)
LEMMA Accounts ==
    WorkersAccounted <=>
        /\ pump = "spawning" => numWorkers = Cardinality(Spawned(worker))
        /\ (pump = "running" =>
            /\ numWorkers = Cardinality(Waiting(worker))
            /\ IsInjective(readyQueue) /\ Range(readyQueue) = Ready(worker)
            /\ (polled <=> (~shuttingDown /\ readyQueue # <<>>)))
  BY DEF WorkersAccounted, Spawned, Waiting, Ready

(* num_workers, ready_workers and the poller agree with the workers after  *)
(* every step of pump() and worker().                                      *)
LEMMA AccountsKept ==
    ASSUME TypeOK, Activation, WorkersAccounted, [Next]_vars
    PROVE  WorkersAccounted' /\ readyQueue' \in Seq(Workers)
<1> DEFINE Goal == WorkersAccounted' /\ readyQueue' \in Seq(Workers)
<1>t. /\ worker \in [Workers -> WorkerPC] /\ readyQueue \in Seq(Workers)
      /\ shuttingDown \in BOOLEAN /\ polled \in BOOLEAN
  BY DEF TypeOK
<1>a. pump = "running" =>
            /\ numWorkers = Cardinality(Waiting(worker))
            /\ IsInjective(readyQueue) /\ Range(readyQueue) = Ready(worker)
            /\ (polled <=> (~shuttingDown /\ readyQueue # <<>>))
  BY Accounts
<1>s. pump = "spawning" => numWorkers = Cardinality(Spawned(worker))
  BY Accounts
<1>e. <<>> \in Seq(Workers) /\ Range(<<>>) = {} /\ IsInjective(<<>>)
  BY DEF Range, IsInjective
<1>u. ASSUME UNCHANGED <<shuttingDown, readyQueue, polled, numWorkers>>,
             pump' = "running" => pump = "running",
             pump' = "spawning" => pump = "spawning", Spawned(worker') = Spawned(worker),
             Waiting(worker') = Waiting(worker), Ready(worker') = Ready(worker)
      PROVE  Goal
  BY <1>t, <1>u, <1>a, <1>s DEF WorkersAccounted, Spawned, Waiting, Ready
<1>1. CASE PumpStarts
  <2>1. /\ pump' \in {"spawning", "gone"} /\ UNCHANGED <<readyQueue, numWorkers, worker>>
        /\ numWorkers = 0 /\ \A w \in Workers : worker[w] = "none"
    BY <1>1 DEF PumpStarts, Activation, workerVars
  <2>2. {w \in Workers : worker'[w] # "none"} = {}
    BY <2>1
  <2>3. QED
    BY <1>t, <2>1, <2>2, FS_EmptySet DEF WorkersAccounted
<1>2. CASE PumpStop
  <2>1. /\ pump = "running" /\ shuttingDown' = TRUE /\ polled' = FALSE
        /\ EndIteration(readyQueue, worker)
    BY <1>2 DEF PumpStop
  <2>2. /\ readyQueue' = IF shuttingDown' THEN <<>> ELSE readyQueue
        /\ Range(readyQueue') = Ready(worker')
        /\ numWorkers' = Cardinality(Waiting(worker')) /\ pump' \in {pump, "gone"}
    BY <1>t, <1>a, <2>1, EndIterationAccounts
  <2>3. QED
    BY <1>e, <2>1, <2>2 DEF WorkersAccounted, Waiting, Ready
<1>3. ASSUME NEW w \in Workers, PumpBackend(w)
      PROVE  Goal
  <2> DEFINE q == Append(readyQueue, w)
             ws == [worker EXCEPT ![w] = "ready"]
  <2>1. /\ pump = "running" /\ worker[w] = "asked" /\ shuttingDown' = shuttingDown
        /\ polled' = (polled \/ (~shuttingDown /\ readyQueue = <<>>))
        /\ EndIteration(q, ws)
    BY <1>3 DEF PumpBackend
  <2>2. w \notin Range(readyQueue)
    BY <1>a, <2>1 DEF Ready
  <2>3. /\ q \in Seq(Workers) /\ q # <<>> /\ IsInjective(q)
        /\ Range(q) = Range(readyQueue) \cup {w}
    <3>1. /\ Len(q) = Len(readyQueue) + 1 /\ q[Len(readyQueue) + 1] = w
          /\ \A i \in 1..Len(readyQueue) : q[i] = readyQueue[i]
          /\ DOMAIN q = 1..(Len(readyQueue) + 1) /\ Len(readyQueue) \in Nat
          /\ q \in Seq(Workers) /\ DOMAIN readyQueue = 1..Len(readyQueue)
      BY <1>t
    <3> HIDE DEF q
    <3>2. Range(q) = Range(readyQueue) \cup {w}
      BY <3>1 DEF Range
    <3>3. IsInjective(q)
      BY <1>a, <2>1, <2>2, <3>1 DEF IsInjective, Range
    <3>4. QED
      BY <3>1, <3>2, <3>3
  <2>4. /\ ws \in [Workers -> WorkerPC] /\ Ready(ws) = Ready(worker) \cup {w}
        /\ Waiting(ws) = Waiting(worker)
    BY <1>t, <2>1 DEF Ready, Waiting, WorkerPC
  <2> HIDE DEF q, ws
  <2>5. /\ readyQueue' = IF shuttingDown' THEN <<>> ELSE q
        /\ Range(readyQueue') = Ready(worker')
        /\ numWorkers' = Cardinality(Waiting(worker')) /\ pump' \in {pump, "gone"}
    BY <1>a, <2>1, <2>3, <2>4, EndIterationAccounts
  <2>6. CASE shuttingDown
    BY <1>a, <1>e, <2>1, <2>5, <2>6 DEF WorkersAccounted, Waiting, Ready
  <2>7. CASE ~shuttingDown
    BY <1>a, <2>1, <2>3, <2>5, <2>7 DEF WorkersAccounted, Waiting, Ready
  <2>8. QED
    BY <2>6, <2>7
<1>4. ASSUME NEW r \in Requests, PumpFrontend(r)
      PROVE  Goal
  <2>1. /\ pump = "running" /\ ~shuttingDown /\ polled /\ readyQueue # <<>>
        /\ worker' = [worker EXCEPT ![Head(readyQueue)] = "work"]
        /\ readyQueue' = Tail(readyQueue)
        /\ polled' = (readyQueue' # <<>>)
        /\ UNCHANGED <<pump, shuttingDown, numWorkers>>
    BY <1>4, <1>a DEF PumpFrontend, pumpVars
  <2> DEFINE h == Head(readyQueue)
  <2>2. /\ Tail(readyQueue) \in Seq(Workers) /\ h = readyQueue[1] /\ h \in Workers
        /\ DOMAIN Tail(readyQueue) = 1..(Len(readyQueue) - 1)
        /\ \A i \in 1..(Len(readyQueue) - 1) : Tail(readyQueue)[i] = readyQueue[i + 1]
        /\ DOMAIN readyQueue = 1..Len(readyQueue) /\ Len(readyQueue) \in Nat \ {0}
    BY <1>t, <2>1
  <2>3. h \in Range(readyQueue) /\ IsInjective(readyQueue)
    BY <1>a, <2>1, <2>2 DEF Range
  <2> HIDE DEF h
  <2>4. IsInjective(Tail(readyQueue))
    BY <2>2, <2>3 DEF IsInjective
  <2>5. Range(Tail(readyQueue)) = Range(readyQueue) \ {h}
    <3>1. ASSUME NEW i \in 1..(Len(readyQueue) - 1)
          PROVE  Tail(readyQueue)[i] \in Range(readyQueue) \ {h}
      BY <2>2, <2>3 DEF Range, IsInjective
    <3>2. ASSUME NEW j \in 1..Len(readyQueue), readyQueue[j] # h
          PROVE  readyQueue[j] \in Range(Tail(readyQueue))
      <4>1. j - 1 \in 1..(Len(readyQueue) - 1) /\ (j - 1) + 1 = j
        BY <2>2, <3>2
      <4>2. Tail(readyQueue)[j - 1] = readyQueue[j]
        BY <2>2, <4>1
      <4>3. QED
        BY <2>2, <4>1, <4>2, ZenonT(40) DEF Range
    <3>3. QED
      BY <2>2, <3>1, <3>2 DEF Range
  <2>6. Waiting(worker') = Waiting(worker) /\ Ready(worker') = Ready(worker) \ {h}
    BY <1>t, <1>a, <2>1, <2>2, <2>3, SMTT(30) DEF Waiting, Ready, h
  <2>7. QED
    BY <1>a, <2>1, <2>2, <2>4, <2>5, <2>6 DEF WorkersAccounted, Waiting, Ready
<1>5. ASSUME NEW w \in Workers, WorkerStep(w) \/ WorkerFails(w)
      PROVE  Goal
  <2>1. UNCHANGED pumpVars
    BY <1>5 DEF WorkerStep, WorkerConnects, Dispatch, Reply, WorkerStops, WorkerFails
  <2>2. PICK l \in WorkerPC :
           /\ worker' = [worker EXCEPT ![w] = l]
           /\ l \notin {"ready", "none"} /\ worker[w] \notin {"ready", "none"}
           /\ worker[w] \in {"told", "stopped"} <=> l \in {"told", "stopped"}
    BY <1>5 DEF WorkerStep, WorkerConnects, Dispatch, Reply, WorkerStops, WorkerFails, WorkerPC
  <2>3. /\ Waiting(worker') = Waiting(worker) /\ Ready(worker') = Ready(worker)
        /\ Spawned(worker') = Spawned(worker)
    BY <1>t, <2>2 DEF Waiting, Ready, Spawned
  <2>4. QED
    BY <1>u, <2>1, <2>3 DEF pumpVars
<1>6. ASSUME NEW c \in Callers, StartPump(c)
      PROVE  Goal
  BY <1>t, <1>6 DEF StartPump, WorkersAccounted, workerVars, Activation
<1>7. CASE PumpFails
  BY <1>t, <1>7 DEF PumpFails, WorkersAccounted
<1>8. ASSUME NEW w \in Workers, SpawnWorker(w)
      PROVE  Goal
  <2>1. CASE pump' = "gone"
    BY <1>t, <1>8, <2>1 DEF SpawnWorker, WorkersAccounted
  <2>2. CASE pump' # "gone"
    <3>1. /\ pump = "spawning" /\ pump' = pump /\ worker[w] = "none"
          /\ worker' = [worker EXCEPT ![w] = "connecting"]
          /\ numWorkers' = numWorkers + 1 /\ UNCHANGED readyQueue
      BY <1>8, <2>2 DEF SpawnWorker
    <3>2. Spawned(worker') = Spawned(worker) \cup {w} /\ w \notin Spawned(worker)
      BY <1>t, <3>1 DEF Spawned
    <3>3. IsFiniteSet(Spawned(worker))
      BY FS_Subset, AdapterAssumption DEF Spawned
    <3>4. Cardinality(Spawned(worker) \cup {w}) = Cardinality(Spawned(worker)) + 1
      BY <3>2, <3>3, FS_AddElement
    <3>5. numWorkers' = Cardinality(Spawned(worker'))
      BY <1>s, <3>1, <3>2, <3>4
    <3>6. QED
      BY <1>t, <3>1, <3>5 DEF WorkersAccounted, Spawned
  <2>3. QED
    BY <2>1, <2>2
<1>9. CASE PumpReady
  <2>1. /\ pump = "spawning" /\ pump' = "running" /\ readyQueue = <<>>
        /\ UNCHANGED <<shuttingDown, readyQueue, polled, numWorkers, worker>>
        /\ ~polled /\ ~shuttingDown
        /\ \A w \in Workers : worker[w] \in {"connecting", "asked", "failed"}
    BY <1>9 DEF PumpReady, Activation, workerVars
  <2>2. /\ Waiting(worker') = Workers /\ Ready(worker') = {}
        /\ Spawned(worker) = Workers
    BY <2>1 DEF Waiting, Ready, Spawned
  <2>3. QED
    BY <1>e, <1>s, <2>1, <2>2 DEF WorkersAccounted, Waiting, Ready
<1>10. CASE UNCHANGED <<pumpVars, workerVars>>
  BY <1>u, <1>10, SMTT(30) DEF pumpVars, workerVars
<1>11. QED
  <2>1. \/ PumpStarts \/ PumpReady \/ PumpStop \/ PumpFails
        \/ \E w \in Workers : \/ SpawnWorker(w) \/ PumpBackend(w)
                              \/ WorkerStep(w) \/ WorkerFails(w)
        \/ \E r \in Requests : PumpFrontend(r)
        \/ \E c \in Callers : StartPump(c)
        \/ UNCHANGED <<pumpVars, workerVars>>
    BY DEF Next, CallerStep, PumpStep, PumpIdle, PublisherStep, Send, vars, WaitReturns, Add,
           Remove, Activate, Shutdown, WaitForShutdown, StartStopper, Activated,
           ShutdownContinue, WaitEnds, Cleanup, CleanupRaces, CleanedUp
  <2>2. QED
    BY <1>1, <1>2, <1>3, <1>4, <1>5, <1>6, <1>7, <1>8, <1>9, <1>10, <2>1

-----------------------------------------------------------------------------
(* Every step leaves the adapter in states that the code has.  That        *)
(* num_workers stays between 0 and pool_size_ rests on WorkersAccounted.   *)
LEMMA TypingKept ==
    ASSUME TypeOK, WorkersAccounted, WorkersAccounted', readyQueue' \in Seq(Workers),
           [Next]_vars
    PROVE  TypeOK'
<1> USE DEF TypeOK, PumpPC, pubVars, callerVars, pumpVars, workerVars
<1>n. ASSUME pump' \in {"spawning", "running"} \/ numWorkers' = numWorkers \/ numWorkers' = 0
      PROVE  numWorkers' \in 0..Cardinality(Workers)
  <2>1. \A S \in SUBSET Workers :
          Cardinality(S) \in Nat /\ Cardinality(S) <= Cardinality(Workers)
    BY FS_Subset, FS_CardinalityType, AdapterAssumption
  <2>2. Waiting(worker') \in SUBSET Workers /\ Spawned(worker') \in SUBSET Workers
    BY DEF Waiting, Spawned
  <2>3. CASE pump' \in {"spawning", "running"}
    <3>1. numWorkers' \in {Cardinality(Waiting(worker')), Cardinality(Spawned(worker'))}
      BY <2>3 DEF WorkersAccounted, Waiting, Spawned
    <3>2. QED
      BY <2>1, <2>2, <3>1
  <2>4. Cardinality(Workers) \in Nat
    BY FS_CardinalityType, AdapterAssumption
  <2>5. QED
    BY <1>n, <2>3, <2>4
<1>1. ASSUME NEW c \in Callers, Add(c), UNCHANGED waited
      PROVE  TypeOK'
  BY <1>1 DEF Add
<1>2. ASSUME NEW c \in Callers, Remove(c), UNCHANGED waited
      PROVE  TypeOK'
  BY <1>2, ZenonT(40) DEF Remove
<1>3. ASSUME NEW c \in Callers, Activate(c), UNCHANGED waited
      PROVE  TypeOK'
  BY <1>3 DEF Activate, AdapterState, CallerPC
<1>4. ASSUME NEW c \in Callers, Shutdown(c), UNCHANGED waited
      PROVE  TypeOK'
  <2>1. pc' \in [Callers -> CallerPC]
    BY <1>4 DEF Shutdown, CallerPC
  <2>2. pub' \in PubState /\ state' \in AdapterState /\ UNCHANGED <<subscribed, readable>>
    BY <1>4 DEF Shutdown, Deactivate, PubStop, AfterStop, AdapterState, PubState
  <2>3. UNCHANGED <<servant, promised, once, pumpVars, workerVars, req, broken, waited>>
    BY <1>4 DEF Shutdown
  <2>4. QED
    BY <2>1, <2>2, <2>3
<1>5. ASSUME NEW c \in Callers, WaitForShutdown(c), UNCHANGED waited
      PROVE  TypeOK'
  BY <1>5 DEF WaitForShutdown, CallerPC
<1>6. ASSUME NEW c \in Callers, StartStopper(c), UNCHANGED waited
      PROVE  TypeOK'
  BY <1>6 DEF StartStopper, PubConstruct, AdapterState, CallerPC, PubState
<1>7. ASSUME NEW c \in Callers, StartPump(c), UNCHANGED waited
      PROVE  TypeOK'
  <2>1. pc' \in [Callers -> CallerPC]
    BY <1>7 DEF StartPump, CallerPC
  <2>2. /\ pump' \in PumpPC
        /\ state' \in AdapterState /\ broken' \in BOOLEAN
    BY <1>7 DEF StartPump, AdapterState
  <2>3. UNCHANGED <<pubVars, servant, promised, once, shuttingDown, readyQueue, polled,
                    numWorkers, workerVars, req, waited>>
    BY <1>7 DEF StartPump
  <2>4. QED
    BY <2>1, <2>2, <2>3
<1>8. ASSUME NEW c \in Callers, Activated(c), UNCHANGED waited
      PROVE  TypeOK'
  BY <1>8 DEF Activated, AdapterState, CallerPC
<1>9. ASSUME NEW c \in Callers, ShutdownContinue(c), UNCHANGED waited
      PROVE  TypeOK'
  <2>1. pc' \in [Callers -> CallerPC]
    BY <1>9 DEF ShutdownContinue, CallerPC
  <2>2. pub' \in PubState /\ state' \in AdapterState /\ UNCHANGED <<subscribed, readable>>
    BY <1>9 DEF ShutdownContinue, Deactivate, PubStop, AfterStop, AdapterState, PubState
  <2>3. UNCHANGED <<servant, promised, once, pumpVars, workerVars, req, broken, waited>>
    BY <1>9 DEF ShutdownContinue
  <2>4. QED
    BY <2>1, <2>2, <2>3
<1>10. ASSUME NEW c \in Callers, WaitEnds(c), UNCHANGED waited
      PROVE  TypeOK'
  BY <1>10 DEF WaitEnds, AdapterState, CallerPC
<1>11. ASSUME NEW c \in Callers, Cleanup(c), UNCHANGED waited
      PROVE  TypeOK'
  BY <1>11 DEF Cleanup, CallerPC
<1>12. ASSUME NEW c \in Callers, CleanedUp(c), UNCHANGED waited
      PROVE  TypeOK'
  BY <1>12 DEF CleanedUp, CallerPC
<1>13. ASSUME NEW c \in Callers, WaitReturns(c)
      PROVE  TypeOK'
  BY <1>13 DEF WaitReturns, CallerPC
<1>14. CASE PumpStarts /\ UNCHANGED waited
  <2>1. /\ pub' \in PubState /\ subscribed' \in BOOLEAN /\ readable' \in BOOLEAN
        /\ state' \in AdapterState
    <3>1. CASE PubSubscribe /\ UNCHANGED state
      BY <3>1, ZenonT(40) DEF PubSubscribe
    <3>2. CASE ThreadFails
      BY <3>2 DEF ThreadFails, PubStop, AfterStop, PubState, AdapterState
    <3>3. QED
      BY <1>14, <3>1, <3>2 DEF PumpStarts
  <2>2. pump' \in PumpPC /\ promised' \in {"no", "ready", "exception"}
    BY <1>14 DEF PumpStarts
  <2>3. QED
    BY <1>14, <2>1, <2>2 DEF PumpStarts
<1>15. CASE PumpStop /\ UNCHANGED waited
  <2>1. numWorkers' \in 0..Cardinality(Workers)
    BY <1>15, <1>n DEF PumpStop, EndIteration
  <2>2. /\ worker' \in [Workers -> WorkerPC]
        /\ pump' \in PumpPC
    BY <1>15 DEF PumpStop, EndIteration, WorkerPC
  <2>3. QED
    BY <1>15, <2>1, <2>2, ZenonT(40) DEF PumpStop
<1>16. ASSUME NEW w \in Workers, PumpBackend(w), UNCHANGED waited
      PROVE  TypeOK'
  <2>1. numWorkers' \in 0..Cardinality(Workers)
    BY <1>16, <1>n DEF PumpBackend, EndIteration
  <2>2. /\ worker' \in [Workers -> WorkerPC]
        /\ pump' \in PumpPC
    BY <1>16, SMTT(30) DEF PumpBackend, EndIteration, WorkerPC
  <2>3. QED
    BY <1>16, <2>1, <2>2, ZenonT(40) DEF PumpBackend
<1>17. ASSUME NEW r \in Requests, PumpFrontend(r), UNCHANGED waited
      PROVE  TypeOK'
  <2>1. readyQueue # <<>>
    BY <1>17 DEF PumpFrontend, WorkersAccounted
  <2>2. Head(readyQueue) \in Workers
    BY <2>1
  <2>3. QED
    BY <1>17, <2>2 DEF PumpFrontend, WorkerPC
<1>18. CASE PumpIdle /\ UNCHANGED waited
  BY <1>18 DEF PumpIdle, Deactivate, PubStop, AfterStop, AdapterState, PubState
<1>19. CASE PumpFails /\ UNCHANGED waited
  BY <1>19 DEF PumpFails, ThreadFails, PubStop, AfterStop, AdapterState, PubState
<1>20. CASE PublisherStep /\ UNCHANGED waited
  BY <1>20 DEF PublisherStep, PubSend, PubState
<1>21. ASSUME NEW w \in Workers, WorkerConnects(w), UNCHANGED waited
      PROVE  TypeOK'
  BY <1>21 DEF WorkerConnects, WorkerPC
<1>22. ASSUME NEW w \in Workers, Dispatch(w), UNCHANGED waited
      PROVE  TypeOK'
  BY <1>22 DEF Dispatch, WorkerPC
<1>23. ASSUME NEW w \in Workers, Reply(w), UNCHANGED waited
      PROVE  TypeOK'
  BY <1>23 DEF Reply, WorkerPC
<1>24. ASSUME NEW w \in Workers, WorkerStops(w), UNCHANGED waited
      PROVE  TypeOK'
  BY <1>24 DEF WorkerStops, WorkerPC
<1>25. ASSUME NEW w \in Workers, WorkerFails(w), UNCHANGED waited
      PROVE  TypeOK'
  BY <1>25 DEF WorkerFails, ThreadFails, PubStop, AfterStop, WorkerPC, AdapterState, PubState
<1>26. ASSUME NEW r \in Requests, Send(r), UNCHANGED waited
      PROVE  TypeOK'
  BY <1>26 DEF Send
<1>27. ASSUME NEW c \in Callers, CleanupRaces(c), UNCHANGED waited
      PROVE  TypeOK'
  BY <1>27 DEF CleanupRaces, CallerPC
<1>28. ASSUME NEW w \in Workers, SpawnWorker(w), UNCHANGED waited
      PROVE  TypeOK'
  <2>1. numWorkers' \in 0..Cardinality(Workers)
    BY <1>28, <1>n DEF SpawnWorker
  <2>2. pub' \in PubState /\ state' \in AdapterState /\ UNCHANGED <<subscribed, readable>>
    BY <1>28 DEF SpawnWorker, ThreadFails, PubStop, AfterStop, PubState, AdapterState
  <2>3. worker' \in [Workers -> WorkerPC] /\ pump' \in PumpPC
    BY <1>28 DEF SpawnWorker, WorkerPC
  <2>4. promised' \in {"no", "ready", "exception"} /\ broken' \in BOOLEAN
    BY <1>28 DEF SpawnWorker
  <2>5. QED
    BY <1>28, <2>1, <2>2, <2>3, <2>4 DEF SpawnWorker
<1>29. CASE PumpReady /\ UNCHANGED waited
  BY <1>29 DEF PumpReady
<1>30. CASE UNCHANGED vars
  BY <1>30, SMTT(30) DEF vars
<1>31. QED
  BY <1>1, <1>2, <1>3, <1>4, <1>5, <1>6, <1>7, <1>8, <1>9, <1>10, <1>11,
     <1>12, <1>13, <1>14, <1>15, <1>16, <1>17, <1>18, <1>19, <1>20, <1>21, <1>22,
     <1>23, <1>24, <1>25, <1>26, <1>27, <1>28, <1>29, <1>30, ZenonT(40)
  DEF Next, CallerStep, PumpStep, WorkerStep

(* When wait_for_shutdown() has returned, no thread of the adapter is      *)
(* running, unless one died while the pump started the others, and the     *)
(* servant is gone, unless a thread died; and the pump's counter           *)
(* num_workers and its queue ready_workers are exact while it runs.        *)
THEOREM AlwaysClean == Spec => []AdapterClean
<1>1. Init => IInv
  <2> SUFFICES ASSUME Init
               PROVE  IInv
    OBVIOUS
  <2>1. Cardinality(Workers) \in Nat
    BY FS_CardinalityType, AdapterAssumption
  <2>2. TypeOK
    <3>1. /\ pc \in [Callers -> CallerPC] /\ worker \in [Workers -> WorkerPC]
          /\ job \in [Workers -> Requests \cup {NoRequest}]
          /\ req \in [Requests -> {"none", "sent", "given", "done"}]
      BY DEF Init, CallerPC, WorkerPC
    <3>2. numWorkers \in 0..Cardinality(Workers) /\ readyQueue \in Seq(Workers)
      BY <2>1 DEF Init
    <3>3. QED
      BY <3>1, <3>2 DEF Init, PubInit, TypeOK, PubState, AdapterState, PumpPC
  <2>3. Activation /\ WorkersAccounted
    BY DEF Init, PubInit, Activation, Starting, WorkersAccounted
  <2>4. CleaningUp
    BY AdapterAssumption DEF Init, CleaningUp
  <2>5. QED
    BY <2>2, <2>3, <2>4 DEF IInv
<1>2. IInv /\ [Next]_vars => IInv'
  BY ActivationKept, CleaningUpKept, AccountsKept, TypingKept DEF IInv
<1>3. IInv => AdapterClean
  BY DEF IInv, AdapterClean, CleanAfterWait, CleaningUp, Ended
<1>4. QED
  BY <1>1, <1>2, <1>3, PTL DEF Spec

=============================================================================
