------------------------------ MODULE QtBridge ------------------------------
(***************************************************************************)
(* A scope that is written against the Qt classes: the run time's threads  *)
(* post events, and the thread that QScopeBaseAPIImpl::start() starts      *)
(* hands them to the QScopeBase, QSearchQueryBase and QPreviewQueryBase of *)
(* the application (qt/internal/QScopeBaseAPIImpl.cpp,                     *)
(* qt/QSearchQueryBaseAPI.cpp, qt/QPreviewQueryBaseAPI.cpp).               *)
(*                                                                         *)
(* The "runner" is the thread of RuntimeImpl::run_scope(): start(), the    *)
(* middleware, and stop() once the adapters have ended.  Every query has a *)
(* worker that calls run() and one that delivers cancel().  The query      *)
(* object lives as long as its QueryObject does, which somebody in         *)
(* holders[q] keeps: itself until run() arrives, the worker in run(), the  *)
(* reply proxy of a posted RunEvent, the application that kept the reply,  *)
(* the worker in cancel().                                                 *)
(***************************************************************************)
EXTENDS Naturals, Sequences, SequencesExt

CONSTANTS
    Searches,     \* calls of search()
    Previews,     \* calls of preview()
    MayCancel,    \* the queries that the client may cancel
    OtherApps     \* may the process have a QCoreApplication already

VARIABLES
    instance,     \* QCoreApplication::instance() of the rest of the process
    runner,       \* what the run time's thread is doing
    loop,         \* the Qt thread: none, starting, running, quitting, left
    ready,        \* qtapp_ready_
    scope,        \* qtscope_impl_
    events,       \* the posted events of the Qt thread
    handled,      \* the event that the Qt thread is handling, if any
    object,       \* the QSearchQueryBaseAPI or QPreviewQueryBaseAPI
    bound,        \* its qtscope_ refers to an object
    qtquery,      \* its qtquery_ is set
    pushable,     \* QueryObject::pushable_
    holders,      \* who holds a reference to the QueryObject
    runPc,        \* the worker that calls run()
    cancelPc,     \* the worker that calls cancel()
    ran,          \* history: the application's run() was called
    unsafe        \* history: an object was freed while it handled an event,
                  \* or a null reference was used

Queries == Searches \cup Previews

threadVars == <<instance, loop, ready>>
queryVars  == <<object, bound, qtquery, pushable, holders>>
workVars   == <<runPc, cancelPc>>
vars == <<threadVars, runner, scope, events, handled, queryVars, workVars, ran, unsafe>>

Event(type, q) == [type |-> type, query |-> q]
None == "none"
NoEvent == Event(None, None)

TypeOK ==
    /\ instance \in BOOLEAN
    /\ runner \in {"idle", "waiting", "serving", "stopping", "gone"}
    /\ loop \in {None, "starting", "running", "quitting", "left"}
    /\ ready \in BOOLEAN
    /\ scope \in {None, "started", "stopped"}
    /\ \A e \in {events[i] : i \in DOMAIN events} \cup {handled} :
          /\ e.type \in {None, "Start", "Stop", "Initialize", "Run", "Cancelled"}
          /\ e.query \in Queries \cup {None}
    /\ object \in [Queries -> {None, "alive", "freed"}]
    /\ bound \in [Queries -> BOOLEAN]
    /\ qtquery \in [Queries -> BOOLEAN]
    /\ pushable \in [Queries -> BOOLEAN]
    /\ holders \in [Queries -> SUBSET {"self", "run", "event", "app", "cancel"}]
    /\ runPc \in [Queries -> {None, "sent", "refused", "entered", "posted", "done"}]
    /\ cancelPc \in [Queries -> {None, "entered", "posted", "done"}]
    /\ ran \in [Queries -> BOOLEAN]
    /\ unsafe \in BOOLEAN

Init ==
    /\ instance \in OtherApps
    /\ runner = "idle" /\ loop = None /\ ready = FALSE /\ scope = None
    /\ events = <<>> /\ handled = NoEvent
    /\ object = [q \in Queries |-> None]
    /\ bound = [q \in Queries |-> FALSE]
    /\ qtquery = [q \in Queries |-> FALSE]
    /\ pushable = [q \in Queries |-> TRUE]
    /\ holders = [q \in Queries |-> {}]
    /\ runPc = [q \in Queries |-> None]
    /\ cancelPc = [q \in Queries |-> None]
    /\ ran = [q \in Queries |-> FALSE]
    /\ unsafe = FALSE

Post(e) == events' = Append(events, e)

-----------------------------------------------------------------------------
(* The run time's thread and the Qt thread                                 *)

(* start() creates the thread and looks every 10 ms at qtapp_ready_.       *)
StartThread ==
    /\ runner = "idle"
    /\ runner' = "waiting"
    /\ loop' = "starting"
    /\ UNCHANGED <<instance, ready, scope, events, handled, queryVars, workVars, ran, unsafe>>

(* A process has one QCoreApplication: beside another one the thread ends  *)
(* at once.                                                                *)
StartQtThread ==
    /\ loop = "starting"
    /\ IF instance
       THEN loop' = "left" /\ UNCHANGED ready
       ELSE loop' = "running" /\ ready' = TRUE
    /\ UNCHANGED <<instance, runner, scope, events, handled, queryVars, workVars, ran, unsafe>>

(* start() goes on when the application is there: it posts the StartEvent  *)
(* and returns.                                                            *)
PostStart ==
    /\ runner = "waiting" /\ ready
    /\ runner' = "serving"
    /\ Post(Event("Start", None))
    /\ UNCHANGED <<threadVars, scope, handled, queryVars, workVars, ran, unsafe>>

(* run_scope() calls stop() when the middleware has shut down: no worker   *)
(* is in run() or cancel() any more.                                       *)
StopScope ==
    /\ runner = "serving"
    /\ \A q \in Queries : runPc[q] \in {None, "refused", "done"} /\ cancelPc[q] \in {None, "done"}
    /\ runner' = "stopping"
    /\ Post(Event("Stop", None))
    /\ UNCHANGED <<threadVars, scope, handled, queryVars, workVars, ran, unsafe>>

(* ~QScopeBaseAPIImpl() joins the Qt thread.                               *)
JoinQtThread ==
    /\ runner = "stopping" /\ loop = "left"
    /\ runner' = "gone"
    /\ UNCHANGED <<threadVars, scope, events, handled, queryVars, workVars, ran, unsafe>>

(* After quit(), exec() returns when it likes; the events that are left    *)
(* are not delivered.                                                      *)
LeaveLoop ==
    /\ loop = "quitting" /\ handled = NoEvent
    /\ loop' = "left"
    /\ UNCHANGED <<instance, ready, runner, scope, events, handled, queryVars, workVars, ran,
                   unsafe>>

-----------------------------------------------------------------------------
(* The workers of the middleware                                           *)

(* The last holder of the QueryObject deletes it and the query object:     *)
(* ~QObject() removes the events that were posted to it.  A thread other   *)
(* than the Qt thread may do so while the Qt thread is in event().         *)
Release(q, gone, queue) ==
    /\ holders' = [holders EXCEPT ![q] = @ \ gone]
    /\ IF holders[q] \ gone = {}
       THEN /\ object' = [object EXCEPT ![q] = "freed"]
            /\ events' = SelectSeq(queue, LAMBDA e : e.query # q)
            /\ unsafe' = (unsafe \/ (handled.query = q /\ gone # {"event"}))
       ELSE events' = queue /\ UNCHANGED <<object, unsafe>>

(* search() and preview() of QScopeBaseAPIImpl: the query keeps a          *)
(* reference to *qtscope_impl_, which the StartEvent sets; init() posts    *)
(* the InitializeEvent.  Then ScopeObject::query() sends the run().        *)
NewQuery(q) ==
    /\ runner = "serving" /\ object[q] = None
    /\ object' = [object EXCEPT ![q] = "alive"]
    /\ bound' = [bound EXCEPT ![q] = scope # None]
    /\ holders' = [holders EXCEPT ![q] = {"self"}]
    /\ runPc' = [runPc EXCEPT ![q] = "sent"]
    /\ Post(Event("Initialize", q))
    /\ UNCHANGED <<threadVars, runner, scope, handled, qtquery, pushable, cancelPc, ran, unsafe>>

Search(q) == q \in Searches /\ NewQuery(q)
Preview(q) == q \in Previews /\ NewQuery(q)

(* QueryObject::run(): a cancelled query is not run.                       *)
RunArrives(q) ==
    /\ runPc[q] = "sent"
    /\ IF pushable[q]
       THEN /\ runPc' = [runPc EXCEPT ![q] = "entered"]
            /\ holders' = [holders EXCEPT ![q] = (@ \ {"self"}) \cup {"run"}]
            /\ UNCHANGED <<object, events, unsafe>>
       ELSE /\ runPc' = [runPc EXCEPT ![q] = "refused"]
            /\ Release(q, {"self"}, events)
    /\ UNCHANGED <<threadVars, runner, scope, handled, bound, qtquery, pushable, cancelPc, ran>>

RunHoldsNothing(q) ==
    /\ runPc[q] = "entered"
    /\ runPc' = [runPc EXCEPT ![q] = "posted"]
    /\ Post(Event("Run", q))
    /\ UNCHANGED <<threadVars, runner, scope, handled, queryVars, cancelPc, ran, unsafe>>

(* run(): the RunEvent holds a copy of the reply proxy.                    *)
RunPosts(q) ==
    /\ runPc[q] = "entered"
    /\ runPc' = [runPc EXCEPT ![q] = "posted"]
    /\ holders' = [holders EXCEPT ![q] = @ \cup {"event"}]
    /\ Post(Event("Run", q))
    /\ UNCHANGED <<threadVars, runner, scope, handled, object, bound, qtquery, pushable, cancelPc,
                   ran, unsafe>>

RunReturns(q) ==
    /\ runPc[q] = "posted"
    /\ runPc' = [runPc EXCEPT ![q] = "done"]
    /\ Release(q, {"run"}, events)
    /\ UNCHANGED <<threadVars, runner, scope, handled, bound, qtquery, pushable, cancelPc, ran>>

(* QueryObject::cancel(), on a reference of its own; cancelled() posts the *)
(* CancelledEvent, which holds nothing.                                    *)
CancelArrives(q) ==
    /\ q \in MayCancel /\ cancelPc[q] = None /\ object[q] = "alive" /\ pushable[q]
    /\ runner = "serving"
    /\ cancelPc' = [cancelPc EXCEPT ![q] = "entered"]
    /\ pushable' = [pushable EXCEPT ![q] = FALSE]
    /\ holders' = [holders EXCEPT ![q] = @ \cup {"cancel"}]
    /\ UNCHANGED <<threadVars, runner, scope, events, handled, object, bound, qtquery, runPc, ran,
                   unsafe>>

CancelPosts(q) ==
    /\ cancelPc[q] = "entered"
    /\ cancelPc' = [cancelPc EXCEPT ![q] = "posted"]
    /\ Post(Event("Cancelled", q))
    /\ UNCHANGED <<threadVars, runner, scope, handled, queryVars, runPc, ran, unsafe>>

CancelReturns(q) ==
    /\ cancelPc[q] = "posted"
    /\ cancelPc' = [cancelPc EXCEPT ![q] = "done"]
    /\ Release(q, {"cancel"}, events)
    /\ UNCHANGED <<threadVars, runner, scope, handled, bound, qtquery, pushable, runPc, ran>>

-----------------------------------------------------------------------------
(* The event loop: the event at the head of the queue is taken, and its    *)
(* handler runs while the workers go on.                                   *)

TakeEvent ==
    /\ loop \in {"running", "quitting"} /\ handled = NoEvent /\ events # <<>>
    /\ handled' = Head(events)
    /\ events' = Tail(events)
    /\ UNCHANGED <<threadVars, runner, scope, queryVars, workVars, ran, unsafe>>

(* QScopeBaseAPIImpl::event()                                              *)
ScopeEvent ==
    /\ handled.type \in {"Start", "Stop"}
    /\ IF handled.type = "Start"
       THEN scope' = "started" /\ UNCHANGED loop
       ELSE scope' = "stopped" /\ loop' = "quitting"
    /\ handled' = NoEvent
    /\ UNCHANGED <<instance, ready, runner, events, queryVars, workVars, ran, unsafe>>

(* event() of the query: the application's query object is made in the Qt  *)
(* thread, through the reference to the scope.                             *)
Initialize(q) ==
    /\ handled = Event("Initialize", q)
    /\ qtquery' = [qtquery EXCEPT ![q] = bound[q]]
    /\ unsafe' = (unsafe \/ ~bound[q])
    /\ handled' = NoEvent
    /\ UNCHANGED <<threadVars, runner, scope, events, object, bound, pushable, holders, workVars,
                   ran>>

(* The application's run() may keep the reply; the event and its reply     *)
(* proxy are deleted when the handler returns.                             *)
Run(q) ==
    /\ handled = Event("Run", q)
    /\ ran' = [ran EXCEPT ![q] = TRUE]
    /\ handled' = NoEvent
    /\ \/ Release(q, {"event"}, events)
       \/ /\ holders' = [holders EXCEPT ![q] = (@ \ {"event"}) \cup {"app"}]
          /\ UNCHANGED <<object, events, unsafe>>
    /\ UNCHANGED <<threadVars, runner, scope, bound, qtquery, pushable, workVars>>

Cancelled(q) ==
    /\ handled = Event("Cancelled", q)
    /\ handled' = NoEvent
    /\ UNCHANGED <<threadVars, runner, scope, events, queryVars, workVars, ran, unsafe>>

(* The two classes of query objects handle their events alike.             *)
SearchEvent(q) == q \in Searches /\ (Initialize(q) \/ Run(q) \/ Cancelled(q))
PreviewEvent(q) == q \in Previews /\ (Initialize(q) \/ Run(q) \/ Cancelled(q))

(* The application lets go of the reply, in the Qt thread between events.  *)
AppDrops(q) ==
    /\ "app" \in holders[q] /\ handled = NoEvent
    /\ Release(q, {"app"}, events)
    /\ UNCHANGED <<threadVars, runner, scope, handled, bound, qtquery, pushable, workVars, ran>>

RunnerStep == StartThread \/ PostStart \/ StopScope \/ JoinQtThread
WorkerStep(q) ==
    Search(q) \/ Preview(q) \/ RunArrives(q) \/ RunPosts(q) \/ RunReturns(q)
    \/ CancelArrives(q) \/ CancelPosts(q) \/ CancelReturns(q)
LoopStep ==
    \/ StartQtThread \/ LeaveLoop \/ TakeEvent \/ ScopeEvent
    \/ \E q \in Queries : SearchEvent(q) \/ PreviewEvent(q)

(* What follows the use of a null reference or of a freed object is not    *)
(* looked at.                                                              *)
Next ==
    /\ ~unsafe
    /\ \/ RunnerStep
       \/ LoopStep
       \/ \E q \in Queries : WorkerStep(q) \/ AppDrops(q)

Spec == Init /\ [][Next]_vars

(* The three kinds of threads are scheduled; the run time does not have to *)
(* stop, and the client neither to search nor to cancel.                   *)
FairRunnerStep == StartThread \/ PostStart \/ JoinQtThread
FairWorkerStep(q) ==
    RunArrives(q) \/ RunPosts(q) \/ RunReturns(q) \/ CancelPosts(q) \/ CancelReturns(q)
Fairness ==
    /\ WF_vars(~unsafe /\ FairRunnerStep)
    /\ WF_vars(~unsafe /\ LoopStep)
    /\ \A q \in Queries : WF_vars(~unsafe /\ FairWorkerStep(q))

FairSpec == Spec /\ Fairness

-----------------------------------------------------------------------------
(* An object is freed in the middle of a handler only in a query that the  *)
(* client cancelled, and the handlers of Run and Cancelled find the        *)
(* application's query in place (their assert()s).                         *)
HandlersSafe ==
    /\ \A q \in Queries :
          handled.query = q /\ handled.type \in {"Run", "Cancelled"} => qtquery[q]
    /\ unsafe => \E q \in Queries : ~pushable[q] \/ (object[q] # None /\ ~bound[q])
    /\ \A q \in Queries : Contains(events, Event("Run", q)) => object[q] = "alive"

(* A run() that arrives before its query is cancelled reaches the          *)
(* application's run(), although the worker returned long before and       *)
(* although stop() may follow at once.                                     *)
RunReachesScope ==
    []<>(\A q \in Queries :
            runPc[q] \in {"entered", "posted", "done"} => ran[q] \/ unsafe)

(* The comment of QScopeBase::start(): the scope is initialised before it  *)
(* is asked anything.                                                      *)
ScopeThere == \A q \in Queries : object[q] # None => bound[q]

(* What the holders are for: no object is freed in use.                    *)
NeverFreedInUse == unsafe => \E q \in Queries : object[q] # None /\ ~bound[q]

(* start() returns.                                                        *)
StartReturns == runner = "waiting" ~> runner # "waiting"
=============================================================================
