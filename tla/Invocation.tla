----------------------------- MODULE Invocation -----------------------------
(***************************************************************************)
(* The outgoing invocations of a client and how its run time shuts down.   *)
(*                                                                         *)
(* A twoway invocation is a task of the middleware's twoway pool.  Before  *)
(* it sends its request it has to locate() the scope, and the first        *)
(* invocation of a proxy has to ask for the scope's debug mode before      *)
(* that, and each of these is another task of the same pool, for which the *)
(* first one waits.  A search is a task of the run time's async pool,      *)
(* which makes such an invocation.  A oneway invocation is a task of the   *)
(* oneway pool.  Meanwhile RuntimeImpl::destroy() drains or destroys the   *)
(* pools.                                                                  *)
(*                                                                         *)
(* A frame <<o, l>> is one activity on behalf of owner o: "root" is the    *)
(* application's thread in its call, or the async pool's thread in its     *)
(* search; the other levels are tasks of the middleware's pools.           *)
(***************************************************************************)
EXTENDS Integers, Sequences, FiniteSets

CONSTANTS
    Callers,        \* application threads
    Searches,       \* bound: searches that are not done yet, at a time
    Proxies,        \* the scopes' proxies (ZmqScope)
    PoolSize,       \* the number of threads of the twoway pool
    CallsDuringStop,\* may a call be in progress while destroy() is called?
    Nobody

ASSUME InvocationAssumption ==
    /\ IsFiniteSet(Callers) /\ IsFiniteSet(Searches)
    /\ Callers \cap Searches = {}
    /\ PoolSize \in Nat /\ CallsDuringStop \in BOOLEAN

VARIABLES
    at,        \* where each frame is
    sub,       \* the level of the task that a frame submits or waits for
    proxy,     \* the proxy on which each owner invokes an operation
    known,     \* has the proxy's debug_mode_ been retrieved?
    debugLock, \* who holds the proxy's debug_mode_mutex_
    twoway,    \* the twoway pool
    oneway,    \* the oneway pool
    async,     \* RuntimeImpl::async_pool_, whose tasks are the searches
    futures,   \* RuntimeImpl::future_queue_, as a pool without threads
    pending,   \* the search that a caller has pushed, until it pushes the future
    waiter,    \* waiter_thread(): "pop", "done", or the search it waits for
    mwState,   \* ZmqMiddleware::state_
    locked,    \* does stop() hold state_mutex_ and data_mutex_?
    stopper    \* where RuntimeImpl::destroy() is; it holds mutex_ throughout

-----------------------------------------------------------------------------
(* Class ThreadPool with its ThreadSafeQueue of tasks, as operators on a   *)
(* record.  Each operator is what happens in one critical section of one   *)
(* of the two mutexes.  The threads of the pool are interchangeable, so a  *)
(* pool knows only which tasks are running.                                *)

PoolState == {"Created", "Waiting", "Destroying", "Destroyed"}

NewPool == [state |-> "Created",    \* ThreadPool::state_
            queue |-> <<>>,         \* ThreadSafeQueue::queue_
            destroyed |-> FALSE,    \* ThreadSafeQueue::destroyed_
            running |-> {}]         \* the tasks that threads are executing

\* submit() tests the state first, and pushes the task in a step of its own.
\* Either step throws when its condition does not hold.
Submittable(p) == p.state = "Created"

Pushable(p) == ~p.destroyed

Push(p, t) == [p EXCEPT !.queue = Append(@, t)]

\* Mutant of FreeThread: the threads run their tasks one at a time.
OneAtATime(p, n) == p.running = {}

\* One of the n threads of the pool is in wait_and_pop().
FreeThread(p, n) == Cardinality(p.running) < n

\* wait_and_pop() in run(): the queue's being destroyed comes before what is
\* still in the queue.
Poppable(p, n) == ~p.destroyed /\ p.queue # <<>> /\ FreeThread(p, n)

Pop(p) == [p EXCEPT !.queue = Tail(@), !.running = @ \cup {Head(p.queue)}]

\* Mutant of Finish: the thread does not return to wait_and_pop().
FinishNever(p, t) == p

\* A task has returned, and its thread is back in wait_and_pop().
Finish(p, t) == [p EXCEPT !.running = @ \ {t}]

\* Mutant of Destroy: the queue is not destroyed.
DestroyPoolOnly(p) == [p EXCEPT !.state = "Destroying"]

\* destroy(), first part.  Who finds the pool in a later state waits for
\* Destroyed, or returns.
Destroy(p) ==
    IF p.state \in {"Created", "Waiting"}
    THEN [p EXCEPT !.state = "Destroying", !.destroyed = TRUE]
    ELSE p

\* destroy(), second part: all threads are joined.
Joinable(p) == p.running = {}

Destroyed(p) == [p EXCEPT !.state = "Destroyed"]

\* destroy_once_empty() until it calls destroy(): no more submit(), then
\* wait_until_empty().
WaitUntilEmpty(p) == [p EXCEPT !.state = IF @ = "Created" THEN "Waiting" ELSE @]

\* Mutant of Empty: the queue is not waited for.
EmptyOrNot(p) == TRUE

Empty(p) == p.queue = <<>>

-----------------------------------------------------------------------------
pools == <<twoway, oneway, async, futures>>
vars == <<at, sub, proxy, known, debugLock, pools, pending, waiter, mwState,
          locked, stopper>>

Owners == Callers \cup Searches
Levels == {"scope", "debug", "locate", "oneway"}
Tasks == Owners \X Levels
Frames == Owners \X (Levels \cup {"root"})
Root(o) == <<o, "root">>

Labels == {"idle", "queued", "debug", "registry", "pool", "submit", "push",
           "wait", "request", "asyncPool", "asyncSubmit", "asyncPush",
           "futurePush", "ok", "exception"}
StopLabels == {"idle", "drain", "join", "futures", "waiter", "stop", "joinTwoway",
               "drainOneway", "joinOneway", "adapters", "done"}

\* Every task is in the place its frame says it is in, and only there.
TypeOK ==
    /\ at \in [Frames -> Labels] /\ sub \in [Frames -> Levels]
    /\ proxy \in [Owners -> Proxies \cup {Nobody}] /\ known \in [Proxies -> BOOLEAN]
    /\ debugLock \in [Proxies -> Frames \cup {Nobody}]
    /\ mwState \in {"Started", "Stopping", "Stopped"}
    /\ locked \in BOOLEAN /\ stopper \in StopLabels
    /\ waiter \in Searches \cup {"pop", "done"}
    /\ pending \in [Callers -> Searches \cup {Nobody}]
    /\ \A t \in Tasks :
          /\ at[t] \in {"idle", "queued", "ok", "exception"}
                <=> t \notin twoway.running \cup oneway.running

Init ==
    /\ at = [f \in Frames |-> "idle"]
    /\ sub = [f \in Frames |-> "scope"]
    /\ proxy = [o \in Owners |-> Nobody]
    /\ known = [p \in Proxies |-> FALSE]
    /\ debugLock = [p \in Proxies |-> Nobody]
    /\ twoway = NewPool /\ oneway = NewPool /\ async = NewPool /\ futures = NewPool
    /\ pending = [c \in Callers |-> Nobody] /\ waiter = "pop"
    /\ mwState = "Started" /\ locked = FALSE /\ stopper = "idle"

-----------------------------------------------------------------------------
(* Steps of a frame *)

Goto(f, l) == at' = [at EXCEPT ![f] = l]

SubmitLater(f, l) ==
    /\ Goto(f, "pool")
    /\ sub' = [sub EXCEPT ![f] = l]

\* The locks that a frame holds go when it returns.
Unlock(f) == debugLock' = [p \in Proxies |-> IF debugLock[p] = f THEN Nobody
                                                               ELSE debugLock[p]]

\* Nothing is left of a frame that has returned but its result.
Forget(f) ==
    /\ sub' = [sub EXCEPT ![f] = "scope"]
    /\ proxy' = IF f[2] = "root" THEN [proxy EXCEPT ![f[1]] = Nobody] ELSE proxy

\* A frame returns or throws: a task leaves its thread, a caller goes on with
\* something else, and send_search swallows the exception.
Leave(f, result, resume) ==
    /\ at' = [resume EXCEPT ![f] = IF f \in Callers \X {"root"} THEN "idle"
                                   ELSE IF f[2] = "root" THEN "ok" ELSE result]
    /\ Forget(f)
    /\ Unlock(f)
    /\ twoway' = Finish(twoway, f)
    /\ oneway' = Finish(oneway, f)
    /\ async' = Finish(async, f)
    /\ UNCHANGED futures

\* Searches bounds the calls of search() and the searches in progress.
SearchLabels == {"debug", "asyncPool", "asyncSubmit", "asyncPush"}
BeingMade ==
    Cardinality({o \in Owners : /\ at[Root(o)] # "idle"
                                /\ \/ o \in Searches
                                   \/ at[Root(o)] \in SearchLabels
                                   \/ sub[Root(o)] = "debug"})

\* An application thread calls ScopeImpl::search() (or preview(), activate(),
\* ...), child_scopes() (or set_child_scopes()), an operation of the registry,
\* or QueryCtrl::cancel().
Call(c) ==
    /\ at[Root(c)] = "idle"
    /\ CallsDuringStop \/ stopper = "idle"
    /\ \E p \in Proxies : proxy' = [proxy EXCEPT ![c] = p]
    /\ \/ BeingMade < Cardinality(Searches) /\ Goto(Root(c), "debug") /\ UNCHANGED sub
       \/ \E l \in {"scope", "locate", "oneway"} : SubmitLater(Root(c), l)
    /\ UNCHANGED <<known, debugLock, pools, waiter, mwState, locked, stopper>>

AfterDebugMode(f) == IF f[2] = "root" THEN "asyncPool" ELSE "registry"

\* Mutant of DebugMode: debug_mode_mutex_ is not locked.
DebugModeUnlocked(f) ==
    LET p == proxy[f[1]] IN
    /\ at[f] = "debug"
    /\ IF known[p] THEN Goto(f, AfterDebugMode(f)) /\ UNCHANGED sub
                   ELSE SubmitLater(f, "debug")
    /\ UNCHANGED <<debugLock, proxy, known, pools, waiter, mwState, locked, stopper>>

\* ZmqScope::debug_mode(), called by search() on the application's thread and
\* by invoke_scope_() on a thread of the pool.
DebugMode(f) ==
    LET p == proxy[f[1]] IN
    /\ at[f] = "debug"
    /\ debugLock[p] = Nobody
    /\ IF known[p]
       THEN Goto(f, AfterDebugMode(f)) /\ UNCHANGED <<sub, debugLock>>
       ELSE /\ debugLock' = [debugLock EXCEPT ![p] = f]
            /\ SubmitLater(f, "debug")
    /\ UNCHANGED <<proxy, known, pools, waiter, mwState, locked, stopper>>

\* invoke_twoway_(): registry_proxy() and ss_registry_proxy() lock data_mutex_.
\* An invocation of the registry itself is not located.
InvokeTwoway(f) ==
    /\ at[f] = "registry"
    /\ ~locked
    /\ IF f[2] = "locate" THEN Goto(f, "request") /\ UNCHANGED sub
                          ELSE SubmitLater(f, "locate")
    /\ UNCHANGED <<proxy, known, debugLock, pools, waiter, mwState, locked,
                   stopper>>

\* twoway_pool() and oneway_pool() lock state_mutex_ and data_mutex_.
GetPool(f) ==
    /\ at[f] = "pool"
    /\ ~locked
    /\ IF mwState = "Started"
       THEN Goto(f, "submit") /\ UNCHANGED <<sub, proxy, debugLock, pools>>
       ELSE Leave(f, "exception", at)
    /\ UNCHANGED <<known, waiter, mwState, locked, stopper>>

PoolOf(f) == IF sub[f] = "oneway" THEN oneway ELSE twoway

\* submit(), first part.
Submit(f) ==
    /\ at[f] = "submit"
    /\ IF Submittable(PoolOf(f))
       THEN Goto(f, "push") /\ UNCHANGED <<sub, proxy, debugLock, pools>>
       ELSE Leave(f, "exception", at)
    /\ UNCHANGED <<known, waiter, mwState, locked, stopper>>

\* submit(), second part; then the frame waits for the future.
PushTask(f) ==
    LET t == <<f[1], sub[f]>> IN
    /\ at[f] = "push"
    /\ IF Pushable(PoolOf(f))
       THEN /\ at' = [at EXCEPT ![f] = "wait", ![t] = "queued"]
            /\ twoway' = IF sub[f] = "oneway" THEN twoway ELSE Push(twoway, t)
            /\ oneway' = IF sub[f] = "oneway" THEN Push(oneway, t) ELSE oneway
            /\ UNCHANGED <<sub, proxy, debugLock, async, futures>>
       ELSE Leave(f, "exception", at)
    /\ UNCHANGED <<known, waiter, mwState, locked, stopper>>

\* invoke_twoway__() gets a reply or times out; invoke_oneway_() sends the
\* message or discards it.
Request(f) ==
    /\ at[f] = "request"
    /\ \/ Leave(f, "ok", at)
       \/ f[2] # "oneway" /\ Leave(f, "exception", at)
    /\ UNCHANGED <<known, waiter, mwState, locked, stopper>>

\* The future that a frame waits for is ready.  An exception goes up through
\* the frames; a scope that the registry does not know is invoked all the same.
Resume(f) ==
    LET t == <<f[1], sub[f]>>
        resumed == [at EXCEPT ![t] = "idle"]
    IN
    /\ at[f] = "wait"
    /\ at[t] \in {"ok", "exception"}
    /\ CASE at[t] = "ok" /\ sub[f] = "debug" ->
              /\ known' = [known EXCEPT ![proxy[f[1]]] = TRUE]
              /\ at' = [resumed EXCEPT ![f] = AfterDebugMode(f)]
              /\ Unlock(f)
              /\ UNCHANGED <<sub, proxy, pools>>
         [] at[t] = "ok" /\ sub[f] = "locate" /\ f[2] # "root" ->
              /\ at' = [resumed EXCEPT ![f] = "request"]
              /\ UNCHANGED <<known, sub, proxy, debugLock, pools>>
         [] OTHER -> Leave(f, at[t], resumed) /\ UNCHANGED known
    /\ UNCHANGED <<waiter, mwState, locked, stopper>>

-----------------------------------------------------------------------------
(* search() hands the invocation to the async pool *)

\* RuntimeImpl::reply_reaper() and async_pool() lock the run time's mutex_.
GetAsyncPool(c) ==
    /\ at[Root(c)] = "asyncPool"
    /\ stopper \in {"idle", "done"}
    /\ Goto(Root(c), "asyncSubmit")
    /\ UNCHANGED <<sub, proxy, known, debugLock, pools, waiter, mwState,
                   locked, stopper>>

AsyncSubmit(c) ==
    /\ at[Root(c)] = "asyncSubmit"
    /\ IF Submittable(async)
       THEN Goto(Root(c), "asyncPush") /\ UNCHANGED <<sub, proxy>>
       ELSE Goto(Root(c), "idle") /\ Forget(Root(c))
    /\ UNCHANGED <<known, debugLock, pools, waiter, mwState, locked, stopper>>

\* The future of search s goes to the waiter thread's queue in a second step.
AsyncPush(c) ==
    /\ at[Root(c)] = "asyncPush"
    /\ IF Pushable(async)
       THEN \E s \in Searches :
              /\ at[Root(s)] = "idle"
              /\ pending' = [pending EXCEPT ![c] = s]
              /\ proxy' = [proxy EXCEPT ![s] = proxy[c]]
              /\ at' = [at EXCEPT ![Root(c)] = "futurePush", ![Root(s)] = "queued"]
              /\ async' = Push(async, Root(s))
              /\ UNCHANGED sub
       ELSE Goto(Root(c), "idle") /\ Forget(Root(c)) /\ UNCHANGED <<pending, async>>
    /\ UNCHANGED <<known, debugLock, twoway, oneway, futures, waiter,
                   mwState, locked, stopper>>

FuturePush(c) ==
    /\ at[Root(c)] = "futurePush"
    /\ Goto(Root(c), "idle") /\ Forget(Root(c))
    /\ pending' = [pending EXCEPT ![c] = Nobody]
    /\ futures' = IF Pushable(futures) THEN Push(futures, pending[c]) ELSE futures
    /\ UNCHANGED <<known, debugLock, twoway, oneway, async,
                   waiter, mwState, locked, stopper>>

\* waiter_thread(): wait_and_pop() throws once the queue is destroyed.
WaiterPop ==
    /\ waiter = "pop"
    /\ futures.destroyed \/ futures.queue # <<>>
    /\ IF futures.destroyed
       THEN waiter' = "done" /\ UNCHANGED futures
       ELSE /\ waiter' = Head(futures.queue)
            /\ futures' = [futures EXCEPT !.queue = Tail(@)]
    /\ UNCHANGED <<at, sub, proxy, known, debugLock, twoway, oneway, async,
                   pending, mwState, locked, stopper>>

\* waiter_thread(): the search is done.
WaiterGet ==
    /\ waiter \in Searches
    /\ at[Root(waiter)] = "ok"
    /\ Goto(Root(waiter), "idle")
    /\ waiter' = "pop"
    /\ UNCHANGED <<sub, proxy, known, debugLock, pools, pending, mwState,
                   locked, stopper>>

-----------------------------------------------------------------------------
(* The threads of the pools *)

FirstStep(l) == CASE l = "root" -> "pool" [] l = "scope" -> "debug"
                  [] l = "oneway" -> "request" [] OTHER -> "registry"

StartTwoway ==
    /\ Poppable(twoway, PoolSize)
    /\ twoway' = Pop(twoway)
    /\ Goto(Head(twoway.queue), FirstStep(Head(twoway.queue)[2]))
    /\ UNCHANGED <<sub, proxy, known, debugLock, oneway, async, futures,
                   pending, waiter, mwState, locked, stopper>>

StartOneway ==
    /\ Poppable(oneway, 1)
    /\ oneway' = Pop(oneway)
    /\ Goto(Head(oneway.queue), "request")
    /\ UNCHANGED <<sub, proxy, known, debugLock, twoway, async, futures,
                   pending, waiter, mwState, locked, stopper>>

\* send_search calls ZmqScope::search().
StartAsync ==
    /\ Poppable(async, 1)
    /\ async' = Pop(async)
    /\ SubmitLater(Head(async.queue), "scope")
    /\ UNCHANGED <<proxy, known, debugLock, twoway, oneway, futures,
                   pending, waiter, mwState, locked, stopper>>

-----------------------------------------------------------------------------
(* RuntimeImpl::destroy() and, from "stop" on, ZmqMiddleware::stop() and     *)
(* wait_for_shutdown()                                                       *)

StopStep(from, to) == stopper = from /\ stopper' = to

DestroyBegins ==
    /\ StopStep("idle", "drain")
    /\ CallsDuringStop \/ \A c \in Callers : at[Root(c)] = "idle"
    /\ async' = WaitUntilEmpty(async)
    /\ UNCHANGED <<twoway, oneway, futures, mwState, locked>>

AsyncDrained ==
    /\ StopStep("drain", "join")
    /\ Empty(async)
    /\ async' = Destroy(async)
    /\ UNCHANGED <<twoway, oneway, futures, mwState, locked>>

AsyncJoined ==
    /\ StopStep("join", "futures")
    /\ Joinable(async)
    /\ async' = Destroyed(async)
    /\ UNCHANGED <<twoway, oneway, futures, mwState, locked>>

FuturesEmpty ==
    /\ StopStep("futures", "waiter")
    /\ Empty(futures)
    /\ futures' = Destroy(futures)
    /\ UNCHANGED <<twoway, oneway, async, mwState, locked>>

WaiterJoined ==
    /\ StopStep("waiter", "stop")
    /\ waiter = "done"
    /\ UNCHANGED <<pools, mwState, locked>>

\* stop() locks both mutexes and keeps them until the adapters are shut down.
Stop ==
    /\ StopStep("stop", "joinTwoway")
    /\ locked' = TRUE
    /\ twoway' = Destroy(twoway)
    /\ UNCHANGED <<oneway, async, futures, mwState>>

TwowayJoined ==
    /\ StopStep("joinTwoway", "drainOneway")
    /\ Joinable(twoway)
    /\ twoway' = Destroyed(twoway)
    /\ oneway' = WaitUntilEmpty(oneway)
    /\ UNCHANGED <<async, futures, mwState, locked>>

OnewayDrained ==
    /\ StopStep("drainOneway", "joinOneway")
    /\ Empty(oneway)
    /\ oneway' = Destroy(oneway)
    /\ UNCHANGED <<twoway, async, futures, mwState, locked>>

OnewayJoined ==
    /\ StopStep("joinOneway", "adapters")
    /\ Joinable(oneway)
    /\ oneway' = Destroyed(oneway)
    /\ mwState' = "Stopping"
    /\ locked' = FALSE
    /\ UNCHANGED <<twoway, async, futures>>

WaitForShutdown ==
    /\ StopStep("adapters", "done")
    /\ mwState' = "Stopped"
    /\ UNCHANGED <<pools, locked>>

DestroyStep ==
    /\ \/ AsyncDrained \/ AsyncJoined \/ FuturesEmpty \/ WaiterJoined \/ Stop
       \/ TwowayJoined \/ OnewayDrained \/ OnewayJoined \/ WaitForShutdown
    /\ UNCHANGED <<at, sub, proxy, known, debugLock, pending, waiter>>

-----------------------------------------------------------------------------
FrameStep(f) ==
    /\ \/ DebugMode(f) \/ InvokeTwoway(f) \/ GetPool(f) \/ Submit(f)
       \/ PushTask(f) \/ Request(f) \/ Resume(f)
    /\ UNCHANGED pending

SearchStep(c) ==
    \/ (GetAsyncPool(c) \/ AsyncSubmit(c)) /\ UNCHANGED pending
    \/ AsyncPush(c) \/ FuturePush(c)

\* Of the frames of one owner, all but the last wait for the next one.
OwnerStep(o) ==
    \/ \E l \in Levels \cup {"root"} : FrameStep(<<o, l>>)
    \/ o \in Callers /\ SearchStep(o)

DebugStep(o) ==
    /\ \E l \in {"root", "scope"} : DebugMode(<<o, l>>)
    /\ UNCHANGED pending

PoolStep == StartTwoway \/ StartOneway \/ StartAsync \/ WaiterPop \/ WaiterGet

Next ==
    \/ \E c \in Callers : Call(c) /\ UNCHANGED pending
    \/ \E o \in Owners : OwnerStep(o)
    \/ PoolStep
    \/ DestroyBegins /\ UNCHANGED <<at, sub, proxy, known, debugLock, pending, waiter>>
    \/ DestroyStep

Spec == Init /\ [][Next]_vars

\* Threads run, requests are answered or time out, and a thread that wants a
\* mutex which is free again and again gets it.  Nobody has to call anything.
FairSpec ==
    /\ Spec
    /\ \A o \in Owners : /\ WF_vars(OwnerStep(o))
                         /\ SF_vars(DebugStep(o))
    /\ WF_vars(StartTwoway) /\ WF_vars(StartOneway) /\ WF_vars(StartAsync)
    /\ WF_vars(WaiterPop) /\ WF_vars(WaiterGet)
    /\ WF_vars(DestroyStep)

-----------------------------------------------------------------------------
(* Properties *)

\* The twoway pool always has a thread that does not wait for another task of
\* the pool: so locate() and debug_mode() requests can be executed, and nobody
\* waits for everybody.  ("We absolutely MUST have AT LEAST 5 two-way invoke
\* threads" in ZmqMiddleware::start: with c application threads and as many
\* proxies whose debug mode is not known, 2 * c + 2 are enough, two for each
\* caller, one for the async pool's search and one for its locate(); with one
\* proxy, debug_mode_mutex_ makes it c + 2.)
NoStarvation ==
    Cardinality({t \in twoway.running : at[t] \in {"debug", "wait"}}) < PoolSize

\* destroy_once_empty() loses no task: what was accepted by the async pool or
\* the oneway pool has been executed when the pool is destroyed ("Wait for
\* queued oneways to go out first").
NothingLost ==
    \A p \in {async, oneway} : p.state = "Destroyed" => p.queue = <<>>

\* Every call of the application returns, and every search is carried out.
InvocationsReturn ==
    \A o \in Owners : []<>(at[Root(o)] = "idle")

\* RuntimeImpl::destroy() returns although searches are still queued or being
\* invoked when it is called.
DestroyReturns == []<>(stopper \in {"idle", "done"})

(* The pools keep a thread for the calls that others wait for, and lose no *)
(* task: see NoStarvation and NothingLost in Invocation                    *)
(* (ZmqObjectProxy::debug_mode, ThreadPool::destroy_once_empty).           *)
PoolsSound == TypeOK /\ NoStarvation /\ NothingLost

=============================================================================
