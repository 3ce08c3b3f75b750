# Specifications of the scopes run time

TLA+ models of unity-scopes-api: the C++ run time with which a client (the
shell) searches scopes, each of which runs in a process of its own.  Source
paths are relative to the repository; `internal/` stands for
`src/src/scopes/internal/`.

To check a run: `tlc -workers 2 -config X.cfg M` (the module of each run is in
`PROJECT.json`).  To check the proofs: `tlapm M.tla` for `M` one of
`ReaperInvariant`, `ReaperProofs`, `ReplyObjectProofs`, `Forwarder`, `Subsearch`,
`ObjectAdapter`, `Registry` and `Query`.  The proofs of the reaper and of the
reply object are in modules of their own, the others at the end of the module
that they are about.

## 1. The system and its parts

A client calls `ScopeImpl::search()`.  That creates a **reply object** (the
servant which receives the answers) and a **query ctrl**, and sends the search
request to the scope's process, whose endpoint the **registry** gives, after
launching the process if it is not running.  The scope creates a **query
object**, runs it in a thread of an **object adapter**, and pushes results as
oneway messages to the client's reply object until one side says that the query
is finished or cancelled.  A **reaper** in the client ends the queries whose
scope went silent.

| Part (sources) | Modules | What makes it hard | Run |
|---|---|---|---|
| Reaper (`internal/Reaper.cpp`) | `Reaper`, `ReapItemLifeCycle`; `ReaperInvariant`, `ReaperProofs` | three mutexes, callbacks that call back, weak and last references, lost wake-ups | `reaper_safety`, `reaper_live`, `components` |
| Reply object (`ReplyObject`, `ResultReplyObject`, `AbstractObject`) | `ReplyObject`; `ReplyObjectProofs` | four threads can finish it, tests outside the lock, a reaper callback without a reference | `live` |
| Query (`ScopeImpl`, `QueryCtrlImpl`, `ScopeObject`, `QueryObject`, `QueryCtrlObject`, `ReplyImpl`) | `Query` | cancel before, during and after run; time-outs whose request is executed all the same; life time by self-reference | `query` |
| Registry, processes (`RegistryObject`) | `Registry`, `CustomExec` | waits for other processes, late messages, two locks, overlapping launches | `registry_safety`, `live`, `components` |
| Registry, list of scopes | `RegistryScopes` | two registries merged without a common lock, messages that say only "changed" | `components` |
| Registry process (`scoperegistry/`) | `ScopesWatcher`, `ScopeFinder`, `ServerProcess` | events that come after the directory has changed again; signals at any time | `components`, `live` |
| Object adapter (`zmq_middleware/ObjectAdapter`, `StopPublisher`) | `ObjectAdapter`, `ServantMap` | activation and shutdown from any thread, workers that are busy at shutdown, failures half way | `object_adapter`, `components` |
| Thread pool, outgoing calls, middleware (`ThreadPool`, `ZmqObject`, `ZmqScope`, `ZmqMiddleware`, `RuntimeImpl`) | `Invocation`, `ConnectionPool` | nested use of a bounded pool; locks held while threads are joined | `invocation`, `components` |
| Proxies and marshaling (`ZmqMiddleware`, `Zmq*`, `*I`, `VariantConverter`) | `Proxies`, `Marshal`, `Variants` | two processes must agree on names; exceptions across the wire | `components` |
| Publish/subscribe (`ZmqPublisher`, `ZmqSubscriber`) | `PubSub` | topics that are prefixes, start and stop of threads | `components` |
| Search reply and aggregation (`SearchReplyImpl`, `SearchQueryBaseImpl`, `BufferedResultForwarder`) | `SearchReply`, `Subsearch`, `Forwarder` | pushes from several threads, a cache that survives crashes, loops of aggregators, ordered release | `scope_side` |
| Scope process (`scoperunner`, `RuntimeImpl::run_scope`, `ScopeLoader`) | `ScopeRunner`, `ScopeLoader`, `Directories` | failures and signals between start() and stop() | `components` |
| Remote scopes (`smartscopes/`) | `RemoteScopes`, `SmartQuery`, `ServerProcess` | HTTP completion against cancellation, refresh thread | `live`, `components` |
| Settings, child scopes, configuration | `Settings`, `ChildScopes`, `Config` | files that change between reads, crash in a write, defaults and limits | `components` |
| Online accounts (`OnlineAccountClientImpl`) | `OnlineAccounts` | three threads, locks released around sign-on | `components` |
| Values (`ResultImpl`, filters, departments, `CannedQueryImpl`, widgets, metadata) | `Codec`, `Widgets`, `Results`, `Departments`, `CannedQueries`, `Filters` | round trips, bounds, foreign state, chains of aggregators | `components` |
| Qt bindings (`qt/`) | `QtBridge`, `QtResult` | hand-over to another thread, write-back of references | `live`, `components` |
| Examples (`demo/`) | `QueueScopes`, `DemoClient` | cancelled queries in a queue, waits without time-out | `live`, `components` |

`PROJECT.json` lists the parts with their files, and the hazards with the
source line of each and the properties that would catch it going wrong.

Components that share no state are checked in one run where one bound suits
them: `MCLive`, `MCScopeSide` and `MCComponents` choose a `part` in the initial
state, and only that part moves.  The reachable states are the sum of those of
the parts, and the fairness of a part is asked only of
behaviours of that part.  A property of such a run is the conjunction of the
properties of the modules that its comment names; these are stated, each with
its own comment, in the modules.

## 2. Reaper

`Reaper.tla` has one step for every critical section of `Reaper.cpp`.  The three
locks nest in one order (`refresh()` takes two with `std::lock`), so a critical
section cannot block and the locks themselves need no variable.  `list` is
`list_`; `rpc` is where `reap_func()` and `remove_zombies()` are; `pc[t]` is
where a caller is in add(), refresh(), cancel() or destroy().  `held`, `owner`
and `holders` are the shared pointers: to the items, the owner's to the reaper,
and the temporary ones a weak pointer gives.  A callback may call the operations
in `CallbackOps`.  Time is a tick counter up to `MaxTime`.

`ReapItemLifeCycle.tla` is the abstract specification: an item is armed, then
either fires once or is disarmed, for good.  `ImplementsLifeCycle` is the
refinement (`Status` is the mapping), checked in `reaper_safety` and proved in
`ReaperProofs.tla`.

| Run | Bounds | Shows |
|---|---|---|
| `reaper_safety` | 2 items, 2 threads, 2 ticks, callbacks that add, refresh and cancel | `CancelIsFinal`: after cancel() has returned outside the reaper thread the callback does not run. `IteratorsValid`: nobody erases an entry that has gone. `LruOrder`. `ImplementsLifeCycle` |
| `reaper_live` | 2 items, 1 thread, 1 tick, callbacks that cancel, fair | `ReaperReturns`: cancel() and destroy() return, and no thread joins itself in a destructor |
| `components`, part timed | 2 items, 1 thread, 4 ticks, callbacks that take no time | `LifeTimeBounded`: no item outlives expiry interval plus reap interval |

The first two are for a finite and an infinite expiry: a reaper with
infinite expiry has no thread until destroy() starts one for the callbacks.

Two items are enough for a pass that has one item in hand while the other is
refreshed, cancelled, added or dropped, and two threads for the races of
cancel() with itself and with destroy().  Two ticks let an item expire, be
refreshed and expire again.  Fairness: threads inside an operation proceed;
callbacks return, as `Reaper.h` demands; a cancel() that waits for the end of
passes gets the mutex between two of them (strong fairness), because passes are
at least one reap interval apart.

## 3. Query and reply object

`ReplyObject.tla` is the client's servant with all threads that call it: the
workers of the reply adapter, the thread of search(), the reaper (reduced to the
states of `ReapItemLifeCycle`), the stopping run time and the adapter's map of
servants.  `refs` is the set of holders of a shared pointer; when it becomes
empty the destructor runs, which calls finished() again.  `Dispatch` to
`UncountPush` are push(), `AddInfo` and `ListenerInfo` are info(), `Exchange`
to `Remove` are finished() step by step.

Part `reply` of the run `live` (1 worker, 3 calls, cardinality 1, with and
without a reap item) shows `ReplySound`: finished() is heard once, after the
pushes it knows of and with all infos, the results are bounded and nobody uses
the object after its end; and, under fairness, `ReplyEnds`: the reply is
finished and freed, and the run time stops.  A failed assertion stops the model,
and so would violate these.  The reply adapter of the run time has one
worker thread.  Three calls are a push, an info or another push, and the
finishing call, in any mixture.  Messages may be lost: nothing assumes that one
arrives, and the reaper makes up for it.  `SlowAdd` lets the run time stop
before add_reply_object() is complete; the runs keep it FALSE, since
`assert(disconnect_func_)` in `AbstractObject.cpp` then fails.  `ReplySound` is
also proved, for any number of workers and calls, with the same value of
`SlowAdd` (section 11).

`Query.tla` is one query seen from both processes: the asynchronous search
request with its time-out, QueryCtrlImpl, ScopeObject::query(), QueryObject and
QueryCtrlObject with the references between them, and ReplyImpl with a scope
that pushes in run() or in a thread of its own and may keep the proxy.  Oneway
messages of one process stay in order (its oneway pool has one thread);
messages of different processes do not.  The last holder of the reply proxy runs
~ReplyImpl in three steps: the exchange of `finished_`, the message, and the end
of the reference to the QueryObject.  From the first of them on, a cancel() can
no longer lock its weak pointer to the proxy.  A push tests pushable() and
`finished_` in two steps (`PushCheck`, `PushTest`), and the message with which
cancel() finishes the reply may fail.

The run `query` (1 cancel, 1 push; search, preview, activation, action and
result action) shows `QueryOutcome`: no push after the scope heard of the
cancellation, no OK for a run() that threw; and under fairness `QueryEnds`: the
client hears the end of every query without its reaper, both servants go away
and a cancel() arrives.  One cancel and one push suffice because cancel()
is idempotent after `ready_` and a push depends only on flags.  Fairness: the
run time's threads run, an unanswered request times out, and the scope returns
from run() and drops its proxies.  `QueryOutcome` is also proved (section 11).

## 4. Registry

`Registry.tla` models one scope id: `obj` are the ScopeProcess objects (a
replacement creates a new one while calls still hold the old), `entry` the one
in the map, `procs` the processes, `msgs` the state messages under way.
`process_mutex_` is released only in waits, so a step is what a thread does
between two waits; `mutex` is explicit because add_local_scope() waits with it
held.  A message names the scope and not the process, as in the code.

* `registry_safety` (2 locators, 2 launches, 2 objects, a manual start;
  locators are symmetric): `Supervised`, a launched process that runs can be
  found through a handle that the registry or a call in progress refers to,
  except in the two ways that `misled` records: an overlapping launch while the
  first process starts, and a late message taken for a manual start.  Also
  proved (section 11).
* part `registry` of `live` (1 locator): `RegistryServes`, every call returns
  and the death of a watched process is noticed, although processes may hang and
  messages be lost (no fairness on either).
* `registry_replace_in_debug_mode`: violated, see section 10.

Two launches and two objects give every overlap of an old process with a new
one, and of an old ScopeProcess with its replacement.

Facts the model exhibits that no property excludes: a second locate() while the
scope is Starting launches a second process; a late ScopeReady after a kill
leaves the state Running; `manually_started_` is not reset by clear_handle().

`CustomExec.tla` is the command line of a scope: made absolute when the scope is
added, kept as one line, split again at every start.  `RegistryScopes.tla` is
the list: local scopes from the watchers, remote ones asked for at every call,
messages to subscribers and desktop files; `heard` is the remote part of the
subscriber's list, and whether a message came for every change of it.
`ScopesWatcher.tla` has the steps of
DirWatcher's thread, the kernel's queue of events and main() filling the table;
`ScopeFinder.tla` the precedence of the places where a configuration may be;
`ServerProcess.tla` the signals, start-up and end of both server processes, of
which only the registry has children and a trap for their deaths.
Their properties (`ScopesKnown`, `WatcherSettled`, `ScopeHosted`, `ServersEnd`)
hold for up to 4 changes of two directories, two scope ids in 5 places, 3
changes of 2 versions, commands of 2 words and 2 signals: each pair of an event
with a change that overtakes it, of two places, and of a signal with every
step.  The fairness of `ServerProcess` is that main() and the thread of the
signals run.

## 5. Object adapter

`ObjectAdapter.tla` models the pump, the workers and the callers, and the
StopPublisher, the thread that tells the pump to stop.  A worker has one
message at a time, so `worker[w]` is both its position and that of its message.
`numWorkers`, `readyQueue`, `polled` and `shuttingDown` are the pump's local
variables.  The pump creates its workers one by one (`SpawnWorker`), so that a
worker may serve, or die, before the next is there.  The run `object_adapter` (2 callers, 2 workers, 2 requests, fair)
shows `AdapterClean` and `AdapterServes`: after wait_for_shutdown() the threads
and servants are gone, the pump knows its workers, requests are answered, calls
return and a shutdown ends.  Two workers and two requests reach the state
in which all are busy and the frontend is not polled, and a shutdown with one
worker busy and one ready.  Fairness: threads run and servants return; nobody
has to call, send or fail.  `broken` records the death of a thread or a failure
to create one, for which the code promises nothing.  `AdapterClean` is also
proved (section 11).

`ServantMap.tla`, checked in `components`, has the maps of servants with their
mutex, the reference counts, and the clearing of the maps without the mutex (1
worker, 2 callers, 1 identity and a default servant): `ServantsSafe`, a part of
`ProxyFindsServant`, says that no servant is destroyed while it is in use.

## 6. Outgoing invocations and the end of the run time

`Invocation.tla` has a thread pool and its queue as operators on a record, one
for each critical section; submit() is two, since it tests the state and pushes
the task under different locks.  There are four of them: the twoway and
the oneway pool of the middleware, the async pool of the run time, and the queue
of futures of its waiter thread.

A *frame* `<<owner, level>>` is one activity: "root" is an application thread in
its call, or a search on the async pool; "scope", "debug", "locate" and "oneway"
are the tasks that are submitted on its behalf.  A twoway task calls
debug_mode(), which holds `debug_mode_mutex_` while another task asks for it, and
then locate(), which is a task again.  `at` says where each frame is.  `stopper`
goes through RuntimeImpl::destroy(), and from "stop" on through stop() and
wait_for_shutdown() of the middleware; `locked` says that stop() holds
`state_mutex_` and `data_mutex_`.

The run `invocation` (2 application threads, 1 search, 1 proxy, 4 threads) shows
`PoolsSound`: some thread of the twoway pool does not wait for another task of
the pool (`NoStarvation`), and destroy_once_empty() has every accepted task
executed;
and under fairness `InvocationsReturn` and `DestroyReturns`, with searches still
queued when destroy() is called.  Four is the least size of the pool for these
constants: with three, `NoStarvation` is violated.  In general a
caller occupies two waiting threads if the debug mode of its proxy is not known
and one if it is, so that the eight threads of the code suffice for three
callers at a time with proxies of their own, and four callers can block each
other.  The async pool has one thread, and its searches have asked for the debug
mode before.  Fairness: threads run, a request is answered or times out (in debug
mode it has no time limit, and the scope has to answer), and a thread that waits
for `debug_mode_mutex_` gets it if it is free again and again.

`CallsDuringStop` lets calls be in progress, or begin, while destroy() runs; see
`invocation_during_stop` in section 10.

`ConnectionPool.tla` is the pool of sockets of a thread with its reaper.
`Proxies.tla` is the naming of objects: adapters and endpoints of a middleware,
proxies as strings (up to 6 tokens, which reaches every field twice and every
misplaced separator).  `Marshal.tla` has every operation of every proxy and
servant, with what it carries and which exceptions it declares: `passed` are the
arguments the caller gave, `called` what the delegate was given.  `Variants.tla`
has the conversions to JSON and to the wire.  JSON text tells a double from an
integer by its point only.  Whether a whole double is written with one is up to
the JSON library and a constant, `PointWritten`; `CannedQueries` is checked
without and `Filters` with it (section 10).  `PubSub.tla` has the threads of a
publisher and its subscribers.  Their properties (`ProxyFindsServant`,
`RemoteAsLocal`, `ConnectedGetsAll`) are checked in `components`.

## 7. The scope's side

`SearchReply.tla` (2 threads, 2 categories, 2 queries one after the other, a
process that dies at any step) shows `CacheKept`.  The cache is serialized while
other threads may push, and replayed push by push; what a serialization holds
that raced with a push is undefined, and excepted.  `Subsearch.tla` (2
aggregators that may ask each other, 4 queries) shows `NoQueryLoop` and
`CancelForwarded`; `past` holds the children whose subsearch() overlapped
cancel(), see section 10.  `Forwarder.tla` (a chain of 3, 2 results each, two
threads) shows `ForwardedInTurn`: the two flags are set before they are read, so
one of set_ready() and notify_ready() sees the other's.  All three are
checked in `scope_side`, with symmetry in threads, categories and scopes; those
of `Subsearch` and `Forwarder` are also proved (section 11).

`ScopeRunner.tla` is the process of a scope: main, the thread of run(), the
thread of the signals; `ScopeLoader.tla` the loader; `Directories.tla` the
directories of confined and unconfined scopes.  `QtBridge.tla` (1 search, 1
preview, 1 cancel; in `live`) is a scope written with the Qt classes: who keeps a
query alive while its event is queued.  `QueueScopes.tla` (2 queries, 2 results;
in `live`) are the example scopes C and D, which answer from a queue; cancel() is
that of `QueryObject`, with cancelled() of the scope in the middle.
`ScopesAnswer` says that what they were given is answered.  Fairness: the
threads run; stop() of the example is called in the end.

`OnlineAccounts.tla` (1 account, 2 changes, 2 calls) has the main loop, the
thread of the scope that refreshes, asks or sets a callback, and the thread of
the callback.  `StatusReported` is about the moments when nothing is under way:
the statuses are the backend's, and a callback, whenever it was set, has heard of
them.  Excepted are an account that is added at the very moment the callback is
set (`missed`), and executions that have used what is freed (`wrong`).

## 8. Values, files and remote scopes

An object is a record or a function of the members that the code tells apart;
serialize() and the constructors are translated key by key.  `Codec.tla` has the
classes that differ only in their keys as tables, the others have modules.
`Filters.tla` follows a filter from the scope that defines it over the client
that chooses to the scope that reads, with states that other scopes left.
`Results.tla` follows a result through a chain of aggregators; `owner` and
`adrift` are ghosts.  `CannedQueries.tla` has URIs over an alphabet of a letter,
`%` and `&`.  `QtResult.tla` has the references that are written back later.
Bounds: up to 2 set calls, 3 departments, 2 widgets inside one, 3 layers of
results and 4 calls, 2 options, numbers 0 to 2: enough for a missing, an equal,
a smaller and a larger one.  `BuiltIsReceived`, `ChoiceArrives` and
`ActivationReachesOwner` are the properties.

`Settings.tla` (3 writes), `ChildScopes.tla` (2 children, 4 calls, a process
that ends in a write) and `Config.tla` (2 lines of every kind of file) have the
files: `SettingsCurrent`, `ChoiceRemembered`, `ConfigUsable`.

`RemoteScopes.tla` (7 lists of up to 2 scopes, which the server may change
before each of 3 fetches) has the remote registry from its constructor on: the
refresh thread runs before there is a publisher, which may fail to be made; the
cache file may fail to open or be written in part, and the process may be
restarted at any step;
`SmartQuery.tla` (7 answers, cut into any chunks, to the 3 kinds of query that
the 5 methods of `SSScopeObject` make; in `live`) one query.  The departments
that a server sends are parsed in `Departments.tla`: what cannot be parsed is
left out, the rest arrives.  `SubscribersInformed` and `RemoteQueriesEnd` are the
properties, and the departments belong to `BuiltIsReceived`.  Fairness: the threads of the adapter
and of the HTTP client run, a cancel() that is under way returns, and a request
ends, at the latest by its time-out.

## 9. Clients

`DemoClient.tla` is the example client with scopes that answer directly, from a
queue or by asking others, one process of which may die, or cannot be reached so
that subsearch() throws in scope B.  `WaitersServed`: nobody who waits is
forgotten.

## 10. Disagreements between the code and what is said of it

* `reply_push_after_finished`: push() tests `finished_` before it counts itself,
  so a finished() of the reaper in between lets the listener see a push after
  finished(), which a comment in `ReplyObject.cpp` rules out.
* `registry_replace_in_debug_mode`: add_local_scope() waits for the death of the
  old process with `mutex_` held, and on_process_death() needs `mutex_`; in
  debug mode the wait has no time limit.
* `invocation_during_stop`: stop() joins the twoway pool with both mutexes of the
  middleware held.  An invocation in progress needs them for its registry proxy
  and its nested tasks, so both wait for ever, where the comment has the pool
  destroyed "immediately, because invocations can take time".

Each of the following is stated in the module, with the words it is taken from,
and fails there; no run is kept for it.

* Scope side: a push can throw because another thread registers the category, or
  change the results while they are serialized without the lock (`PushIsSafe`), and a query that failed or was cancelled replaces the cache
  (`CacheOfSuccess`, both `SearchReply`).  A child whose subsearch() is under way
  when cancel() comes is not cancelled (`CancelReachesChildren`); the permission
  for the location is cached by a time that two writes can share (`PermissionIsCurrent`,
  both `Subsearch`).  Results that were buffered can be overtaken
  (`FirstResultsInOrder`, `Forwarder`).
* Processes: when initialisation fails after run() was started, run_scope() waits
  for run() before it calls stop(), an exception of run() is not noticed until the
  process is told to end, and a signal can leave the factory or the run time
  dangling (`ProcessEnds`, `StopAfterRunThrows`, `PointersValid`, `ScopeRunner`).  A signal
  during start-up is lost, and the registry object outlives the middleware
  (`SignalAlwaysEnds`, `MiddlewareKeepsAlive`, `ServerProcess`).  Scopes of one
  package share a cache directory (`CacheExclusive`, `Directories`).
* Registry: a click scope replaces one of the command line, which "override scopes
  in configuration files" (`CommandLineFirst`, `ScopeFinder`); an OEM scope replaces one that is not overrideable once the watcher
  sees its file (`OverrideableRespected`, `ScopeFinder`); a removal during
  start-up leaves a scope that is gone (`NoStaleScope`, `ScopesWatcher`).
* Middleware: with separate endpoint directories a subscriber waits at an
  endpoint where nobody publishes (`SubscriberConnects`, `PubSub`); the string of
  the null proxy is refused (`NullProxyKept`, `Proxies`); remove() of an idle
  connection can wait for the reaper, whose callback waits for the mutex
  (`IdleSocketsRemoved`, `ConnectionPool`).
* Remote scopes: an HTTP error ends a query as success, a cancellation can
  use what is not there (`RemoteErrorReported`, `SafeCancellation`, `SmartQuery`);
  a schema that is withdrawn stays, and a crash while the cache is written loses
  it (`SettingsDropped`, `CacheSurvives`, `RemoteScopes`).
* Values: a widget with widgets inside does not come back from its JSON text
  (`JsonIsDefinition`, `Widgets`); a result that is intercepted and then stored
  has no target (`TargetAvailable`, `Results`); an id with `%` or `?` and a date
  do not survive a URI (`AnyScopeKept`, `CannedQueries`; `DateSurvivesUri`,
  `Filters`); start_value() ignores some defaults (`StartValueDefault`,
  `Filters`).
* Files: a value in the database can make settings() throw (`SettingsLenient`,
  `Settings`); a crash in a write loses the choice of child scopes
  (`ChoiceSurvivesCrash`, `ChildScopes`); the identity of the registry has no
  default (`RegistryIdentityDefault`, `Config`).
* Qt: a search may arrive before start() is handled, a cancelled query be freed
  in use, and start() not return beside another application (`ScopeThere`,
  `NeverFreedInUse`, `StartReturns`, `QtBridge`); a setter after operator[] is
  undone, and store() keeps the old value (`SetterEquivalent`, `StoredWhole`,
  `QtResult`).
* Online accounts (all `OnlineAccounts`): get_service_statuses() can answer before
  a login is done (`StatusesAfterLogin`); a second set_service_update_callback(),
  with `mutex_` locked, waits for `callback_mutex_`, which the thread of a callback
  has that asks for the statuses and waits for `mutex_` (`AccountCallsReturn`); an
  AccountInfo can be used after it was freed, also if the scope does no more than
  set a callback, and a thread be overwritten (`AccountsSafe`); an account that is added while the
  callback is set may never be reported (`NoneMissed`).

Without a property of their own: if the JSON library writes no point
(`PointWritten` FALSE), the whole number that a user chose with a slider comes
back from a URI as an Int, which the slider does not accept (`ChoiceArrives` is
then violated); a subscriber is not told when only the metadata of a remote scope
changed, when the smart scopes proxy came back with another list, or when its
publisher could not be made; cleanup() of an adapter can iterate over the worker
threads while the pump still appends to them, if a worker has failed before
(`CleanupRaces`; `AdapterClean` excepts it); a remote query whose last owner is
cancel() sends OK after Cancelled, which the client ignores; a reaper with a finite interval whose destroy()
comes in the middle of a pass exits without the final pass, though `Reaper.h`
promises the callbacks of all entries under CallbackOnDestroy (which only tests
ask for); a cancel() on the reaper thread holds a temporary reference, and if
the owner drops its own meanwhile, the reaper thread joins itself in ~Reaper
(`ReleaseEarly` in `Reaper.tla`); submit() on a pool that is being drained can
push a task after the queue was seen empty, and nothing executes it;
`ObjectAdapter.h` gives Inactive -> Deactivating ->
Destroyed where the code goes from Inactive straight to Destroyed, and activate()
overwrites a Failed that a thread set during activation.

## 11. What is proved, what is checked, what is left out

`ReaperInvariant.tla` and `ReaperProofs.tla` prove, for any sets of items and
threads, any clock bound and any use by callbacks, under the two assumptions of
`Reaper.tla` (the constructor's conditions on the intervals, and the kinds of
the constants):

* `TypeCorrect`, `IteratorsAreValid`, `ListIsLru` (`ReaperInvariant`) from the inductive invariant
  `Inv` = types + `ArgOK` + `ThreadInv` + `ListInv` + `EraseInv` + `LruInv`.
  `IteratorsValid` alone is not inductive: that an entry is still there when a
  thread erases it follows from `ListInv` (items that are not cancelled are on
  the list) and `EraseInv` (of each cancelled item at most one thread, caller or
  reaper, is the eraser, and until it is done the entry stays).  `LruOrder`
  needs that no time stamp lies in the future.
* In `ReaperProofs`, `CancelGuarantee` (`CancelIsFinal`) from `Inv` and `CancelInv`, if the owner
  calls destroy() before it drops the reaper and no callback calls destroy().
  `PassInv` says that a callback runs only inside a pass, `ReturnInv` that an
  item whose cancel() has returned is not the one in hand, `OwnerInv` that the
  reaper is dropped only after its thread has gone.
* `Implements` (`ImplementsLifeCycle`): the reaper implements
  `ReapItemLifeCycle`, also when it is dropped early.  Five kinds of steps change
  the life of an item: add(), a cancel() that marks it, and the three steps of
  remove_zombies() from the mark to the return of the callback; all others are
  `Quiet`.  `FireInv` relates the marks of an item to the position of the
  reaper thread.
* `SafeToDrop`: no `std::thread` is destroyed without a join and none joins
  itself, under the hypotheses of `CancelGuarantee`, from `TermInv`: who set
  `finish_` joins before anyone may drop the reaper.

The lemmas of `ReaperInvariant` say what erase and move-to-front do to membership
and order, and that each step keeps the types.

The other theorems, each for any values of the constants within the assumptions
named:

* `ReplyObjectProofs`, `AlwaysSound` (`ReplySound`; finitely many workers, a natural
  number of calls and cardinality, and `~SlowAdd`: no expiry and no stop overtakes
  add_reply_object()).  `NoUseAfterFree` is the hard part, since the reaper's
  callback has a plain `this`.  `Life` says who keeps the object alive:
  `References` (a call holds a reference while it lasts, and until finished() the
  adapter does), `Reaping` (the callback runs only while the item is firing, and
  ReapItem::cancel() keeps it out before the servant is removed), `StopOrder`
  (destroy() has the reaper to itself before it has the adapter), `Connected`
  (before add_reply_object() is done nobody but search() has the object) and
  `Freed`.  `Once`: one thread is past the exchange, and reports once.  `Counted`,
  with `PushCount` (`num_push_` is the number of workers between its two updates),
  gives `CountedPushesFirst`; `Infos` gives `InfosReported`.  `ResultCount`: of the
  calls that came, each is counted as a result once at most.
* `Query`, `OutcomeIsRight` (`QueryOutcome`; the two bounds are natural numbers
  and `Kinds` are methods of Scope).  `ErrorReported` speaks of what the client
  was told, which was decided when the messages were sent, so the invariant has
  to speak of the messages on the way: `Story` says that while run() holds the
  reply proxy nothing on the way makes the outcome OK, and that once the error of
  a run() that threw is sent, an OK behind it cannot either.  `Proxy` and `Before`
  say who holds the proxy where, `Sent` that the destroy message is sent once.
  `NothingAfterCancelled` follows from the part of `Proxy` on `pushable_`.
* `Registry`, `AlwaysSupervised` (`Supervised`; finitely many locators and natural
  bounds).  A handle is cleared or overwritten in many places.  Each is harmless
  because of `Sound`: a ScopeProcess that counts as stopped or as started by hand
  has no handle of a process that has to be found.  An object is dropped only
  when `Position`, where the threads are and what `scope_processes_` holds
  meanwhile, allows it.
* `ObjectAdapter`, `AlwaysClean` (`AdapterClean`; finitely many workers, at least
  one).  `Activation`: one caller at a time activates, and nothing runs before
  it, nor a worker before the pump has made it.  `CleaningUp`: `call_once` lets one caller join, and whoever has passed it
  finds every thread ended.  `WorkersAccounted` is inductive beside them; its
  counts are cardinalities of sets of workers.
* `Subsearch`, `NoLoop` (`NoQueryLoop`) and `CancelReaches` (`CancelForwarded`;
  at least one query).  `Remembered`: `history_` of a query holds all that was asked
  on the way to it, and what it is about to ask is not among that.  `Known`: a
  valid query knows its subqueries but for the one that subsearch() is about to
  push_back().
* `Forwarder`, `InTurn` (`ForwardedInTurn`; the chain has any length).  `Turns`:
  buffers end in the order of the chain.  `Counted`: every result is in a buffer,
  with the one thread that took it, or forwarded.  `NoneForgotten`: a thread is on
  its way to whatever keeps a forwarder buffering.  That all forwarders flush in
  the end is an induction along the chain, done with the first one that still
  buffers: a nonempty set of numbers has a least element (`LeastElement`).

TLC finds no violation of these invariants on small constants (two items, callers,
workers, locators or scopes, a chain of three); the proofs are for all.

Only model-checked: every liveness property (fairness is out of the prover's
reach); `LifeTimeBounded`; and all properties of the modules that have no proofs.
`CannedQueries`, `Config`, `Departments`, `Proxies`, `Results`, `Variants` and
`Widgets` use recursive operators over their data, which the prover cannot
unfold.

Not modelled: public classes that only forward to their implementation; code
that Cap'n Proto generates; the renderer of categories and the builder of
Variants; the Qt wrappers of values and the readers of JSON and XML over HTTP;
the external main loop of online accounts; benchmarks; logging,
tracing and test fixtures.  These are wrappers of libraries, text, or one-line
forwarding.

## 12. Plan

Theorems worth proving next: `ServantsSafe` of the adapter's maps for any number
of workers and callers; `CacheWhole` of the search reply; `PoolsSound` of the
thread pools, with the size of the pool that a number of callers needs.
