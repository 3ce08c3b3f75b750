---------------------------- MODULE ReplyObject ----------------------------
(***************************************************************************)
(* The client-side servant of a query, ReplyObject, with everything that   *)
(* calls it: the worker threads of the reply adapter, which dispatch       *)
(* push(), info() and finished(); the thread of ScopeImpl::search(), which *)
(* creates the object and reports a failed invocation; the reaper, whose   *)
(* callback holds no reference to the object; and RuntimeImpl::destroy(),  *)
(* which stops the reaper and then drops the servants of the adapter.      *)
(*                                                                         *)
(* Time is left out: an armed reap item may expire in any state, and       *)
(* refresh() therefore changes nothing here (module Reaper has the time).  *)
(***************************************************************************)
EXTENDS Integers, Sequences, FiniteSets

CONSTANTS
    Workers,       \* the threads of the reply adapter
    MaxCalls,      \* bound: the invocations that reach the reply adapter
    Cardinality_,  \* the limit of ResultReplyObject, 0 for none
    DontReap,      \* may the scope be in debug mode, without a reap item?
    SlowAdd,       \* a stop or an expiry may overtake add_reply_object()
    Client,        \* the thread of ScopeImpl::search() and its async lambda
    ReapThread,    \* the thread of the reaper
    Stopper,       \* the thread that calls RuntimeImpl::destroy()
    Adapter        \* the entry of the servant in the adapter's map

ASSUME ConstantAssumption ==
    /\ IsFiniteSet(Workers)
    /\ MaxCalls \in Nat
    /\ Cardinality_ \in Nat
    /\ DontReap \in SUBSET BOOLEAN
    /\ SlowAdd \in BOOLEAN
    /\ {Client, ReapThread, Stopper, Adapter} \cap Workers = {}
    /\ Client \notin {ReapThread, Stopper, Adapter}
    /\ ReapThread \notin {Stopper, Adapter}
    /\ Stopper # Adapter

VARIABLES
    finished,      \* finished_
    numPush,       \* num_push_
    numResults,    \* num_pushes_ of ResultReplyObject
    infoList,      \* info_list_, by the number of the call
    reapItem,      \* reap_item_ is set
    ctorLock,      \* the constructor holds mutex_
    hasDisconnect, \* disconnect_func_ is set
    refs,          \* who holds a shared_ptr to the object
    gone,          \* the destructor has completed
    item,          \* the reap item, as ReapItemLifeCycle has it
    reaperUp,      \* the reaper thread has not been joined
    adapterUp,     \* the adapter and its map of servants
    pc,            \* what each thread is doing
    call,          \* the number of the call each worker is dispatching
    calls,         \* how many calls have arrived
    counted,       \* history: pushes under way when finished_ was set
    results,       \* history: how many results the listener has had
    heard,         \* history: the infos the listener had before finished()
    reported,      \* history: the infos of each finished() of the listener
    failedAssert   \* an assert() has failed

objectVars == <<finished, numPush, numResults, infoList, reapItem, ctorLock,
                hasDisconnect>>
lifeVars   == <<refs, gone>>
worldVars  == <<item, reaperUp, adapterUp>>
threadVars == <<call, calls>>
histVars   == <<counted, results, heard, reported, failedAssert>>
vars == <<objectVars, lifeVars, worldVars, pc, threadVars, histVars>>

Threads == Workers \cup {Client, ReapThread, Stopper}

(* The steps of finished(), in any thread.                                 *)
Finishing == {"exchange", "item", "cancel", "wait", "listener", "disconnect",
              "remove"}

(* A thread in one of these states is executing a member function.         *)
Inside == {"check", "push", "process", "done", "doneFinish", "checkInfo",
           "info", "infoListener"} \cup (Finishing \ {"remove"})

(* ScopeImpl::search() up to the end of add_reply_object().                *)
Connecting == {"new", "assign", "add", "connect"}

Labels == Inside \cup Connecting
          \cup {"idle", "remove", "search", "release", "stopping", "joining",
                "cleanup", "stopped"}

TypeOK ==
    /\ finished \in BOOLEAN
    /\ numPush \in 0..Cardinality(Workers)
    /\ numResults \in 0..MaxCalls
    /\ infoList \subseteq 1..MaxCalls
    /\ reapItem \in BOOLEAN
    /\ ctorLock \in BOOLEAN
    /\ hasDisconnect \in BOOLEAN
    /\ refs \subseteq Workers \cup {Client, Adapter}
    /\ gone \in BOOLEAN
    /\ item \in {"none", "armed", "firing", "fired", "disarmed"}
    /\ reaperUp \in BOOLEAN
    /\ adapterUp \in BOOLEAN
    /\ pc \in [Threads -> Labels]
    /\ call \in [Workers -> 0..MaxCalls]
    /\ calls \in 0..MaxCalls
    /\ counted \subseteq Workers
    /\ results \in 0..MaxCalls
    /\ heard \subseteq 1..MaxCalls
    /\ reported \in Seq(SUBSET (1..MaxCalls))
    /\ failedAssert \in BOOLEAN

Init ==
    /\ finished = FALSE
    /\ numPush = 0
    /\ numResults = 0
    /\ infoList = {}
    /\ reapItem = FALSE
    /\ ctorLock = FALSE
    /\ hasDisconnect = FALSE
    /\ refs = {}
    /\ gone = FALSE
    /\ item = "none"
    /\ reaperUp = TRUE
    /\ adapterUp = TRUE
    /\ pc = [t \in Threads |-> IF t = Client THEN "new" ELSE "idle"]
    /\ call = [w \in Workers |-> 0]
    /\ calls = 0
    /\ counted = {}
    /\ results = 0
    /\ heard = {}
    /\ reported = <<>>
    /\ failedAssert = FALSE

Goto(t, label) == pc' = [pc EXCEPT ![t] = label]

-----------------------------------------------------------------------------
(* Creation, in ScopeImpl::search().                                       *)

(* The constructor up to the end of Reaper::add(), which it calls with     *)
(* mutex_ held.  reply_reaper() locks the mutex that RuntimeImpl::destroy()*)
(* holds, and makes a new reaper when there is none.                       *)
Construct ==
    /\ pc[Client] = "new"
    /\ \/ /\ TRUE \in DontReap
          /\ Goto(Client, "add")
          /\ UNCHANGED <<ctorLock, item, reaperUp>>
       \/ /\ FALSE \in DontReap
          /\ pc[Stopper] \in {"idle", "stopped"}
          /\ ctorLock' = TRUE
          /\ item' = "armed"
          /\ reaperUp' = TRUE
          /\ Goto(Client, "assign")
    /\ refs' = {Client}
    /\ UNCHANGED <<finished, numPush, numResults, infoList, reapItem,
                   hasDisconnect, gone, adapterUp, threadVars, histVars>>

(* The assignment to reap_item_ and the end of the constructor.            *)
Assign ==
    /\ pc[Client] = "assign"
    /\ reapItem' = TRUE
    /\ ctorLock' = FALSE
    /\ Goto(Client, "add")
    /\ UNCHANGED <<finished, numPush, numResults, infoList, hasDisconnect,
                   lifeVars, worldVars, threadVars, histVars>>

(* A reference goes away, and thread t moves on to a label.  The last      *)
(* reference calls the destructor, whose finished() returns at once when   *)
(* finished_ is set.                                                       *)
Drop(t, r, label) ==
    /\ refs' = refs \ {r}
    /\ IF refs = {r} /\ ~finished
       THEN /\ Goto(t, "exchange")
            /\ UNCHANGED gone
       ELSE /\ Goto(t, label)
            /\ gone' = (refs = {r})

(* The adapter's part of add_reply_object(), which throws once the         *)
(* middleware is stopped; the exception ends the search.                   *)
AddServant ==
    /\ pc[Client] = "add"
    /\ IF adapterUp
       THEN /\ refs' = refs \cup {Adapter}
            /\ Goto(Client, "connect")
            /\ UNCHANGED gone
       ELSE Drop(Client, Client, "idle")
    /\ UNCHANGED <<objectVars, worldVars, threadVars, histVars>>

(* The last part of add_reply_object().                                    *)
SetDisconnectFunction ==
    /\ pc[Client] = "connect"
    /\ hasDisconnect' = TRUE
    /\ Goto(Client, "search")
    /\ UNCHANGED <<finished, numPush, numResults, infoList, reapItem, ctorLock,
                   lifeVars, worldVars, threadVars, histVars>>

(* The lambda send_search: it calls finished() if the invocation throws.   *)
SendSearch ==
    /\ pc[Client] = "search"
    /\ \E label \in {"release", "exchange"} : Goto(Client, label)
    /\ UNCHANGED <<objectVars, lifeVars, worldVars, threadVars, histVars>>

-----------------------------------------------------------------------------
(* Calls through the reply adapter.                                        *)

(* An invocation arrives and finds the servant.                            *)
Dispatch(w, label) ==
    /\ pc[w] = "idle"
    /\ pc[Client] \notin Connecting
    /\ calls < MaxCalls
    /\ adapterUp
    /\ Adapter \in refs
    /\ refs' = refs \cup {w}
    /\ calls' = calls + 1
    /\ call' = [call EXCEPT ![w] = calls + 1]
    /\ Goto(w, label)
    /\ UNCHANGED <<objectVars, gone, worldVars, histVars>>

(* The servant goes out of scope at the end of dispatch().                 *)
EndCall(t) ==
    /\ pc[t] = "release"
    /\ Drop(t, t, "idle")
    /\ UNCHANGED <<objectVars, worldVars, threadVars, histVars>>

(* The first test of push() and of info().                                 *)
IgnoreLate(w, label, next) ==
    /\ pc[w] = label
    /\ Goto(w, IF finished THEN "release" ELSE next)
    /\ UNCHANGED <<objectVars, lifeVars, worldVars, threadVars, histVars>>

(* ++num_push_                                                             *)
CountPush(w) ==
    /\ pc[w] = "push"
    /\ ~ctorLock
    /\ numPush' = numPush + 1
    /\ Goto(w, "process")
    /\ UNCHANGED <<finished, numResults, infoList, reapItem, ctorLock,
                   hasDisconnect, lifeVars, worldVars, threadVars, histVars>>

(* Mutant: the limit is compared before it is counted.                     *)
LimitPassed(n) == Cardinality_ # 0 /\ n - 1 > Cardinality_

(* The cardinality test of ResultReplyObject, for the n-th result.         *)
OverLimit(n) == Cardinality_ # 0 /\ n > Cardinality_

(* process_data() with a result: it is counted, and passed to the listener *)
(* unless it is over the limit.  It may throw before or in the listener.   *)
ProcessResult(w) ==
    /\ pc[w] = "process"
    /\ numResults' = numResults + 1
    /\ \/ /\ OverLimit(numResults + 1)
          /\ Goto(w, "doneFinish")
          /\ UNCHANGED results
       \/ /\ ~OverLimit(numResults + 1)
          /\ Goto(w, "done")
          /\ results' = results + 1
       \/ /\ ~OverLimit(numResults + 1)
          /\ Goto(w, "doneFinish")
          /\ results' \in {results, results + 1}
    /\ UNCHANGED <<finished, numPush, infoList, reapItem, ctorLock,
                   hasDisconnect, lifeVars, worldVars, threadVars, counted,
                   heard, reported, failedAssert>>

(* process_data() with anything else, which may throw.                     *)
ProcessOther(w) ==
    /\ pc[w] = "process"
    /\ \E label \in {"done", "doneFinish"} : Goto(w, label)
    /\ UNCHANGED <<objectVars, lifeVars, worldVars, threadVars, histVars>>

(* Mutant: the count is not restored after an error.                       *)
UncountUnlessError(w) ==
    /\ pc[w] \in {"done", "doneFinish"}
    /\ numPush' = IF pc[w] = "done" THEN numPush - 1 ELSE numPush
    /\ counted' = counted \ {w}
    /\ Goto(w, IF pc[w] = "done" THEN "release" ELSE "exchange")
    /\ UNCHANGED <<finished, numResults, infoList, reapItem, ctorLock,
                   hasDisconnect, lifeVars, worldVars, threadVars, results,
                   heard, reported, failedAssert>>

(* Mutant: an error restores the count a second time.                      *)
UncountTwice(w) ==
    /\ pc[w] \in {"done", "doneFinish"}
    /\ numPush' = IF pc[w] = "done" THEN numPush - 1 ELSE numPush - 2
    /\ counted' = counted \ {w}
    /\ Goto(w, IF pc[w] = "done" THEN "release" ELSE "exchange")
    /\ UNCHANGED <<finished, numResults, infoList, reapItem, ctorLock,
                   hasDisconnect, lifeVars, worldVars, threadVars, results,
                   heard, reported, failedAssert>>

(* --num_push_, and finished() after an error or at the limit.             *)
UncountPush(w) ==
    /\ pc[w] \in {"done", "doneFinish"}
    /\ numPush' = numPush - 1
    /\ counted' = counted \ {w}
    /\ Goto(w, IF pc[w] = "done" THEN "release" ELSE "exchange")
    /\ UNCHANGED <<finished, numResults, infoList, reapItem, ctorLock,
                   hasDisconnect, lifeVars, worldVars, threadVars, results,
                   heard, reported, failedAssert>>

(* Mutant: an info is passed on and not recorded.                          *)
ForgetInfo(w) ==
    /\ pc[w] = "info"
    /\ ~ctorLock
    /\ Goto(w, "infoListener")
    /\ UNCHANGED <<objectVars, lifeVars, worldVars, threadVars, histVars>>

(* info_list_.push_back()                                                  *)
AddInfo(w) ==
    /\ pc[w] = "info"
    /\ ~ctorLock
    /\ infoList' = infoList \cup {call[w]}
    /\ Goto(w, "infoListener")
    /\ UNCHANGED <<finished, numPush, numResults, reapItem, ctorLock,
                   hasDisconnect, lifeVars, worldVars, threadVars, histVars>>

(* listener_base_->info()                                                  *)
ListenerInfo(w) ==
    /\ pc[w] = "infoListener"
    /\ heard' = IF reported = <<>> THEN heard \cup {call[w]} ELSE heard
    /\ Goto(w, "release")
    /\ UNCHANGED <<objectVars, lifeVars, worldVars, threadVars, counted,
                   results, reported, failedAssert>>

-----------------------------------------------------------------------------
(* finished(), called by a worker, by the lambda of the search, by the     *)
(* reaper or by the destructor.                                            *)

(* The destructor is the caller that holds no reference.                   *)
InDestructor(t) == t # ReapThread /\ t \notin refs

(* Where a thread goes on after finished().                                *)
Return(t) ==
    /\ Goto(t, IF t \in refs THEN "release"
               ELSE IF t = Stopper THEN "stopped" ELSE "idle")
    /\ item' = IF t = ReapThread THEN "fired" ELSE item

(* Mutant: a load followed by a store, with no test of the old value.      *)
StoreFinished(t) ==
    /\ pc[t] = "exchange"
    /\ finished' = TRUE
    /\ counted' = IF finished THEN counted
                  ELSE {w \in Workers :
                           pc[w] \in {"process", "done", "doneFinish"}}
    /\ Goto(t, "item")
    /\ UNCHANGED <<gone, item, refs>>
    /\ UNCHANGED <<numPush, numResults, infoList, reapItem, ctorLock,
                   hasDisconnect, reaperUp, adapterUp, threadVars, results,
                   heard, reported, failedAssert>>

(* finished_.exchange(true)                                                *)
Exchange(t) ==
    /\ pc[t] = "exchange"
    /\ finished' = TRUE
    /\ IF finished
       THEN /\ Return(t)
            /\ gone' = (gone \/ InDestructor(t))
            /\ UNCHANGED counted
       ELSE /\ Goto(t, "item")
            /\ counted' = {w \in Workers :
                              pc[w] \in {"process", "done", "doneFinish"}}
            /\ UNCHANGED <<gone, item>>
    /\ UNCHANGED <<numPush, numResults, infoList, reapItem, ctorLock,
                   hasDisconnect, refs, reaperUp, adapterUp, threadVars,
                   results, heard, reported, failedAssert>>

(* Read reap_item_ under mutex_.                                           *)
ReadItem(t) ==
    /\ pc[t] = "item"
    /\ ~ctorLock
    /\ Goto(t, IF reapItem THEN "cancel" ELSE "wait")
    /\ UNCHANGED <<objectVars, lifeVars, worldVars, threadVars, histVars>>

(* Mutant: the reaper thread waits for its own pass.                       *)
SelfWait(t) ==
    /\ pc[t] = "cancel"
    /\ item # "firing"
    /\ item' = "disarmed"
    /\ Goto(t, "wait")
    /\ UNCHANGED <<objectVars, lifeVars, reaperUp, adapterUp, threadVars,
                   histVars>>

(* ReapItem::cancel() waits for a pass of the reaper, unless it is called  *)
(* from the callback.                                                      *)
CancelItem(t) ==
    /\ pc[t] = "cancel"
    /\ t # ReapThread => item # "firing"
    /\ item' = IF item = "armed" THEN "disarmed" ELSE item
    /\ Goto(t, "wait")
    /\ UNCHANGED <<objectVars, lifeVars, reaperUp, adapterUp, threadVars,
                   histVars>>

(* Mutant: finished() does not wait for the pushes.                        *)
NoWait(t) ==
    /\ pc[t] = "wait"
    /\ Goto(t, "listener")
    /\ UNCHANGED <<objectVars, lifeVars, worldVars, threadVars, histVars>>

(* idle_.wait()                                                            *)
WaitForPushes(t) ==
    /\ pc[t] = "wait"
    /\ ~ctorLock
    /\ numPush = 0
    /\ Goto(t, "listener")
    /\ UNCHANGED <<objectVars, lifeVars, worldVars, threadVars, histVars>>

(* Tell the application, with the infos so far.  An exception is logged.   *)
ListenerFinished(t) ==
    /\ pc[t] = "listener"
    /\ reported' = Append(reported, infoList)
    /\ Goto(t, "disconnect")
    /\ UNCHANGED <<objectVars, lifeVars, worldVars, threadVars, counted,
                   results, heard, failedAssert>>

(* AbstractObject::disconnect() up to the call of the disconnect function. *)
Disconnect(t) ==
    /\ pc[t] = "disconnect"
    /\ failedAssert' = ~hasDisconnect
    /\ Goto(t, "remove")
    /\ UNCHANGED <<objectVars, lifeVars, worldVars, threadVars, counted,
                   results, heard, reported>>

(* Mutant: the servant stays in the map.                                   *)
KeepServant(t) ==
    /\ pc[t] = "remove"
    /\ gone' = (gone \/ InDestructor(t))
    /\ Return(t)
    /\ UNCHANGED <<objectVars, refs, reaperUp, adapterUp, threadVars, histVars>>

(* ObjectAdapter::remove(), which throws when the adapter is destroyed,    *)
(* and the end of finished().                                              *)
Remove(t) ==
    /\ pc[t] = "remove"
    /\ refs' = IF adapterUp THEN refs \ {Adapter} ELSE refs
    /\ gone' = (gone \/ InDestructor(t) \/ refs' = {})
    /\ Return(t)
    /\ UNCHANGED <<objectVars, reaperUp, adapterUp, threadVars, histVars>>

-----------------------------------------------------------------------------
(* The reaper and the end of the run time.                                 *)

(* The reap item expires and the reaper calls back.                        *)
Expire ==
    /\ pc[ReapThread] = "idle"
    /\ reaperUp
    /\ item = "armed"
    /\ SlowAdd \/ hasDisconnect
    /\ item' = "firing"
    /\ Goto(ReapThread, "exchange")
    /\ UNCHANGED <<objectVars, lifeVars, reaperUp, adapterUp, threadVars,
                   histVars>>

(* RuntimeImpl::destroy() begins.                                          *)
Stop ==
    /\ pc[Stopper] = "idle"
    /\ SlowAdd \/ pc[Client] \notin Connecting
    /\ Goto(Stopper, "stopping")
    /\ UNCHANGED <<objectVars, lifeVars, worldVars, threadVars, histVars>>

(* Mutant: the middleware is stopped before the reaper.                    *)
LeaveReaper ==
    /\ pc[Stopper] = "stopping"
    /\ Goto(Stopper, "joining")
    /\ UNCHANGED <<objectVars, lifeVars, worldVars, threadVars, histVars>>

(* Reaper::destroy() joins the reaper thread, which makes no callbacks on  *)
(* the way out.                                                            *)
JoinReaper ==
    /\ pc[Stopper] = "stopping"
    /\ pc[ReapThread] = "idle"
    /\ reaperUp' = FALSE
    /\ Goto(Stopper, "joining")
    /\ UNCHANGED <<objectVars, lifeVars, item, adapterUp, threadVars, histVars>>

(* The asynchronous searches complete, and the middleware is stopped.      *)
StopMiddleware ==
    /\ pc[Stopper] = "joining"
    /\ pc[Client] \in Connecting \cup {"idle"}
    /\ adapterUp' = FALSE
    /\ Goto(Stopper, "cleanup")
    /\ UNCHANGED <<objectVars, lifeVars, item, reaperUp, threadVars, histVars>>

(* ObjectAdapter::cleanup(): join the workers and drop the servants.       *)
Cleanup ==
    /\ pc[Stopper] = "cleanup"
    /\ \A w \in Workers : pc[w] = "idle"
    /\ IF Adapter \in refs
       THEN Drop(Stopper, Adapter, "stopped")
       ELSE /\ Goto(Stopper, "stopped")
            /\ UNCHANGED lifeVars
    /\ UNCHANGED <<objectVars, worldVars, threadVars, histVars>>

-----------------------------------------------------------------------------
FinishStep(t) ==
    \/ Exchange(t)
    \/ ReadItem(t)
    \/ CancelItem(t)
    \/ WaitForPushes(t)
    \/ ListenerFinished(t)
    \/ Disconnect(t)
    \/ Remove(t)

WorkerStep(w) ==
    \/ IgnoreLate(w, "check", "push")
    \/ CountPush(w)
    \/ ProcessResult(w)
    \/ ProcessOther(w)
    \/ UncountPush(w)
    \/ IgnoreLate(w, "checkInfo", "info")
    \/ AddInfo(w)
    \/ ListenerInfo(w)
    \/ EndCall(w)
    \/ FinishStep(w)

ClientStep ==
    \/ Assign
    \/ AddServant
    \/ SetDisconnectFunction
    \/ SendSearch
    \/ EndCall(Client)
    \/ FinishStep(Client)

ReaperStep == Expire \/ FinishStep(ReapThread)

StopperStep == JoinReaper \/ StopMiddleware \/ Cleanup \/ FinishStep(Stopper)

Next ==
    /\ ~failedAssert
    /\ \/ Construct
       \/ ClientStep
       \/ \E w \in Workers :
             \/ \E label \in {"check", "checkInfo", "exchange"} :
                   Dispatch(w, label)
             \/ WorkerStep(w)
       \/ ReaperStep
       \/ Stop
       \/ StopperStep

Spec == Init /\ [][Next]_vars

(* Threads run, application callbacks return and reap items expire.  That  *)
(* the application searches or stops the run time, or that a message ever  *)
(* arrives, is not assumed.                                                *)
Fairness ==
    /\ WF_vars(ClientStep /\ ~failedAssert)
    /\ WF_vars(ReaperStep /\ ~failedAssert)
    /\ WF_vars(StopperStep /\ ~failedAssert)
    /\ \A w \in Workers : WF_vars(WorkerStep(w) /\ ~failedAssert)

FairSpec == Spec /\ Fairness

-----------------------------------------------------------------------------
(* The listener's finished() is called at most once, however the remote    *)
(* end, a cancel, the reaper, a failing push() and the destructor race     *)
(* (ReplyObject::finished, the exchange of finished_).                     *)
FinishedOnce == Len(reported) <= 1

(* No thread executes a member function of a destroyed ReplyObject: the    *)
(* callback of the reap item holds a raw this pointer, so the reaper must  *)
(* be stopped before the adapter drops its servants                        *)
(* (RuntimeImpl::destroy).                                                 *)
NoUseAfterFree == gone => \A t \in Threads : pc[t] \notin Inside

(* finished() reaches the application only after every push() that was     *)
(* counted when finished_ was set has completed (ReplyObject::finished,    *)
(* the wait for num_push_).                                                *)
CountedPushesFirst ==
    \A t \in Threads : pc[t] = "listener" => counted = {}

(* The details that finished() passes to the application contain every     *)
(* info that the application was told of before, although info() and       *)
(* finished() may run in different threads (ReplyObject::info).            *)
InfosReported == \A i \in DOMAIN reported : heard \subseteq reported[i]

(* An application that asked for a limited number of results never gets    *)
(* more, with several workers (ResultReplyObject::process_data).           *)
ResultsBounded == Cardinality_ # 0 => results <= Cardinality_

(* The listener hears finished() once, after all the pushes that           *)
(* finished() could know of, with all infos and no more results than it    *)
(* asked for, and nobody uses the object after its end (ReplyObject,       *)
(* ResultReplyObject).                                                     *)
ReplySound ==
    /\ TypeOK /\ FinishedOnce /\ NoUseAfterFree
    /\ CountedPushesFirst /\ InfosReported /\ ResultsBounded

(* Every ReplyObject that has a reap item reports finished() and is        *)
(* destroyed in the end, even if the scope never answers and whether or    *)
(* not the run time is stopped (ReplyObject::finished, disconnect; one     *)
(* without a reap item, for a scope that is being debugged, may wait for   *)
(* ever).  None of this can be undone, so that it is enough to ask for it  *)
(* again and again.                                                        *)
EventuallyEnds == []<>(item # "none" => reported # <<>> /\ gone)

(* RuntimeImpl::destroy() returns: the reaper can be joined although it    *)
(* may be in a callback that waits for pushes, and the workers can be      *)
(* joined although one may wait in ReapItem::cancel() for the reaper.      *)
StopReturns == []<>(pc[Stopper] \in {"idle", "stopped"})

(* "push() will not be called once finished() was called."                 *)
(* (the comment in ReplyObject::push).                                     *)
NoPushAfterFinished == [][reported # <<>> => results' = results]_vars
=============================================================================
