---------------------------- MODULE QueueScopes ----------------------------
(* The two example scopes that answer queries from a thread of their own   *)
(* (demo/scopes/scope-C, demo/scopes/scope-D): run() of a query puts its   *)
(* reply proxy in a queue, run() of the scope takes it out and pushes the  *)
(* results.  The reply is finished when the last copy of the proxy goes.   *)
(* Scope C removes a cancelled query from the queue, scope D does not.     *)
EXTENDS Naturals, Sequences, SequencesExt

CONSTANTS Queries,      \* calls of search()
          MaxResults    \* results that the scope pushes for a query

VARIABLES which,        \* "C" or "D"
          queries_,     \* the queue
          done_,        \* Queue::done_
          stopped,      \* done_ of scope D
          asleep,       \* the worker waits for condvar_
          worker,       \* run() of the scope: "loop", "get", "push", "ended"
          current,      \* the query whose reply the worker has, if any
          stopPc,       \* the run time's thread: "serving", "stop", "returned"
          runPc,        \* run() of each query: "none", "sent", "valid", "done"
          cancelPc,     \* cancel() of each query: "none", "cancelled", "returned", "done"
          valid,        \* valid() of each query, and pushable_ of its QueryObject
          pushed,       \* results that the client was sent
          over          \* the client was told that the query has finished

vars == <<which, queries_, done_, stopped, asleep, worker, current, stopPc, runPc,
          cancelPc, valid, pushed, over>>
stopVars == <<which, stopped, stopPc>>

None == "none"

Init ==
    /\ which \in {"C", "D"}
    /\ queries_ = <<>> /\ done_ = FALSE /\ stopped = FALSE /\ asleep = FALSE
    /\ worker = "loop" /\ current = None /\ stopPc = "serving"
    /\ runPc = [q \in Queries |-> "none"] /\ cancelPc = [q \in Queries |-> "none"]
    /\ valid = [q \in Queries |-> TRUE]
    /\ pushed = [q \in Queries |-> 0] /\ over = [q \in Queries |-> FALSE]

(* The run time creates the query.                                         *)
Search(q) ==
    /\ stopPc = "serving" /\ runPc[q] = "none"
    /\ runPc' = [runPc EXCEPT ![q] = "sent"]
    /\ UNCHANGED <<stopVars, queries_, done_, asleep, worker, current, cancelPc, valid,
                   pushed, over>>

(* QueryObject::cancel() has an effect once, and none when the query is    *)
(* over: it takes pushable_ and valid() away, calls cancelled() (below)    *)
(* and finishes the reply if there is one.  The client of a query that did *)
(* not run yet has finished it by itself.                                  *)
CancelArrives(q) ==
    /\ stopPc = "serving" /\ runPc[q] # "none" /\ cancelPc[q] = "none" /\ ~over[q]
    /\ cancelPc' = [cancelPc EXCEPT ![q] = "cancelled"]
    /\ valid' = [valid EXCEPT ![q] = FALSE]
    /\ UNCHANGED <<stopVars, queries_, done_, asleep, worker, current, runPc, pushed, over>>
CancelReturns(q) ==
    /\ cancelPc[q] = "returned"
    /\ cancelPc' = [cancelPc EXCEPT ![q] = "done"]
    /\ over' = [over EXCEPT ![q] = TRUE]
    /\ UNCHANGED <<stopVars, queries_, done_, asleep, worker, current, runPc, valid, pushed>>

(* MyQuery::run(): a query that is cancelled by now does nothing.          *)
Run(q) ==
    /\ runPc[q] = "sent"
    /\ runPc' = [runPc EXCEPT ![q] = IF valid[q] THEN "valid" ELSE "done"]
    /\ UNCHANGED <<stopVars, queries_, done_, asleep, worker, current, cancelPc, valid,
                   pushed, over>>

PutQuietly(q) ==
    /\ runPc[q] = "valid"
    /\ runPc' = [runPc EXCEPT ![q] = "done"]
    /\ queries_' = Append(queries_, q)
    /\ UNCHANGED <<stopVars, done_, asleep, worker, current, cancelPc, valid, pushed, over>>

(* Queue::put() and the return of run().                                   *)
Put(q) ==
    /\ runPc[q] = "valid"
    /\ runPc' = [runPc EXCEPT ![q] = "done"]
    /\ queries_' = Append(queries_, q)
    /\ asleep' = FALSE
    /\ UNCHANGED <<stopVars, done_, worker, current, cancelPc, valid, pushed, over>>

(* MyQuery::cancelled(), with Queue::remove() in scope C: the queue's copy *)
(* of the proxy is the last.                                               *)
Cancelled(q) ==
    /\ cancelPc[q] = "cancelled"
    /\ cancelPc' = [cancelPc EXCEPT ![q] = "returned"]
    /\ IF which = "C"
       THEN /\ queries_' = SelectSeq(queries_, LAMBDA x : x # q)
            /\ over' = [over EXCEPT ![q] = @ \/ Contains(queries_, q)]
       ELSE UNCHANGED <<queries_, over>>
    /\ UNCHANGED <<stopVars, done_, asleep, worker, current, runPc, valid, pushed>>

(* The condition of the worker's loop, which scope C does not have.        *)
Loop ==
    /\ worker = "loop"
    /\ worker' = IF which = "D" /\ stopped THEN "ended" ELSE "get"
    /\ UNCHANGED <<stopVars, queries_, done_, asleep, current, runPc, cancelPc, valid,
                   pushed, over>>

(* Queue::get(): waits for a query or for the end.                         *)
GetSleeps ==
    /\ worker = "get" /\ ~asleep /\ queries_ = <<>> /\ ~done_
    /\ asleep' = TRUE
    /\ UNCHANGED <<stopVars, queries_, done_, worker, current, runPc, cancelPc, valid,
                   pushed, over>>
Get ==
    /\ worker = "get" /\ ~asleep /\ (queries_ # <<>> \/ done_)
    /\ IF done_
       THEN /\ worker' = IF which = "C" THEN "ended" ELSE "loop"
            /\ UNCHANGED <<queries_, current>>
       ELSE /\ worker' = "push"
            /\ current' = Head(queries_) /\ queries_' = Tail(queries_)
    /\ UNCHANGED <<stopVars, done_, asleep, runPc, cancelPc, valid, pushed, over>>

(* The results are pushed until push() returns FALSE; scope D does not     *)
(* begin with a query once it is stopped.  A push may fail when the run    *)
(* time is stopping.                                                       *)
Push ==
    /\ worker = "push" /\ pushed[current] < MaxResults /\ valid[current]
    /\ pushed' = [pushed EXCEPT ![current] = @ + 1]
    /\ UNCHANGED <<stopVars, queries_, done_, asleep, worker, current, runPc, cancelPc,
                   valid, over>>

(* The end of the loop's body: the worker's copy of the proxy is the last. *)
Drop ==
    /\ worker = "push"
    /\ pushed[current] = MaxResults \/ ~valid[current] \/ stopPc # "serving"
    /\ over' = [over EXCEPT ![current] = TRUE]
    /\ current' = None /\ worker' = "loop"
    /\ UNCHANGED <<stopVars, queries_, done_, asleep, runPc, cancelPc, valid, pushed>>

FinishQuietly ==
    /\ stopPc = "serving" /\ \A q \in Queries : runPc[q] \in {"none", "done"}
    /\ \A q \in Queries : cancelPc[q] \in {"none", "done"}
    /\ stopPc' = "stop" /\ done_' = TRUE
    /\ UNCHANGED <<which, stopped, queries_, asleep, worker, current, runPc, cancelPc,
                   valid, pushed, over>>

(* stop() is called when the middleware has ended: Queue::finish(), and in *)
(* scope D its own done_ after that.                                       *)
Finish ==
    /\ stopPc = "serving" /\ \A q \in Queries : runPc[q] \in {"none", "done"}
    /\ \A q \in Queries : cancelPc[q] \in {"none", "done"}
    /\ stopPc' = "stop" /\ done_' = TRUE /\ asleep' = FALSE
    /\ queries_' = <<>>
    /\ over' = [q \in Queries |-> over[q] \/ Contains(queries_, q)]
    /\ UNCHANGED <<which, stopped, worker, current, runPc, cancelPc, valid, pushed>>
Stop ==
    /\ stopPc = "stop" /\ stopPc' = "returned"
    /\ stopped' = (which = "D")
    /\ UNCHANGED <<which, queries_, done_, asleep, worker, current, runPc, cancelPc, valid,
                   pushed, over>>

WorkerStep == Loop \/ GetSleeps \/ Get \/ Push \/ Drop
QueryStep(q) == Run(q) \/ Put(q) \/ Cancelled(q) \/ CancelReturns(q)
Next ==
    \/ WorkerStep \/ Finish \/ Stop
    \/ \E q \in Queries : Search(q) \/ CancelArrives(q) \/ QueryStep(q)

Spec == Init /\ [][Next]_vars
FairSpec ==
    /\ Spec /\ WF_vars(WorkerStep) /\ WF_vars(Stop)
    /\ \A q \in Queries : WF_vars(QueryStep(q))

(* A query that is over without having been cancelled got all its results  *)
(* unless the scope was stopped; and nobody has two copies of it: it is in *)
(* the queue or with the worker (Queue, MyScope::run()).                   *)
ResultsComplete ==
    /\ \A q \in Queries :
         over[q] /\ valid[q] /\ stopPc = "serving" => pushed[q] = MaxResults
    /\ IsInjective(queries_) /\ ~Contains(queries_, current)

(* Every query whose run() was delivered is over some time, whether it is  *)
(* cancelled before, during or after its way through the queue, and leaves *)
(* no entry behind; and the worker ends after stop().  A query that is     *)
(* over stays so: it is enough to settle again and again.                  *)
QueueServes ==
    []<>(/\ \A q \in Queries : runPc[q] # "none" => over[q] /\ ~Contains(queries_, q)
         /\ stopPc # "serving" => worker = "ended")

=============================================================================
