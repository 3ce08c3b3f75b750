------------------------------- MODULE Query --------------------------------
(***************************************************************************)
(* One query from the call of ScopeImpl::search(), or of preview() or one  *)
(* of the activations, to its last object: the client's QueryCtrlImpl and  *)
(* its asynchronous request, the scope's ScopeObject::query(), the         *)
(* QueryObject, QueryCtrlObject and ReplyImpl, and the oneway messages     *)
(* between them.                                                           *)
(*                                                                         *)
(* The reply adapter, the ctrl adapter and the query adapter have one      *)
(* thread each (ZmqMiddleware::find_adapter).  The oneway invocations of a *)
(* process leave it through one thread (oneway_pool), so the messages of   *)
(* one process to the reply object stay in order; messages that different  *)
(* processes send do not.  The reply object is reduced to its outcome: the *)
(* first finished() wins.  Discarded messages, and the reaper that makes   *)
(* up for them, are in module ReplyObject.                                 *)
(***************************************************************************)
EXTENDS Integers, Sequences, FiniteSets, TLAPS

CONSTANTS
    MaxCancels,   \* bound: calls of QueryCtrl::cancel()
    MaxPushes,    \* bound: calls of push() by the scope
    Kinds         \* the methods of Scope that are called, of Methods

VARIABLES
    kind,         \* the method that was called
    pc,           \* what each thread is doing
    ready,        \* QueryCtrlImpl::ready_
    remembered,   \* QueryCtrlImpl::cancelled_
    cancels,      \* the number of calls of cancel()
    answer,       \* the answer to the search request
    toCtrl,       \* messages on the way to the QueryCtrlObject
    runMsg,       \* the run message is on the way to the QueryObject
    toReply,      \* messages on the way to the reply object, by sender
    outcome,      \* what the client's listener was told at the end
    ctrlServant,  \* the QueryCtrlObject: none, in the adapter, or out of it
    destroyed,    \* QueryCtrlObject::destroyed_
    refs,         \* who holds a reference to the QueryObject
    pushable,     \* QueryObject::pushable_
    holders,      \* the threads that hold the reply proxy of the scope
    replyFinished,\* ReplyImpl::finished_
    pushes,       \* the number of calls of push()
    past          \* history: which of the events of Events have happened

clientVars == <<ready, remembered, cancels>>
netVars    == <<toCtrl, runMsg, toReply>>
ctrlVars   == <<ctrlServant, destroyed>>
queryVars  == <<refs, pushable>>
replyVars  == <<holders, replyFinished, pushes>>
clientSide == <<kind, clientVars, answer, outcome>>
scopeSide  == <<ctrlVars, queryVars, replyVars>>
vars == <<kind, pc, clientVars, answer, netVars, outcome, ctrlVars, queryVars,
          replyVars, past>>

(* "lambda" runs send_search in the client's async pool, "user" calls      *)
(* cancel(), "scope" runs ScopeObject::query(), "run" and "ctrl" are the   *)
(* threads of the query and the ctrl adapter, "app" is a thread that the   *)
(* scope starts in its run().                                              *)
Methods == {"search", "preview", "activate", "perform_action", "activate_result_action"}
Threads == {"lambda", "user", "scope", "run", "ctrl", "app"}

ASSUME QueryAssumption ==
    /\ MaxCancels \in Nat /\ MaxPushes \in Nat
    /\ Kinds \subseteq Methods

Senders == {"scope", "client"}
Finals == {"OK", "Cancelled", "Error"}
Events == {"runSent", "started", "cancelArrived", "cancelled", "threw",
           "appFinished", "shared", "forwardFailed", "finishFailed"}

TypeOK ==
    /\ kind \in Kinds \cup {"none"}
    /\ DOMAIN pc = Threads
    /\ ready \in BOOLEAN
    /\ remembered \in BOOLEAN
    /\ cancels \in 0..MaxCancels
    /\ answer \in {"none", "ctrl", "exception"}
    /\ toCtrl \in [{"cancel", "destroy"} -> 0..(MaxCancels + 1)]
    /\ toCtrl["destroy"] <= 1
    /\ runMsg \in BOOLEAN
    /\ toReply \in [Senders -> Seq(Finals \cup {"push"})]
    /\ outcome \in Finals \cup {"none"}
    /\ ctrlServant \in {"none", "in", "out"}
    /\ destroyed \in BOOLEAN
    /\ refs \subseteq {"scope", "adapter", "self", "run", "ctrl", "proxy"}
    /\ pushable \in BOOLEAN
    /\ holders \subseteq {"run", "app", "ctrl"}
    /\ replyFinished \in BOOLEAN
    /\ pushes \in 0..MaxPushes
    /\ past \subseteq Events

Init ==
    /\ kind = "none"
    /\ pc = [t \in Threads |-> IF t = "lambda" THEN "start" ELSE "idle"]
    /\ ready = FALSE
    /\ remembered = FALSE
    /\ cancels = 0
    /\ answer = "none"
    /\ toCtrl = [m \in {"cancel", "destroy"} |-> 0]
    /\ runMsg = FALSE
    /\ toReply = [s \in Senders |-> <<>>]
    /\ outcome = "none"
    /\ ctrlServant = "none"
    /\ destroyed = FALSE
    /\ refs = {}
    /\ pushable = TRUE
    /\ holders = {}
    /\ replyFinished = FALSE
    /\ pushes = 0
    /\ past = {}

-----------------------------------------------------------------------------
(* Helpers.                                                                *)

Goto(t, label) == pc' = [pc EXCEPT ![t] = label]
Happened(e) == past' = past \cup {e}

(* invoke_oneway_(): the message is written.                               *)
SendReply(s, m) ==
    /\ toReply' = [toReply EXCEPT ![s] = Append(@, m)]
    /\ UNCHANGED <<toCtrl, runMsg>>
SendCtrl(m) ==
    /\ toCtrl' = [toCtrl EXCEPT ![m] = @ + 1]
    /\ UNCHANGED <<runMsg, toReply>>

(* Mutant: the destroy message is sent whenever there is no reference.     *)
UnrefAgain(gone) ==
    /\ refs' = refs \ gone
    /\ IF refs' = {} THEN SendCtrl("destroy") ELSE UNCHANGED netVars

(* References to the QueryObject go away; the last one calls ~QueryObject, *)
(* which tells the ctrl object to destroy itself.                          *)
Unref(gone) ==
    /\ refs' = refs \ gone
    /\ IF refs' = {} /\ refs # {}
       THEN SendCtrl("destroy")
       ELSE UNCHANGED netVars

-----------------------------------------------------------------------------
(* The client.                                                             *)

(* A method of ScopeImpl and the lambda that it gives to the async pool:   *)
(* the request reaches the scope, or does not.                             *)
Send(method) ==
    /\ pc["lambda"] = "start"
    /\ method \in Kinds
    /\ kind' = method
    /\ \E label \in {"query", "idle"} :
          pc' = [pc EXCEPT !["lambda"] = "waiting", !["scope"] = label]
    /\ UNCHANGED <<scopeSide, clientVars, answer, outcome, netVars, past>>

StartSearch == Send("search")
StartPreview == Send("preview")
StartActivate == Send("activate")
StartPerformAction == Send("perform_action")
StartActivateResultAction == Send("activate_result_action")

StartCall == StartSearch \/ StartPreview \/ StartActivate \/ StartPerformAction \/ StartActivateResultAction

(* The request throws, because the scope answered with an exception or     *)
(* because it timed out, and the lambda finishes the reply object.         *)
SearchThrows ==
    /\ pc["lambda"] = "waiting"
    /\ outcome' = IF outcome = "none" THEN "Error" ELSE outcome
    /\ Goto("lambda", "done")
    /\ UNCHANGED <<scopeSide, kind, clientVars, answer, netVars, past>>

(* Mutant: set_proxy() forgets a cancel() that came too early.             *)
SetProxyOnly ==
    /\ pc["lambda"] = "waiting"
    /\ answer = "ctrl"
    /\ ready' = TRUE
    /\ Goto("lambda", "done")
    /\ UNCHANGED <<scopeSide, kind, remembered, cancels, answer, netVars,
                   outcome, past>>

(* QueryCtrlImpl::set_proxy() with the proxy that search() returned.       *)
SetProxy ==
    /\ pc["lambda"] = "waiting"
    /\ answer = "ctrl"
    /\ ready' = TRUE
    /\ Goto("lambda", IF remembered THEN "cancel" ELSE "done")
    /\ UNCHANGED <<scopeSide, kind, remembered, cancels, answer, netVars,
                   outcome, past>>

(* The application calls cancel().                                         *)
CallCancel ==
    /\ pc["user"] = "idle"
    /\ cancels < MaxCancels
    /\ cancels' = cancels + 1
    /\ Goto("user", "cancel")
    /\ UNCHANGED <<scopeSide, kind, ready, remembered, answer, netVars,
                   outcome, past>>

CancelReturn(t) == Goto(t, IF t = "user" THEN "idle" ELSE "done")

(* QueryCtrlImpl::cancel() up to the end of fwd()->cancel(), which may     *)
(* throw.                                                                  *)
Cancel(t) ==
    /\ pc[t] = "cancel"
    /\ \/ /\ ~ready
          /\ remembered' = TRUE
          /\ CancelReturn(t)
          /\ UNCHANGED <<netVars, past>>
       \/ /\ ready
          /\ SendCtrl("cancel")
          /\ Goto(t, "finish")
          /\ UNCHANGED <<remembered, past>>
       \/ /\ ready
          /\ CancelReturn(t)
          /\ Happened("forwardFailed")
          /\ UNCHANGED <<netVars, remembered>>
    /\ UNCHANGED <<scopeSide, kind, ready, cancels, answer, outcome>>

(* Mutant: cancel() relies on the scope to report the end of the query.    *)
CancelOnlyForwards(t) ==
    /\ pc[t] = "finish"
    /\ CancelReturn(t)
    /\ UNCHANGED <<scopeSide, clientSide, netVars, past>>

(* reply_proxy_->finished(), to ourselves; it may throw, too.              *)
CancelFinish(t) ==
    /\ pc[t] = "finish"
    /\ \/ SendReply("client", "Cancelled") /\ UNCHANGED past
       \/ Happened("finishFailed") /\ UNCHANGED netVars
    /\ CancelReturn(t)
    /\ UNCHANGED <<scopeSide, clientSide>>

(* The reply adapter delivers a message to the reply object.               *)
Deliver(s) ==
    /\ toReply[s] # <<>>
    /\ toReply' = [toReply EXCEPT ![s] = Tail(@)]
    /\ outcome' = IF outcome = "none" /\ Head(toReply[s]) # "push"
                  THEN Head(toReply[s]) ELSE outcome
    /\ UNCHANGED <<scopeSide, kind, pc, clientVars, answer, toCtrl, runMsg,
                   past>>

-----------------------------------------------------------------------------
(* ScopeObject::query(), which the methods of ScopeObject call.            *)

(* The object that the method makes for the query.                         *)
QueryClass ==
    CASE kind = "search" -> "QueryObject"
      [] kind = "preview" -> "PreviewQueryObject"
      [] OTHER -> "ActivationQueryObject"

(* The scope's factory throws, and the client gets the exception.          *)
FactoryThrows ==
    /\ pc["scope"] = "query"
    /\ answer' = "exception"
    /\ Goto("scope", "idle")
    /\ UNCHANGED <<scopeSide, kind, clientVars, netVars, outcome, past>>

(* The ctrl object and the QueryObject are created and connected, the      *)
(* QueryObject gets a reference to itself, and the run message is sent.    *)
(* Nobody else knows of the objects before the run message is sent.        *)
StartQuery ==
    /\ pc["scope"] = "query"
    /\ ctrlServant' = "in"
    /\ refs' = {"scope", "adapter", "self"}
    /\ runMsg' = TRUE
    /\ Happened("runSent")
    /\ Goto("scope", "return")
    /\ UNCHANGED <<clientSide, toCtrl, toReply, destroyed, pushable,
                   replyVars>>

(* The catch blocks: finished(Error) to the client, and the exception.     *)
(* When add_query_ctrl_object() throws there is nothing to clean up; when  *)
(* add_query_object() throws, ~QueryObject destroys the ctrl object; when  *)
(* the run message cannot be sent, both objects stay.                      *)
QueryFails ==
    /\ pc["scope"] = "query"
    /\ \/ UNCHANGED <<ctrlServant, refs, toCtrl>>
       \/ /\ ctrlServant' = "in"
          /\ toCtrl' = [toCtrl EXCEPT !["destroy"] = @ + 1]
          /\ UNCHANGED refs
       \/ /\ ctrlServant' = "in"
          /\ refs' = {"adapter", "self"}
          /\ UNCHANGED toCtrl
    /\ toReply' = [toReply EXCEPT !["scope"] = Append(@, "Error")]
    /\ answer' = "exception"
    /\ Goto("scope", "idle")
    /\ UNCHANGED <<kind, clientVars, runMsg, outcome, destroyed, pushable,
                   replyVars, past>>

(* query() goes out of scope and its answer is sent.                       *)
QueryReturns ==
    /\ pc["scope"] = "return"
    /\ Unref({"scope"})
    /\ answer' = "ctrl"
    /\ Goto("scope", "idle")
    /\ UNCHANGED <<kind, clientVars, outcome, ctrlVars, pushable, replyVars,
                   past>>

-----------------------------------------------------------------------------
(* The thread of the query adapter.                                        *)

DispatchRun ==
    /\ pc["run"] = "idle"
    /\ runMsg
    /\ runMsg' = FALSE
    /\ refs' = refs \cup {"run"}
    /\ Goto("run", "run")
    /\ UNCHANGED <<clientSide, toCtrl, toReply, ctrlVars, pushable, replyVars,
                   past>>

(* run() of a QueryObject up to the call of the scope's run(), with mutex_ *)
(* held.                                                                   *)
RunQuery ==
    /\ pc["run"] = "run"
    /\ IF pushable
       THEN /\ "self" \in refs  \* assert(self_)
            /\ holders' = {"run"}
            /\ refs' = (refs \ {"self", "adapter"}) \cup {"proxy"}
            /\ Goto("run", "app")
            /\ Happened("started")
       ELSE /\ refs' = refs \ {"self", "adapter"}
            /\ Goto("run", "end")
            /\ UNCHANGED <<holders, past>>
    /\ UNCHANGED <<clientSide, netVars, ctrlVars, pushable, replyFinished,
                   pushes>>

(* QueryObject::run(), and PreviewQueryObject::run(), which does the same. *)
Run == QueryClass = "QueryObject" /\ RunQuery
RunPreview == QueryClass = "PreviewQueryObject" /\ RunQuery

(* ActivationQueryObject::run() up to the end of activate(), which may     *)
(* throw.                                                                  *)
Activate ==
    /\ pc["run"] = "run"
    /\ QueryClass = "ActivationQueryObject"
    /\ "self" \in refs  \* assert(self_)
    /\ refs' = refs \ {"self", "adapter"}
    /\ \E label \in {"pushResponse", "sendError"} : Goto("run", label)
    /\ UNCHANGED <<clientSide, netVars, ctrlVars, pushable, replyVars, past>>

(* The response of an activation is pushed, and then the end of it.        *)
ActivationReply ==
    /\ \/ /\ pc["run"] = "pushResponse"
          /\ SendReply("scope", "push")
          /\ Goto("run", "activated")
       \/ /\ pc["run"] = "activated"
          /\ SendReply("scope", "OK")
          /\ Goto("run", "end")
    /\ UNCHANGED <<scopeSide, clientSide, past>>

(* The scope's run() returns.                                              *)
RunReturns ==
    /\ pc["run"] = "app"
    /\ Goto("run", "drop")
    /\ UNCHANGED <<scopeSide, clientSide, netVars, past>>

(* Mutant: the reply proxy is gone by the time the exception is handled.   *)
RunThrowsAway ==
    /\ pc["run"] = "app"
    /\ pushable' = FALSE
    /\ Happened("threw")
    /\ Goto("run", "drop")
    /\ UNCHANGED <<clientSide, netVars, ctrlVars, refs, replyVars>>

(* The scope's run() throws.                                               *)
RunThrows ==
    /\ pc["run"] = "app"
    /\ pushable' = FALSE
    /\ Happened("threw")
    /\ Goto("run", "sendError")
    /\ UNCHANGED <<clientSide, netVars, ctrlVars, refs, replyVars>>

(* finished(Error) in the handlers of run().                               *)
SendError ==
    /\ pc["run"] = "sendError"
    /\ SendReply("scope", "Error")
    /\ Goto("run", IF QueryClass = "ActivationQueryObject" THEN "end" ELSE "drop")
    /\ UNCHANGED <<scopeSide, clientSide, past>>

(* dispatch() drops its reference to the servant.                          *)
EndRun ==
    /\ pc["run"] = "end"
    /\ Unref({"run"})
    /\ Goto("run", "idle")
    /\ UNCHANGED <<clientSide, ctrlVars, pushable, replyVars, past>>

-----------------------------------------------------------------------------
(* The scope's code, in its run() and in a thread of its own, and the      *)
(* ReplyImpl it uses.                                                      *)

(* run() leaves a copy of the reply proxy to a thread.                     *)
ShareProxy ==
    /\ pc["run"] = "app"
    /\ pc["app"] = "idle"
    /\ "shared" \notin past
    /\ holders' = holders \cup {"app"}
    /\ pc' = [pc EXCEPT !["app"] = "app"]
    /\ Happened("shared")
    /\ UNCHANGED <<clientSide, netVars, ctrlVars, queryVars, replyFinished,
                   pushes>>

(* The thread lets go of the reply proxy.                                  *)
ThreadEnds ==
    /\ pc["app"] = "app"
    /\ Goto("app", "drop")
    /\ UNCHANGED <<scopeSide, clientSide, netVars, past>>

(* Mutant: push() asks only whether finished() was called.                 *)
PushUnchecked(t) ==
    /\ pc[t] = "app"
    /\ pushes < MaxPushes
    /\ pushes' = pushes + 1
    /\ Goto(t, "pushable")
    /\ UNCHANGED <<clientSide, netVars, ctrlVars, queryVars, holders,
                   replyFinished, past>>

(* push(), the test of pushable().                                         *)
PushCheck(t) ==
    /\ pc[t] = "app"
    /\ pushes < MaxPushes
    /\ pushes' = pushes + 1
    /\ Goto(t, IF pushable THEN "pushable" ELSE "app")
    /\ UNCHANGED <<clientSide, netVars, ctrlVars, queryVars, holders,
                   replyFinished, past>>

(* push(), the test of finished_.                                          *)
PushTest(t) ==
    /\ pc[t] = "pushable"
    /\ Goto(t, IF replyFinished THEN "app" ELSE "push")
    /\ UNCHANGED <<scopeSide, clientSide, netVars, past>>

(* push(), the sending; an exception becomes error(), which begins with    *)
(* the exchange of finished_.                                              *)
PushSend(t) ==
    /\ pc[t] = "push"
    /\ \/ /\ SendReply("scope", "push")
          /\ Goto(t, "app")
          /\ UNCHANGED replyFinished
       \/ /\ replyFinished' = TRUE
          /\ Goto(t, IF replyFinished THEN "app" ELSE "error")
          /\ UNCHANGED netVars
    /\ UNCHANGED <<clientSide, ctrlVars, queryVars, holders, pushes, past>>

(* The end of error().                                                     *)
PushError(t) ==
    /\ pc[t] = "error"
    /\ SendReply("scope", "Error")
    /\ Goto(t, "app")
    /\ UNCHANGED <<scopeSide, clientSide, past>>

(* finished(), called by the scope.                                        *)
AppFinished(t) ==
    /\ pc[t] = "app"
    /\ ~replyFinished
    /\ replyFinished' = TRUE
    /\ Happened("appFinished")
    /\ Goto(t, "ok")
    /\ UNCHANGED <<clientSide, netVars, ctrlVars, queryVars, holders, pushes>>

SendOK(t) ==
    /\ pc[t] = "ok"
    /\ SendReply("scope", "OK")
    /\ Goto(t, "app")
    /\ UNCHANGED <<scopeSide, clientSide, past>>

(* Where a thread goes on after it has let go of the reply proxy.          *)
AfterDrop(t) == CASE t = "run" -> "end" [] t = "ctrl" -> "unref" [] OTHER -> "idle"

(* A thread lets go of the reply proxy.  The last one calls ~ReplyImpl,    *)
(* whose finished() is the exchange of finished_ and the sending.  From    *)
(* then on the weak pointer to the proxy cannot be locked.                 *)
DropProxy(t) ==
    /\ pc[t] = "drop"
    /\ holders' = holders \ {t}
    /\ IF holders = {t} /\ ~replyFinished
       THEN /\ replyFinished' = TRUE
            /\ Goto(t, "lastOk")
            /\ UNCHANGED <<refs, netVars>>
       ELSE /\ Goto(t, AfterDrop(t))
            /\ IF holders = {t} THEN Unref({"proxy"})
                                ELSE UNCHANGED <<refs, netVars>>
            /\ UNCHANGED replyFinished
    /\ UNCHANGED <<clientSide, ctrlVars, pushable, pushes, past>>

SendLastOK(t) ==
    /\ pc[t] = "lastOk"
    /\ SendReply("scope", "OK")
    /\ Goto(t, "release")
    /\ UNCHANGED <<scopeSide, clientSide, past>>

(* The end of ~ReplyImpl: its reference to the QueryObject goes away.      *)
ReleaseQuery(t) ==
    /\ pc[t] = "release"
    /\ Unref({"proxy"})
    /\ Goto(t, AfterDrop(t))
    /\ UNCHANGED <<clientSide, ctrlVars, pushable, replyVars, past>>

-----------------------------------------------------------------------------
(* The thread of the ctrl adapter.                                         *)

(* A message arrives; one for a servant that is gone is dropped.           *)
DispatchCtrl(m) ==
    /\ pc["ctrl"] = "idle"
    /\ toCtrl[m] > 0
    /\ toCtrl' = [toCtrl EXCEPT ![m] = @ - 1]
    /\ Goto("ctrl", IF ctrlServant = "in" THEN m ELSE "idle")
    /\ past' = past \cup (IF m = "cancel" THEN {"cancelArrived"} ELSE {})
    /\ UNCHANGED <<scopeSide, clientSide, runMsg, toReply>>

(* Mutant: destroy() leaves the servant in the adapter.                    *)
CtrlDestroyedOnly ==
    /\ pc["ctrl"] = "destroy"
    /\ destroyed' = TRUE
    /\ Goto("ctrl", "idle")
    /\ UNCHANGED <<clientSide, netVars, ctrlServant, queryVars, replyVars,
                   past>>

(* QueryCtrlObject::destroy().                                             *)
CtrlDestroy ==
    /\ pc["ctrl"] = "destroy"
    /\ destroyed' = TRUE
    /\ ctrlServant' = IF destroyed THEN ctrlServant ELSE "out"
    /\ Goto("ctrl", "idle")
    /\ UNCHANGED <<clientSide, netVars, queryVars, replyVars, past>>

(* QueryCtrlObject::cancel(), and the locked part of QueryObject::cancel() *)
(* if the weak pointer to the QueryObject can still be locked.             *)
CtrlCancel ==
    /\ pc["ctrl"] = "cancel"
    /\ destroyed' = TRUE
    /\ LET locked == ~destroyed /\ refs # {}
       IN  /\ refs' = IF locked THEN refs \cup {"ctrl"} ELSE refs
           /\ pushable' = (pushable /\ ~locked)
           /\ Goto("ctrl", CASE destroyed -> "idle"
                             [] locked /\ pushable -> "base"
                             [] OTHER -> "unref")
    /\ UNCHANGED <<clientSide, netVars, ctrlServant, replyVars, past>>

(* QueryBase::cancel() calls the scope's cancelled(), which may throw;     *)
(* then the weak pointer to the reply proxy is locked.                     *)
BaseCancel ==
    /\ pc["ctrl"] = "base"
    /\ Happened("cancelled")
    /\ \/ /\ holders' = IF holders = {} THEN {} ELSE holders \cup {"ctrl"}
          /\ Goto("ctrl", IF holders = {} THEN "unref" ELSE "sendCancelled")
       \/ /\ Goto("ctrl", "sendCancelled")
          /\ UNCHANGED holders
    /\ UNCHANGED <<clientSide, netVars, ctrlVars, queryVars, replyFinished,
                   pushes>>

SendCancelled ==
    /\ pc["ctrl"] = "sendCancelled"
    /\ SendReply("scope", "Cancelled")
    /\ Goto("ctrl", IF "ctrl" \in holders THEN "drop" ELSE "unref")
    /\ UNCHANGED <<scopeSide, clientSide, past>>

(* The end of QueryCtrlObject::cancel(), with disconnect().                *)
CtrlDisconnect ==
    /\ pc["ctrl"] = "unref"
    /\ Unref({"ctrl"})
    /\ ctrlServant' = "out"
    /\ Goto("ctrl", "idle")
    /\ UNCHANGED <<clientSide, destroyed, pushable, replyVars, past>>

-----------------------------------------------------------------------------
CancelStep(t) == Cancel(t) \/ CancelFinish(t)
ProxyStep(t) ==
    \/ PushCheck(t)
    \/ PushTest(t)
    \/ PushSend(t)
    \/ PushError(t)
    \/ AppFinished(t)
    \/ SendOK(t)
    \/ DropProxy(t)
    \/ SendLastOK(t)
    \/ ReleaseQuery(t)

LambdaStep == SearchThrows \/ SetProxy \/ CancelStep("lambda")
ScopeStep == FactoryThrows \/ StartQuery \/ QueryFails \/ QueryReturns
RunStep ==
    \/ DispatchRun
    \/ Run
    \/ RunPreview
    \/ Activate
    \/ ActivationReply
    \/ RunReturns
    \/ RunThrows
    \/ SendError
    \/ EndRun
    \/ ShareProxy
    \/ ProxyStep("run")
AppStep == ThreadEnds \/ ProxyStep("app")
CtrlStep ==
    \/ \E m \in {"cancel", "destroy"} : DispatchCtrl(m)
    \/ CtrlDestroy
    \/ CtrlCancel
    \/ BaseCancel
    \/ SendCancelled
    \/ DropProxy("ctrl")
    \/ SendLastOK("ctrl")
    \/ ReleaseQuery("ctrl")
    \/ CtrlDisconnect
ReplyStep == \E s \in Senders : Deliver(s)

Next ==
    \/ StartCall
    \/ LambdaStep
    \/ CallCancel
    \/ CancelStep("user")
    \/ ScopeStep
    \/ RunStep
    \/ AppStep
    \/ CtrlStep
    \/ ReplyStep

Spec == Init /\ [][Next]_vars

(* The threads of the run time run, a request that is not answered times   *)
(* out, and the scope returns from its callbacks and lets go of its reply  *)
(* proxies.  Nobody has to call cancel().                                  *)
Fairness ==
    /\ WF_vars(StartCall)
    /\ WF_vars(LambdaStep)
    /\ WF_vars(CancelStep("user"))
    /\ WF_vars(ScopeStep)
    /\ WF_vars(RunStep)
    /\ WF_vars(AppStep)
    /\ WF_vars(CtrlStep)
    /\ WF_vars(ReplyStep)

FairSpec == Spec /\ Fairness

-----------------------------------------------------------------------------
(* Once the scope's cancelled() has been called, its run() is not called   *)
(* any more and no call of push() is accepted (QueryObject::cancel, the    *)
(* tests of pushable_ in QueryObject::run and ReplyImpl::push).            *)
QuietAfterCancelled ==
    /\ {"started", "cancelled"} \subseteq past' => "started" \in past
    /\ \A t \in Threads : pc[t] = "app" /\ pc'[t] = "pushable" => "cancelled" \notin past
NothingAfterCancelled == [][QuietAfterCancelled]_vars

(* The client is told OK for a query whose run() threw only if the scope  *)
(* called finished() itself or shared the reply proxy with another thread: *)
(* the proxy that run() holds outlives the report of the error             *)
(* (QueryObject::run).                                                     *)
ErrorReported ==
    outcome = "OK" /\ "threw" \in past =>
       {"appFinished", "shared"} \cap past # {}

(* The client of every search is told the end of it, without the help of   *)
(* its reaper, unless cancel() fails half way; also of a query that is     *)
(* cancelled before it runs, for which the scope sends nothing             *)
(* (QueryCtrlImpl::cancel).                                                *)
Answered ==
    []<>(outcome # "none" \/ {"forwardFailed", "finishFailed"} \cap past # {})

(* After a query was started, its QueryObject and its QueryCtrlObject go   *)
(* away, in whatever order run(), cancel(), the last reply proxy and the   *)
(* destroy message come (QueryObject::set_self and ~QueryObject).          *)
Released ==
    []<>("runSent" \in past => refs = {} /\ ctrlServant = "out")

(* A cancel() of a query that the scope accepted is forwarded to the       *)
(* scope, also if it comes before the answer of the scope                  *)
(* (QueryCtrlImpl::cancel and set_proxy).                                  *)
CancelDelivered ==
    []<>(cancels > 0 =>
            \/ {"cancelArrived", "forwardFailed"} \cap past # {}
            \/ (pc["lambda"] = "done" /\ ~ready))

(* The client is told OK for a query whose run() threw only if the scope   *)
(* itself called finished() or shared the proxy, and nothing is pushed     *)
(* once the scope was told of the cancellation (QueryObject::run,          *)
(* QueryObject::cancel, ReplyImpl::push; ErrorReported and                 *)
(* NothingAfterCancelled in Query).                                        *)
QueryOutcome == [](TypeOK /\ ErrorReported) /\ NothingAfterCancelled

(* The client hears the end of every query, both servants go away, and a   *)
(* cancel() reaches the scope, also one that came too early                *)
(* (QueryCtrlImpl, QueryObject::set_self and ~QueryObject; Answered,       *)
(* Released and CancelDelivered in Query).                                 *)
QueryEnds == Answered /\ Released /\ CancelDelivered

-----------------------------------------------------------------------------
(* The proofs. The invariant has four parts that only speak of the state   *)
(* of the threads and objects (Safe), and one, Story, that follows the     *)
(* messages on the way to the client.                                      *)

(* The labels of the threads.                                              *)
Labels == {"start", "waiting", "cancel", "finish", "done", "idle", "query",
           "return", "run", "app", "pushable", "push", "error", "ok", "sendError", "drop",
           "lastOk", "release", "end", "pushResponse", "activated", "destroy",
           "base", "sendCancelled", "unref"}

(* The query is an activation, which uses no reply proxy.                  *)
Activation == QueryClass = "ActivationQueryObject"

(* ScopeObject::query() has not been executed.                             *)
Fresh == pc["lambda"] = "start" \/ pc["scope"] = "query"

(* Every call of cancel(), and set_proxy() at most once, sends one cancel  *)
(* message; the last reference to the QueryObject goes away only once,     *)
(* because until the run message has arrived the object refers to itself.  *)
Sent ==
    /\ toCtrl["cancel"] + (IF pc["user"] = "cancel" THEN 1 ELSE 0)
          + (IF pc["lambda"] \in {"start", "waiting", "cancel"} THEN 1 ELSE 0)
         <= cancels + 1
    /\ refs # {} \/ Fresh => toCtrl["destroy"] = 0
    /\ runMsg => pc["run"] = "idle" /\ "self" \in refs
    /\ pc["run"] = "run" => "run" \in refs

(* What cannot have happened before query() is executed.                   *)
Before ==
    /\ pc["lambda"] = "start" =>
          /\ pc["scope"] = "idle" /\ outcome = "none" /\ ~ready
          /\ pc["user"] # "finish" /\ toReply["client"] = <<>>
    /\ Fresh => /\ pc["run"] = "idle" /\ pc["app"] = "idle" /\ pc["ctrl"] = "idle"
                /\ ctrlServant = "none" /\ refs = {} /\ holders = {} /\ ~runMsg
                /\ "started" \notin past /\ toReply["scope"] = <<>>

(* Which thread holds the reply proxy at which point, and what must have   *)
(* happened before; the scope is told of a cancellation only after         *)
(* pushable_ is cleared.                                                   *)
Proxy ==
    /\ "started" \in past => ~Activation /\ "self" \notin refs
    /\ holders # {} \/ "threw" \in past => "started" \in past
    /\ pc["run"] \in {"app", "pushable", "push", "error", "ok", "drop"} => "run" \in holders
    /\ pc["run"] = "sendError" => Activation \/ "run" \in holders
    /\ pc["run"] \in {"pushResponse", "activated"} => Activation
    /\ \A t \in {"run", "ctrl"} :
          pc[t] = "lastOk" => holders = {} /\ "started" \in past
    /\ pc["app"] # "idle" => "shared" \in past
    /\ pc["run"] = "ok" => "appFinished" \in past
    /\ pc["ctrl"] = "base" \/ "cancelled" \in past => ~pushable

(* The first message of q that is not a push says OK; q has only pushes.   *)
OkFirst(q) ==
    \E i \in 1..Len(q) : q[i] = "OK" /\ \A j \in 1..(i - 1) : q[j] = "push"
AllPush(q) == \A i \in 1..Len(q) : q[i] = "push"

(* The scope has neither called finished() nor shared its reply proxy.     *)
NoHelp == {"appFinished", "shared"} \cap past = {}

(* run() has not let go of the reply proxy yet, so its error would come    *)
(* before the OK of ~ReplyImpl; the error of a run() that threw was sent.  *)
Pending == NoHelp /\ ~Activation /\ ("started" \notin past \/ "run" \in holders)
Reported == NoHelp /\ "threw" \in past /\ pc["run"] # "sendError"

(* What the messages on the way, taken in order, will make of the outcome: *)
(* not OK while run() holds the proxy, and once the error is sent not even *)
(* when ~ReplyImpl sends its OK after it.                                  *)
Story ==
    /\ \A i \in 1..Len(toReply["client"]) : toReply["client"][i] = "Cancelled"
    /\ Pending => /\ outcome # "OK"
                  /\ outcome = "none" => ~OkFirst(toReply["scope"])
    /\ Reported => /\ outcome # "OK"
                   /\ outcome = "none" => /\ ~OkFirst(toReply["scope"])
                                          /\ ~AllPush(toReply["scope"])

Types == TypeOK /\ pc \in [Threads -> Labels]
Safe == Types /\ Sent /\ Before /\ Proxy
IInv == Safe /\ Story

(* A step that adds no message and leaves Story as it is.                  *)
Quiet == UNCHANGED <<toReply, outcome>> /\ (Pending' => Pending) /\ (Reported' => Reported)

(* The class of the QueryObject depends on the method only (ScopeObject).  *)
LEMMA ClassKept == ASSUME UNCHANGED kind PROVE QueryClass' = QueryClass
  BY DEF QueryClass

(* Where each thread goes on after ~ReplyImpl.                             *)
LEMMA AfterDropIs ==
    /\ AfterDrop("run") = "end" /\ AfterDrop("ctrl") = "unref" /\ AfterDrop("app") = "idle"
  BY DEF AfterDrop

(* A oneway message keeps the type of the queues to the reply object.      *)
LEMMA ReplyKept ==
    ASSUME toReply \in [Senders -> Seq(Finals \cup {"push"})],
           NEW s \in Senders, NEW m \in Finals \cup {"push"}
    PROVE  [toReply EXCEPT ![s] = Append(@, m)] \in [Senders -> Seq(Finals \cup {"push"})]
  OBVIOUS

(* The steps of the client keep Safe (ScopeImpl, QueryCtrlImpl, and the    *)
(* reply adapter).                                                         *)
LEMMA ClientSafe ==
    ASSUME Safe, StartCall \/ LambdaStep \/ CallCancel \/ CancelStep("user") \/ ReplyStep
    PROVE  Safe'
<1> USE QueryAssumption DEF Safe, Types, Goto, Happened, Threads, Labels,
    clientVars, netVars, ctrlVars, queryVars, replyVars, scopeSide, clientSide
<1>1. ASSUME StartCall PROVE Safe'
  <2>1. PICK label \in {"query", "idle"} :
           pc' = [pc EXCEPT !["lambda"] = "waiting", !["scope"] = label]
    BY <1>1 DEF StartCall, StartSearch, StartPreview, StartActivate,
        StartPerformAction, StartActivateResultAction, Send
  <2>2. /\ pc["lambda"] = "start" /\ kind' \in Kinds
        /\ UNCHANGED <<scopeSide, clientVars, answer, outcome, netVars, past>>
    BY <1>1 DEF StartCall, StartSearch, StartPreview, StartActivate,
        StartPerformAction, StartActivateResultAction, Send
  <2>3. Types'
    BY <2>1, <2>2 DEF TypeOK
  <2>4. Sent' /\ Before' /\ Proxy'
    BY <2>1, <2>2 DEF Sent, Before, Proxy, Fresh, TypeOK
  <2>5. QED
    BY <2>3, <2>4
<1>2. ASSUME SearchThrows PROVE Safe'
  <2>1. Types'
    BY <1>2 DEF SearchThrows, TypeOK, Senders, Finals, Events
  <2>2. Sent' /\ Before' /\ Proxy'
    BY <1>2, ClassKept DEF SearchThrows, TypeOK, Senders, Sent, Before,
        Proxy, Fresh, Activation
  <2>3. QED
    BY <2>1, <2>2
<1>3. ASSUME SetProxy PROVE Safe'
  <2>1. Types'
    BY <1>3 DEF SetProxy, TypeOK, Senders, Finals, Events
  <2>2. Sent' /\ Before' /\ Proxy'
    BY <1>3, ClassKept DEF SetProxy, TypeOK, Senders, Sent, Before, Proxy,
        Fresh, Activation
  <2>3. QED
    BY <2>1, <2>2
<1>4. ASSUME CallCancel PROVE Safe'
  <2>1. Types'
    BY <1>4 DEF CallCancel, TypeOK, Senders, Finals, Events
  <2>2. Sent' /\ Before' /\ Proxy'
    BY <1>4, ClassKept DEF CallCancel, TypeOK, Senders, Sent, Before, Proxy,
        Fresh, Activation
  <2>3. QED
    BY <2>1, <2>2
<1>5. ASSUME NEW t \in {"lambda", "user"}, Cancel(t) PROVE Safe'
  <2>1. Types'
    <3>1. pc' \in [Threads -> Labels]
      BY <1>5 DEF Cancel, CancelReturn, SendCtrl, TypeOK
    <3>2. toCtrl' \in [{"cancel", "destroy"} -> 0..(MaxCancels + 1)] /\ toCtrl'["destroy"] <= 1
      BY <1>5 DEF Cancel, CancelReturn, SendCtrl, TypeOK, Sent, Fresh
    <3>3. remembered' \in BOOLEAN /\ past' \subseteq Events
      BY <1>5, ZenonT(30) DEF Cancel, CancelReturn, SendCtrl, TypeOK, Events
    <3>4. QED
      BY <1>5, <3>1, <3>2, <3>3 DEF Cancel, CancelReturn, SendCtrl, TypeOK
  <2>2. Sent' /\ Before' /\ Proxy'
    BY <1>5, ClassKept, SMTT(30) DEF Cancel, CancelReturn, SendCtrl, TypeOK, Senders,
        Sent, Before, Proxy, Fresh, Activation
  <2>3. QED
    BY <2>1, <2>2
<1>6. ASSUME NEW t \in {"lambda", "user"}, CancelFinish(t) PROVE Safe'
  <2>1. Types'
    <3>1. CASE SendReply("client", "Cancelled") /\ UNCHANGED past
      BY <1>6, <3>1, ReplyKept DEF CancelFinish, CancelReturn, SendReply, TypeOK,
          Senders, Finals, Events
    <3>2. CASE Happened("finishFailed") /\ UNCHANGED netVars
      BY <1>6, <3>2 DEF CancelFinish, CancelReturn, TypeOK, Senders, Finals, Events
    <3>3. QED
      BY <1>6, <3>1, <3>2 DEF CancelFinish
  <2>2. Sent' /\ Before' /\ Proxy'
    BY <1>6, ClassKept DEF CancelFinish, CancelReturn, SendReply, TypeOK,
        Senders, Sent, Before, Proxy, Fresh, Activation
  <2>3. QED
    BY <2>1, <2>2
<1>7. ASSUME NEW s \in Senders, Deliver(s) PROVE Safe'
  <2>1. Types'
    BY <1>7 DEF Deliver, TypeOK, Senders, Finals, Events
  <2>2. Sent' /\ Before' /\ Proxy'
    BY <1>7, ClassKept DEF Deliver, TypeOK, Senders, Sent, Before, Proxy,
        Fresh, Activation
  <2>3. QED
    BY <2>1, <2>2
<1> HIDE QueryAssumption DEF Safe, Types, Goto, Happened, Threads, Labels,
    clientVars, netVars, ctrlVars, queryVars, replyVars, scopeSide, clientSide
<1>8. QED
  BY <1>1, <1>2, <1>3, <1>4, <1>5, <1>6, <1>7 DEF LambdaStep, CancelStep,
      ReplyStep

(* The steps of ScopeObject::query() keep Safe.                            *)
LEMMA ScopeSafe ==
    ASSUME Safe, ScopeStep
    PROVE  Safe'
<1> USE QueryAssumption DEF Safe, Types, Goto, Happened, Threads, Labels,
    clientVars, netVars, ctrlVars, queryVars, replyVars, scopeSide, clientSide
<1>1. ASSUME FactoryThrows PROVE Safe'
  <2>1. Types'
    BY <1>1 DEF FactoryThrows, TypeOK, Senders, Finals, Events
  <2>2. Sent' /\ Before' /\ Proxy'
    BY <1>1, ClassKept DEF FactoryThrows, TypeOK, Senders, Sent, Before,
        Proxy, Fresh, Activation
  <2>3. QED
    BY <2>1, <2>2
<1>2. ASSUME StartQuery PROVE Safe'
  <2>1. Types'
    BY <1>2 DEF StartQuery, TypeOK, Senders, Finals, Events
  <2>2. Sent' /\ Before' /\ Proxy'
    BY <1>2, ClassKept DEF StartQuery, TypeOK, Senders, Sent, Before, Proxy,
        Fresh, Activation
  <2>3. QED
    BY <2>1, <2>2
<1>3. ASSUME QueryFails PROVE Safe'
  <2>1. Types'
    <3>1. toCtrl' \in [{"cancel", "destroy"} -> 0..(MaxCancels + 1)] /\ toCtrl'["destroy"] <= 1
      BY <1>3 DEF QueryFails, TypeOK, Sent, Fresh
    <3>2. toReply' \in [Senders -> Seq(Finals \cup {"push"})]
      BY <1>3, ReplyKept DEF QueryFails, TypeOK, Senders, Finals
    <3>3. refs' \subseteq {"scope", "adapter", "self", "run", "ctrl", "proxy"}
      BY <1>3, ZenonT(30) DEF QueryFails, TypeOK
    <3>4. QED
      BY <1>3, <3>1, <3>2, <3>3, SMTT(30) DEF QueryFails, TypeOK
  <2>2. Sent' /\ Before' /\ Proxy'
    BY <1>3, ClassKept, ZenonT(30) DEF QueryFails, TypeOK, Senders, Sent, Before, Proxy,
        Fresh, Activation
  <2>3. QED
    BY <2>1, <2>2
<1>4. ASSUME QueryReturns PROVE Safe'
  <2>1. Types'
    BY <1>4 DEF QueryReturns, Unref, SendCtrl, TypeOK, Senders, Finals,
        Events, Sent, Fresh
  <2>2. Sent' /\ Before' /\ Proxy'
    BY <1>4, ClassKept, ZenonT(30) DEF QueryReturns, Unref, SendCtrl, TypeOK, Senders,
        Sent, Before, Proxy, Fresh, Activation
  <2>3. QED
    BY <2>1, <2>2
<1> HIDE QueryAssumption DEF Safe, Types, Goto, Happened, Threads, Labels,
    clientVars, netVars, ctrlVars, queryVars, replyVars, scopeSide, clientSide
<1>5. QED
  BY <1>1, <1>2, <1>3, <1>4 DEF ScopeStep

(* What a thread does with the reply proxy keeps Safe (ReplyImpl).         *)
LEMMA ProxySafe ==
    ASSUME Safe, NEW t \in {"run", "app", "ctrl"}, ProxyStep(t)
    PROVE  Safe'
<1> USE QueryAssumption DEF Safe, Types, Goto, Happened, Threads, Labels,
    clientVars, netVars, ctrlVars, queryVars, replyVars, scopeSide, clientSide
<1>1. ASSUME PushCheck(t) \/ PushTest(t) PROVE Safe'
  <2>1. Types'
    <3>1. CASE PushCheck(t)
      BY <3>1, SMTT(30) DEF PushCheck, TypeOK, Senders, Finals, Events
    <3>2. CASE PushTest(t)
      BY <3>2 DEF PushTest, TypeOK, Senders, Finals, Events
    <3>3. QED
      BY <1>1, <3>1, <3>2
  <2>2. Sent' /\ Before' /\ Proxy'
    BY <1>1, ClassKept DEF PushCheck, PushTest, TypeOK, Senders, Sent, Before, Proxy,
        Fresh, Activation
  <2>3. QED
    BY <2>1, <2>2
<1>2. ASSUME PushSend(t) PROVE Safe'
  <2>1. Types'
    <3>1. pc' \in [Threads -> Labels]
      BY <1>2 DEF PushSend, SendReply, TypeOK
    <3>2. toReply' \in [Senders -> Seq(Finals \cup {"push"})]
      <4>1. CASE SendReply("scope", "push")
        BY <4>1, ReplyKept DEF SendReply, TypeOK, Senders, Finals
      <4>2. CASE UNCHANGED netVars
        BY <4>2, ReplyKept DEF SendReply, TypeOK, Senders, Finals
      <4>3. QED
        BY <1>2, <4>1, <4>2 DEF PushSend
    <3>3. replyFinished' \in BOOLEAN
      BY <1>2, ZenonT(30) DEF PushSend, SendReply, TypeOK
    <3>4. QED
      BY <1>2, <3>1, <3>2, <3>3 DEF PushSend, SendReply, TypeOK
  <2>2. Sent' /\ Before' /\ Proxy'
    BY <1>2, ClassKept, SMTT(30) DEF PushSend, SendReply, TypeOK, Senders, Sent,
        Before, Proxy, Fresh, Activation
  <2>3. QED
    BY <2>1, <2>2
<1>3. ASSUME PushError(t) PROVE Safe'
  <2>1. Types'
    BY <1>3, ReplyKept DEF PushError, SendReply, TypeOK, Senders, Finals, Events
  <2>2. Sent' /\ Before' /\ Proxy'
    BY <1>3, ClassKept, SMTT(30) DEF PushError, SendReply, TypeOK, Senders, Sent,
        Before, Proxy, Fresh, Activation
  <2>3. QED
    BY <2>1, <2>2
<1>4. ASSUME AppFinished(t) PROVE Safe'
  <2>1. Types'
    BY <1>4 DEF AppFinished, TypeOK, Senders, Finals, Events
  <2>2. Sent' /\ Before' /\ Proxy'
    BY <1>4, ClassKept DEF AppFinished, TypeOK, Senders, Sent, Before,
        Proxy, Fresh, Activation
  <2>3. QED
    BY <2>1, <2>2
<1>5. ASSUME SendOK(t) PROVE Safe'
  <2>1. Types'
    BY <1>5, ReplyKept DEF SendOK, SendReply, TypeOK, Senders, Finals, Events
  <2>2. Sent' /\ Before' /\ Proxy'
    BY <1>5, ClassKept, SMTT(30) DEF SendOK, SendReply, TypeOK, Senders, Sent, Before,
        Proxy, Fresh, Activation
  <2>3. QED
    BY <2>1, <2>2
<1>6. ASSUME DropProxy(t) PROVE Safe'
  <2>1. Types'
    <3>1. pc' \in [Threads -> Labels]
      BY <1>6, AfterDropIs DEF DropProxy, Unref, SendCtrl, TypeOK
    <3>2. toCtrl' \in [{"cancel", "destroy"} -> 0..(MaxCancels + 1)] /\ toCtrl'["destroy"] <= 1
      BY <1>6 DEF DropProxy, Unref, SendCtrl, TypeOK, Sent, Fresh
    <3>3. refs' \subseteq {"scope", "adapter", "self", "run", "ctrl", "proxy"}
      BY <1>6, ZenonT(30) DEF DropProxy, Unref, SendCtrl, TypeOK
    <3>4. holders' \subseteq {"run", "app", "ctrl"} /\ past' \subseteq Events
      BY <1>6 DEF DropProxy, Unref, SendCtrl, TypeOK, Events
    <3>5. replyFinished' \in BOOLEAN
      BY <1>6, ZenonT(30) DEF DropProxy, Unref, SendCtrl, TypeOK
    <3>6. QED
      BY <1>6, <3>1, <3>2, <3>3, <3>4, <3>5 DEF DropProxy, Unref, SendCtrl,
          TypeOK
  <2>2. Sent' /\ Before' /\ Proxy'
    <3>1. CASE t = "run"
      <4>1. Sent'
        BY <1>6, <3>1, AfterDropIs, SMTT(30) DEF DropProxy, Unref, SendCtrl,
            TypeOK, Sent, Fresh, Before
      <4>2. Before'
        BY <1>6, <3>1, AfterDropIs, SMTT(30) DEF DropProxy, Unref, SendCtrl,
            TypeOK, Before, Fresh
      <4>3. Proxy'
        BY <1>6, <3>1, AfterDropIs, ClassKept, SMTT(30) DEF DropProxy, Unref,
            SendCtrl, TypeOK, Proxy, Activation
      <4>4. QED
        BY <4>1, <4>2, <4>3
    <3>2. CASE t = "app"
      BY <1>6, <3>2, AfterDropIs, ClassKept DEF DropProxy, Unref, SendCtrl,
          TypeOK, Senders, Sent, Before, Proxy, Fresh, Activation
    <3>3. CASE t = "ctrl"
      <4>1. Sent'
        BY <1>6, <3>3, AfterDropIs DEF DropProxy, Unref, SendCtrl, TypeOK,
            Sent, Fresh, Before
      <4>2. Before'
        BY <1>6, <3>3, AfterDropIs DEF DropProxy, Unref, SendCtrl, TypeOK,
            Before, Fresh
      <4>3. Proxy'
        <5>1. /\ holders' = holders \ {"ctrl"} /\ refs' \subseteq refs
              /\ pc'["run"] = pc["run"] /\ pc'["app"] = pc["app"]
              /\ pc'["ctrl"] # "base"
              /\ pc'["ctrl"] = "lastOk" => holders = {"ctrl"}
              /\ UNCHANGED <<kind, pushable, past>>
          BY <1>6, <3>3, AfterDropIs DEF DropProxy, Unref, SendCtrl
        <5>2. QED
          BY <5>1, ClassKept DEF Proxy, Activation
      <4>4. QED
        BY <4>1, <4>2, <4>3
    <3>4. QED
      BY <3>1, <3>2, <3>3
  <2>3. QED
    BY <2>1, <2>2
<1>7. ASSUME SendLastOK(t) PROVE Safe'
  <2>1. Types'
    BY <1>7, ReplyKept DEF SendLastOK, SendReply, TypeOK, Senders, Finals,
        Events
  <2>2. Sent' /\ Before' /\ Proxy'
    BY <1>7, ClassKept DEF SendLastOK, SendReply, TypeOK, Senders, Sent,
        Before, Proxy, Fresh, Activation
  <2>3. QED
    BY <2>1, <2>2
<1>8. ASSUME ReleaseQuery(t) PROVE Safe'
  <2>1. Types'
    BY <1>8, AfterDropIs DEF ReleaseQuery, Unref, SendCtrl, TypeOK, Senders,
        Finals, Events, Sent, Fresh
  <2>2. Sent' /\ Before' /\ Proxy'
    BY <1>8, AfterDropIs, ClassKept, ZenonT(30) DEF ReleaseQuery, Unref, SendCtrl,
        TypeOK, Senders, Sent, Before, Proxy, Fresh, Activation
  <2>3. QED
    BY <2>1, <2>2
<1> HIDE QueryAssumption DEF Safe, Types, Goto, Happened, Threads, Labels,
    clientVars, netVars, ctrlVars, queryVars, replyVars, scopeSide, clientSide
<1>9. QED
  BY <1>1, <1>2, <1>3, <1>4, <1>5, <1>6, <1>7, <1>8 DEF ProxyStep

(* The steps of the query adapter and of the thread of the scope keep Safe *)
(* (QueryObject, PreviewQueryObject and ActivationQueryObject).            *)
LEMMA RunSafe ==
    ASSUME Safe, RunStep \/ AppStep
    PROVE  Safe'
<1> USE QueryAssumption DEF Safe, Types, Goto, Happened, Threads, Labels,
    clientVars, netVars, ctrlVars, queryVars, replyVars, scopeSide, clientSide
<1>1. ASSUME DispatchRun PROVE Safe'
  <2>1. Types'
    <3>1. runMsg' \in BOOLEAN
      BY <1>1, ZenonT(30) DEF DispatchRun, TypeOK
    <3>2. refs' \subseteq {"scope", "adapter", "self", "run", "ctrl", "proxy"}
      BY <1>1 DEF DispatchRun, TypeOK
    <3>3. QED
      BY <1>1, <3>1, <3>2 DEF DispatchRun, TypeOK
  <2>2. Sent' /\ Before' /\ Proxy'
    BY <1>1, ClassKept DEF DispatchRun, TypeOK, Senders, Sent, Before,
        Proxy, Fresh, Activation
  <2>3. QED
    BY <2>1, <2>2
<1>2. ASSUME Run \/ RunPreview PROVE Safe'
  <2>1. Types'
    <3>1. pc' \in [Threads -> Labels]
      BY <1>2 DEF Run, RunPreview, RunQuery, TypeOK
    <3>2. refs' \subseteq {"scope", "adapter", "self", "run", "ctrl", "proxy"}
      BY <1>2, ZenonT(30) DEF Run, RunPreview, RunQuery, TypeOK
    <3>3. holders' \subseteq {"run", "app", "ctrl"} /\ past' \subseteq Events
      BY <1>2, ZenonT(30) DEF Run, RunPreview, RunQuery, TypeOK, Events
    <3>4. QED
      BY <1>2, <3>1, <3>2, <3>3 DEF Run, RunPreview, RunQuery, TypeOK
  <2>2. Sent' /\ Before' /\ Proxy'
    BY <1>2, ClassKept, SMTT(30) DEF Run, RunPreview, RunQuery, TypeOK, Senders, Sent,
        Before, Proxy, Fresh, Activation
  <2>3. QED
    BY <2>1, <2>2
<1>3. ASSUME Activate PROVE Safe'
  <2>1. Types'
    BY <1>3 DEF Activate, TypeOK, Senders, Finals, Events
  <2>2. Sent' /\ Before' /\ Proxy'
    BY <1>3, ClassKept DEF Activate, TypeOK, Senders, Sent, Before, Proxy,
        Fresh, Activation
  <2>3. QED
    BY <2>1, <2>2
<1>4. ASSUME ActivationReply PROVE Safe'
  <2>1. Types'
    <3>1. pc' \in [Threads -> Labels]
      BY <1>4 DEF ActivationReply, SendReply, TypeOK
    <3>2. toReply' \in [Senders -> Seq(Finals \cup {"push"})]
      <4>1. CASE SendReply("scope", "push")
        BY <4>1, ReplyKept DEF SendReply, TypeOK, Senders, Finals
      <4>2. CASE SendReply("scope", "OK")
        BY <4>2, ReplyKept DEF SendReply, TypeOK, Senders, Finals
      <4>3. QED
        BY <1>4, <4>1, <4>2 DEF ActivationReply
    <3>3. QED
      BY <1>4, <3>1, <3>2 DEF ActivationReply, SendReply, TypeOK
  <2>2. Sent' /\ Before' /\ Proxy'
    BY <1>4, ClassKept, SMTT(30) DEF ActivationReply, SendReply, TypeOK, Senders,
        Sent, Before, Proxy, Fresh, Activation
  <2>3. QED
    BY <2>1, <2>2
<1>5. ASSUME RunReturns PROVE Safe'
  <2>1. Types'
    BY <1>5 DEF RunReturns, TypeOK, Senders, Finals, Events
  <2>2. Sent' /\ Before' /\ Proxy'
    BY <1>5, ClassKept DEF RunReturns, TypeOK, Senders, Sent, Before, Proxy,
        Fresh, Activation
  <2>3. QED
    BY <2>1, <2>2
<1>6. ASSUME RunThrows PROVE Safe'
  <2>1. Types'
    <3>1. pushable' \in BOOLEAN
      BY <1>6, ZenonT(30) DEF RunThrows, TypeOK
    <3>2. holders' \subseteq {"run", "app", "ctrl"} /\ past' \subseteq Events
      BY <1>6 DEF RunThrows, TypeOK, Events
    <3>3. QED
      BY <1>6, <3>1, <3>2 DEF RunThrows, TypeOK
  <2>2. Sent' /\ Before' /\ Proxy'
    BY <1>6, ClassKept DEF RunThrows, TypeOK, Senders, Sent, Before, Proxy,
        Fresh, Activation
  <2>3. QED
    BY <2>1, <2>2
<1>7. ASSUME SendError PROVE Safe'
  <2>1. Types'
    BY <1>7, ReplyKept DEF SendError, SendReply, TypeOK, Senders, Finals, Events
  <2>2. Sent' /\ Before' /\ Proxy'
    BY <1>7, ClassKept DEF SendError, SendReply, TypeOK, Senders, Sent,
        Before, Proxy, Fresh, Activation
  <2>3. QED
    BY <2>1, <2>2
<1>8. ASSUME EndRun PROVE Safe'
  <2>1. Types'
    BY <1>8, SMTT(30) DEF EndRun, Unref, SendCtrl, TypeOK, Senders, Finals, Events,
        Sent, Fresh
  <2>2. Sent' /\ Before' /\ Proxy'
    BY <1>8, ClassKept, ZenonT(30) DEF EndRun, Unref, SendCtrl, TypeOK, Senders, Sent,
        Before, Proxy, Fresh, Activation
  <2>3. QED
    BY <2>1, <2>2
<1>9. ASSUME ShareProxy PROVE Safe'
  <2>1. Types'
    BY <1>9 DEF ShareProxy, TypeOK, Senders, Finals, Events
  <2>2. Sent' /\ Before' /\ Proxy'
    BY <1>9, ClassKept DEF ShareProxy, TypeOK, Senders, Sent, Before, Proxy,
        Fresh, Activation
  <2>3. QED
    BY <2>1, <2>2
<1>10. ASSUME ThreadEnds PROVE Safe'
  <2>1. Types'
    BY <1>10 DEF ThreadEnds, TypeOK, Senders, Finals, Events
  <2>2. Sent' /\ Before' /\ Proxy'
    BY <1>10, ClassKept DEF ThreadEnds, TypeOK, Senders, Sent, Before,
        Proxy, Fresh, Activation
  <2>3. QED
    BY <2>1, <2>2
<1> HIDE QueryAssumption DEF Safe, Types, Goto, Happened, Threads, Labels,
    clientVars, netVars, ctrlVars, queryVars, replyVars, scopeSide, clientSide
<1>11. QED
  BY <1>1, <1>2, <1>3, <1>4, <1>5, <1>6, <1>7, <1>8, <1>9, <1>10, ProxySafe
      DEF RunStep, AppStep

(* The steps of the ctrl adapter keep Safe (QueryCtrlObject, and           *)
(* QueryObject::cancel).                                                   *)
LEMMA CtrlSafe ==
    ASSUME Safe, CtrlStep
    PROVE  Safe'
<1> USE QueryAssumption DEF Safe, Types, Goto, Happened, Threads, Labels,
    clientVars, netVars, ctrlVars, queryVars, replyVars, scopeSide, clientSide
<1>1. ASSUME NEW m \in {"cancel", "destroy"}, DispatchCtrl(m) PROVE Safe'
  <2>1. Types'
    BY <1>1, SMTT(30) DEF DispatchCtrl, TypeOK, Senders, Finals, Events
  <2>2. Sent' /\ Before' /\ Proxy'
    BY <1>1, ClassKept, SMTT(30) DEF DispatchCtrl, TypeOK, Senders, Sent, Before,
        Proxy, Fresh, Activation
  <2>3. QED
    BY <2>1, <2>2
<1>2. ASSUME CtrlDestroy PROVE Safe'
  <2>1. Types'
    BY <1>2 DEF CtrlDestroy, TypeOK, Senders, Finals, Events
  <2>2. Sent' /\ Before' /\ Proxy'
    BY <1>2, ClassKept DEF CtrlDestroy, TypeOK, Senders, Sent, Before,
        Proxy, Fresh, Activation
  <2>3. QED
    BY <2>1, <2>2
<1>3. ASSUME CtrlCancel PROVE Safe'
  <2>1. Types'
    BY <1>3 DEF CtrlCancel, TypeOK, Senders, Finals, Events
  <2>2. Sent' /\ Before' /\ Proxy'
    BY <1>3, ClassKept DEF CtrlCancel, TypeOK, Senders, Sent, Before, Proxy,
        Fresh, Activation
  <2>3. QED
    BY <2>1, <2>2
<1>4. ASSUME BaseCancel PROVE Safe'
  <2>1. Types'
    <3>1. pc' \in [Threads -> Labels]
      BY <1>4 DEF BaseCancel, TypeOK
    <3>2. holders' \subseteq {"run", "app", "ctrl"} /\ past' \subseteq Events
      BY <1>4, ZenonT(30) DEF BaseCancel, TypeOK, Events
    <3>3. QED
      BY <1>4, <3>1, <3>2 DEF BaseCancel, TypeOK
  <2>2. Sent' /\ Before' /\ Proxy'
    BY <1>4, ClassKept DEF BaseCancel, TypeOK, Senders, Sent, Before, Proxy,
        Fresh, Activation
  <2>3. QED
    BY <2>1, <2>2
<1>5. ASSUME SendCancelled PROVE Safe'
  <2>1. Types'
    BY <1>5, ReplyKept DEF SendCancelled, SendReply, TypeOK, Senders,
        Finals, Events
  <2>2. Sent' /\ Before' /\ Proxy'
    BY <1>5, ClassKept DEF SendCancelled, SendReply, TypeOK, Senders, Sent,
        Before, Proxy, Fresh, Activation
  <2>3. QED
    BY <2>1, <2>2
<1>6. ASSUME CtrlDisconnect PROVE Safe'
  <2>1. Types'
    BY <1>6 DEF CtrlDisconnect, Unref, SendCtrl, TypeOK, Senders, Finals,
        Events, Sent, Fresh
  <2>2. Sent' /\ Before' /\ Proxy'
    BY <1>6, ClassKept, ZenonT(30) DEF CtrlDisconnect, Unref, SendCtrl, TypeOK, Senders,
        Sent, Before, Proxy, Fresh, Activation
  <2>3. QED
    BY <2>1, <2>2
<1> HIDE QueryAssumption DEF Safe, Types, Goto, Happened, Threads, Labels,
    clientVars, netVars, ctrlVars, queryVars, replyVars, scopeSide, clientSide
<1>7. QED
  BY <1>1, <1>2, <1>3, <1>4, <1>5, <1>6, ProxySafe DEF CtrlStep, ProxyStep

(* Every step keeps the threads and objects consistent, in whatever order  *)
(* run(), cancel(), the destroy message and the end of the last reply      *)
(* proxy come.                                                             *)
LEMMA SafeStep == Safe /\ [Next]_vars => Safe'
<1> SUFFICES ASSUME Safe, [Next]_vars PROVE Safe'
  OBVIOUS
<1>1. CASE UNCHANGED vars
  BY <1>1, ClassKept DEF vars, clientVars, netVars, ctrlVars, queryVars,
      replyVars, scopeSide, clientSide, Safe, Types, TypeOK, Sent, Before,
      Proxy, Fresh, Activation
<1>2. QED
  BY <1>1, ClientSafe, ScopeSafe, RunSafe, CtrlSafe DEF Next

(* What one more message does to what a queue says.                        *)
LEMMA AppendIs ==
    ASSUME NEW S, NEW q \in Seq(S), NEW m \in S
    PROVE  /\ OkFirst(Append(q, m)) <=> OkFirst(q) \/ (m = "OK" /\ AllPush(q))
           /\ AllPush(Append(q, m)) <=> AllPush(q) /\ m = "push"
<1> DEFINE p == Append(q, m)
<1>1. /\ Len(p) = Len(q) + 1 /\ Len(q) \in Nat
      /\ \A i \in 1..Len(q) : p[i] = q[i]
      /\ p[Len(q) + 1] = m
  OBVIOUS
<1> HIDE DEF p
<1>2. AllPush(p) <=> AllPush(q) /\ m = "push"
  BY <1>1 DEF AllPush
<1>3. OkFirst(p) => OkFirst(q) \/ (m = "OK" /\ AllPush(q))
  BY <1>1 DEF OkFirst, AllPush
<1>4. OkFirst(q) => OkFirst(p)
  BY <1>1 DEF OkFirst
<1>5. m = "OK" /\ AllPush(q) => OkFirst(p)
  BY <1>1 DEF OkFirst, AllPush
<1>6. QED
  BY <1>2, <1>3, <1>4, <1>5 DEF p

(* What the delivery of the first message does to what a queue says.       *)
LEMMA TailIs ==
    ASSUME NEW S, NEW q \in Seq(S), q # <<>>
    PROVE  /\ Head(q) = "OK" => OkFirst(q)
           /\ Head(q) = "push" /\ OkFirst(Tail(q)) => OkFirst(q)
           /\ Head(q) = "push" /\ AllPush(Tail(q)) => AllPush(q)
<1> DEFINE p == Tail(q)
<1>1. /\ Len(q) = Len(p) + 1 /\ Len(p) \in Nat
      /\ \A i \in 1..Len(p) : p[i] = q[i + 1]
      /\ Head(q) = q[1]
  OBVIOUS
<1> HIDE DEF p
<1>2. Head(q) = "OK" => OkFirst(q)
  BY <1>1 DEF OkFirst
<1>3. ASSUME Head(q) = "push", OkFirst(p) PROVE OkFirst(q)
  <2>1. PICK i \in 1..Len(p) : p[i] = "OK" /\ \A j \in 1..(i - 1) : p[j] = "push"
    BY <1>3 DEF OkFirst
  <2>2. i + 1 \in 1..Len(q) /\ q[i + 1] = "OK"
    BY <1>1, <2>1
  <2>3. ASSUME NEW j \in 1..i PROVE q[j] = "push"
    <3>1. CASE j = 1
      BY <3>1, <1>1, <1>3
    <3>2. CASE j # 1
      <4>1. j - 1 \in 1..(i - 1) /\ j - 1 \in 1..Len(p) /\ (j - 1) + 1 = j
        BY <3>2, <1>1, <2>1
      <4>2. QED
        BY <4>1, <2>1, <1>1, ZenonT(30)
    <3>3. QED
      BY <3>1, <3>2
  <2>4. QED
    BY <2>2, <2>3, (i + 1) - 1 = i DEF OkFirst
<1>4. ASSUME Head(q) = "push", AllPush(p) PROVE AllPush(q)
  <2>1. ASSUME NEW j \in 1..Len(q) PROVE q[j] = "push"
    <3>1. CASE j = 1
      BY <3>1, <1>1, <1>4
    <3>2. CASE j # 1
      <4>1. j - 1 \in 1..Len(p) /\ (j - 1) + 1 = j
        BY <3>2, <1>1
      <4>2. QED
        BY <4>1, <1>4, <1>1, ZenonT(30) DEF AllPush
    <3>3. QED
      BY <3>1, <3>2
  <2>2. QED
    BY <2>1 DEF AllPush
<1>5. QED
  BY <1>2, <1>3, <1>4 DEF p

(* A step that sends and delivers nothing keeps Story.                     *)
LEMMA StoryKept == ASSUME Story, Quiet PROVE Story'
  BY DEF Story, OkFirst, AllPush, Quiet

(* What a message of the scope does to the queue (ReplyImpl).              *)
LEMMA SentIs ==
    ASSUME Safe, NEW m \in Finals \cup {"push"}, 
           toReply' = [toReply EXCEPT !["scope"] = Append(@, m)]
    PROVE  /\ toReply'["client"] = toReply["client"]
           /\ OkFirst(toReply'["scope"]) <=>
                OkFirst(toReply["scope"]) \/ (m = "OK" /\ AllPush(toReply["scope"]))
           /\ AllPush(toReply'["scope"]) <=> AllPush(toReply["scope"]) /\ m = "push"
<1>1. /\ toReply["scope"] \in Seq(Finals \cup {"push"})
      /\ toReply'["scope"] = Append(toReply["scope"], m)
      /\ toReply'["client"] = toReply["client"]
  BY DEF Safe, Types, TypeOK, Senders
<1>2. QED
  BY <1>1, AppendIs

(* A message of the scope keeps Story if it is not an OK that could come   *)
(* first, or is the error that has to come first (QueryObject::run).       *)
LEMMA StorySent ==
    ASSUME Safe, Story, NEW m \in Finals \cup {"push"}, 
           toReply' = [toReply EXCEPT !["scope"] = Append(@, m)], UNCHANGED outcome,
           Pending' => Pending /\ m # "OK",
           Reported' => Reported \/ (Pending /\ m = "Error")
    PROVE  Story'
<1>1. \A i \in 1..Len(toReply'["client"]) : toReply'["client"][i] = "Cancelled"
  BY SentIs DEF Story
<1>2. ASSUME Pending'
      PROVE  outcome' # "OK" /\ (outcome' = "none" => ~OkFirst(toReply'["scope"]))
  BY <1>2, SentIs, ZenonT(30) DEF Story
<1>3. ASSUME Reported'
      PROVE  /\ outcome' # "OK"
             /\ outcome' = "none" => ~OkFirst(toReply'["scope"]) /\ ~AllPush(toReply'["scope"])
  BY <1>3, SentIs, ZenonT(30) DEF Story
<1>4. OkFirst(toReply["scope"])' <=> OkFirst(toReply'["scope"])
  BY DEF OkFirst
<1>5. AllPush(toReply["scope"])' <=> AllPush(toReply'["scope"])
  BY DEF AllPush
<1>6. QED
  BY <1>1, <1>2, <1>3, <1>4, <1>5 DEF Story

(* The Cancelled that QueryCtrlImpl::cancel() sends keeps Story.           *)
LEMMA StoryToClient ==
    ASSUME Safe, Story, toReply' = [toReply EXCEPT !["client"] = Append(@, "Cancelled")],
           UNCHANGED outcome, Pending' => Pending, Reported' => Reported
    PROVE  Story'
<1>1. /\ toReply'["scope"] = toReply["scope"]
      /\ toReply["client"] \in Seq(Finals \cup {"push"})
      /\ toReply'["client"] = Append(toReply["client"], "Cancelled")
  BY DEF Safe, Types, TypeOK, Senders
<1>2. \A i \in 1..Len(toReply'["client"]) : toReply'["client"][i] = "Cancelled"
  BY <1>1 DEF Story, Finals
<1>3. QED
  BY <1>1, <1>2 DEF Story, OkFirst, AllPush

(* The delivery of a message keeps Story: the first finished() wins        *)
(* (ReplyObject).                                                          *)
LEMMA StoryDelivered ==
    ASSUME Safe, Story, NEW s \in Senders, Deliver(s), Pending' => Pending,
    Reported' => Reported
    PROVE  Story'
<1> DEFINE q == toReply["scope"]
<1>0. /\ toReply["client"] \in Seq(Finals \cup {"push"})
      /\ q \in Seq(Finals \cup {"push"})
  BY DEF Safe, Types, TypeOK, Senders
<1>1. CASE s = "client"
  <2>1. /\ toReply'["scope"] = toReply["scope"]
        /\ toReply["client"] # <<>> /\ toReply'["client"] = Tail(toReply["client"])
        /\ outcome' = IF outcome = "none" /\ Head(toReply["client"]) # "push"
                      THEN Head(toReply["client"]) ELSE outcome
    BY <1>1 DEF Deliver, Safe, Types, TypeOK, Senders
  <2>2. Head(toReply["client"]) = "Cancelled"
    BY <2>1, <1>0 DEF Story
  <2>3. \A i \in 1..Len(toReply'["client"]) : toReply'["client"][i] = "Cancelled"
    BY <1>0, <2>1 DEF Story
  <2>4. outcome' = IF outcome = "none" THEN "Cancelled" ELSE outcome
    BY <2>1, <2>2
  <2>5. QED
    BY <2>1, <2>3, <2>4 DEF Story, OkFirst, AllPush
<1>2. CASE s = "scope"
  <2>1. /\ toReply'["client"] = toReply["client"]
        /\ q # <<>> /\ toReply'["scope"] = Tail(q)
        /\ outcome' = IF outcome = "none" /\ Head(q) # "push" THEN Head(q) ELSE outcome
    BY <1>2 DEF Deliver, Safe, Types, TypeOK, Senders
  <2>2. /\ Head(q) = "OK" => OkFirst(q)
        /\ Head(q) = "push" /\ OkFirst(Tail(q)) => OkFirst(q)
        /\ Head(q) = "push" /\ AllPush(Tail(q)) => AllPush(q)
        /\ Head(q) # "none"
    BY <1>0, <2>1, TailIs DEF Finals
  <2>3. /\ OkFirst(toReply["scope"])' <=> OkFirst(Tail(q))
        /\ AllPush(toReply["scope"])' <=> AllPush(Tail(q))
    BY <2>1 DEF OkFirst, AllPush
  <2>4. QED
    BY <2>1, <2>2, <2>3 DEF Story
<1>3. QED
  BY <1>1, <1>2 DEF Senders

(* Every step keeps Story.                                                 *)
LEMMA StoryStep == Safe /\ Story /\ [Next]_vars => Story'
<1> SUFFICES ASSUME Safe, Story, [Next]_vars PROVE Story'
  OBVIOUS
<1>0. ASSUME UNCHANGED kind PROVE Activation' <=> Activation
  BY <1>0, ClassKept, SMTT(30) DEF Activation
<1> USE <1>0 DEF Quiet, Pending, Reported, NoHelp, Safe, Before, Proxy,
    Fresh, Types, Threads,
      clientVars, netVars, ctrlVars, queryVars, replyVars, scopeSide,
      clientSide, Goto, Happened
<1>1. ASSUME SetProxy \/ CallCancel \/ Cancel("lambda") \/ Cancel("user") PROVE Quiet
  BY <1>1, SMTT(30) DEF SetProxy, CallCancel, Cancel, CancelReturn, SendCtrl
<1>2. ASSUME FactoryThrows \/ StartQuery \/ QueryReturns PROVE Quiet
  BY <1>2, SMTT(30) DEF FactoryThrows, StartQuery, QueryReturns, Unref, SendCtrl
<1>3. ASSUME DispatchRun \/ Activate \/ RunReturns \/ EndRun \/ ShareProxy \/ ThreadEnds PROVE Quiet
  BY <1>3, SMTT(30) DEF DispatchRun, Activate, RunReturns, EndRun, Unref, SendCtrl,
      ShareProxy, ThreadEnds
<1>4. ASSUME Run \/ RunPreview \/ RunThrows PROVE Quiet
  <2>1. CASE Run \/ RunPreview
    <3>1. /\ UNCHANGED <<toReply, outcome, kind>>
          /\ past \subseteq past' /\ pc["run"] = "run" /\ pc'["run"] \in {"app", "end"}
          /\ "threw" \in past' => "threw" \in past
          /\ past' # past => "self" \in refs
          /\ past' = past => holders' = holders
      BY <2>1 DEF Run, RunPreview, RunQuery
    <3>2. QED
      BY <3>1, SMTT(30)
  <2>2. CASE RunThrows
    BY <2>2, SMTT(30) DEF RunThrows
  <2>3. QED
    BY <1>4, <2>1, <2>2
<1>5. ASSUME NEW t \in {"run", "app", "ctrl"},
             PushCheck(t) \/ PushTest(t) \/ AppFinished(t) \/ DropProxy(t) \/ ReleaseQuery(t)
      PROVE  Quiet
  BY <1>5, AfterDropIs, SMTT(30) DEF PushCheck, PushTest, AppFinished, DropProxy, ReleaseQuery,
      Unref, SendCtrl
<1>6. ASSUME NEW m \in {"cancel", "destroy"}, DispatchCtrl(m) PROVE Quiet
  BY <1>6 DEF DispatchCtrl
<1>7. ASSUME CtrlDestroy \/ CtrlCancel \/ BaseCancel \/ CtrlDisconnect PROVE Quiet
  BY <1>7, SMTT(30) DEF CtrlDestroy, CtrlCancel, BaseCancel, CtrlDisconnect, Unref,
      SendCtrl
<1>8. ASSUME UNCHANGED vars PROVE Quiet
  BY <1>8 DEF vars
<1>9. ASSUME QueryFails PROVE Story'
  <2>1. /\ toReply' = [toReply EXCEPT !["scope"] = Append(@, "Error")]
        /\ UNCHANGED outcome
        /\ Pending' => Pending
        /\ Reported' => Reported \/ Pending
    BY <1>9 DEF QueryFails
  <2> HIDE <1>0 DEF Quiet, Pending, Reported, NoHelp, Safe, Before, Proxy,
      Fresh, Types, Threads,
      clientVars, netVars, ctrlVars, queryVars, replyVars, scopeSide,
      clientSide, Goto, Happened
  <2>2. QED
    BY <2>1, StorySent DEF Finals
<1>10. ASSUME SendError PROVE Story'
  <2>1. /\ toReply' = [toReply EXCEPT !["scope"] = Append(@, "Error")]
        /\ UNCHANGED outcome
        /\ Pending' => Pending
        /\ Reported' => Reported \/ Pending
    BY <1>10 DEF SendError, SendReply
  <2> HIDE <1>0 DEF Quiet, Pending, Reported, NoHelp, Safe, Before, Proxy,
      Fresh, Types, Threads,
      clientVars, netVars, ctrlVars, queryVars, replyVars, scopeSide,
      clientSide, Goto, Happened
  <2>2. QED
    BY <2>1, StorySent DEF Finals
<1>11. ASSUME NEW t \in {"run", "app", "ctrl"}, PushError(t) PROVE Story'
  <2>1. /\ toReply' = [toReply EXCEPT !["scope"] = Append(@, "Error")]
        /\ UNCHANGED outcome
        /\ Pending' => Pending
        /\ Reported' => Reported \/ Pending
    BY <1>11 DEF PushError, SendReply
  <2> HIDE <1>0 DEF Quiet, Pending, Reported, NoHelp, Safe, Before, Proxy,
      Fresh, Types, Threads,
      clientVars, netVars, ctrlVars, queryVars, replyVars, scopeSide,
      clientSide, Goto, Happened
  <2>2. QED
    BY <2>1, StorySent DEF Finals
<1>12. ASSUME SendCancelled PROVE Story'
  <2>1. /\ toReply' = [toReply EXCEPT !["scope"] = Append(@, "Cancelled")]
        /\ UNCHANGED outcome
        /\ Pending' => Pending
        /\ Reported' => Reported
    BY <1>12 DEF SendCancelled, SendReply
  <2> HIDE <1>0 DEF Quiet, Pending, Reported, NoHelp, Safe, Before, Proxy,
      Fresh, Types, Threads,
      clientVars, netVars, ctrlVars, queryVars, replyVars, scopeSide,
      clientSide, Goto, Happened
  <2>2. QED
    BY <2>1, StorySent DEF Finals
<1>13. ASSUME NEW t \in {"run", "app"}, SendOK(t) PROVE Story'
  <2>1. /\ toReply' = [toReply EXCEPT !["scope"] = Append(@, "OK")]
        /\ UNCHANGED outcome
        /\ ~Pending'
        /\ Reported' => Reported
    BY <1>13 DEF SendOK, SendReply
  <2> HIDE <1>0 DEF Quiet, Pending, Reported, NoHelp, Safe, Before, Proxy,
      Fresh, Types, Threads,
      clientVars, netVars, ctrlVars, queryVars, replyVars, scopeSide,
      clientSide, Goto, Happened
  <2>2. QED
    BY <2>1, StorySent DEF Finals
<1>14. ASSUME NEW t \in {"run", "app", "ctrl"}, SendLastOK(t) PROVE Story'
  <2>1. /\ toReply' = [toReply EXCEPT !["scope"] = Append(@, "OK")]
        /\ UNCHANGED outcome
        /\ ~Pending'
        /\ Reported' => Reported
    BY <1>14 DEF SendLastOK, SendReply
  <2> HIDE <1>0 DEF Quiet, Pending, Reported, NoHelp, Safe, Before, Proxy,
      Fresh, Types, Threads,
      clientVars, netVars, ctrlVars, queryVars, replyVars, scopeSide,
      clientSide, Goto, Happened
  <2>2. QED
    BY <2>1, StorySent DEF Finals
<1>15. ASSUME ActivationReply, pc["run"] = "pushResponse" PROVE Story'
  <2>1. /\ toReply' = [toReply EXCEPT !["scope"] = Append(@, "push")]
        /\ UNCHANGED outcome
        /\ Pending' => Pending
        /\ Reported' => Reported
    BY <1>15 DEF ActivationReply, SendReply
  <2> HIDE <1>0 DEF Quiet, Pending, Reported, NoHelp, Safe, Before, Proxy,
      Fresh, Types, Threads,
      clientVars, netVars, ctrlVars, queryVars, replyVars, scopeSide,
      clientSide, Goto, Happened
  <2>2. QED
    BY <2>1, StorySent DEF Finals
<1>16. ASSUME ActivationReply, pc["run"] = "activated" PROVE Story'
  <2>1. /\ toReply' = [toReply EXCEPT !["scope"] = Append(@, "OK")]
        /\ UNCHANGED outcome
        /\ ~Pending'
        /\ Reported' => Reported
    BY <1>16 DEF ActivationReply, SendReply
  <2> HIDE <1>0 DEF Quiet, Pending, Reported, NoHelp, Safe, Before, Proxy,
      Fresh, Types, Threads,
      clientVars, netVars, ctrlVars, queryVars, replyVars, scopeSide,
      clientSide, Goto, Happened
  <2>2. QED
    BY <2>1, StorySent DEF Finals
<1>17. ASSUME NEW t \in {"run", "app"}, PushSend(t) PROVE Story'
  <2>1. /\ UNCHANGED outcome /\ (Pending' => Pending) /\ (Reported' => Reported)
        /\ \/ UNCHANGED toReply
           \/ toReply' = [toReply EXCEPT !["scope"] = Append(@, "push")]
    BY <1>17 DEF PushSend, SendReply
  <2>2. ASSUME UNCHANGED toReply PROVE Quiet
    BY <2>1, <2>2
  <2> HIDE <1>0 DEF Quiet, Pending, Reported, NoHelp, Safe, Before, Proxy,
      Fresh, Types, Threads,
      clientVars, netVars, ctrlVars, queryVars, replyVars, scopeSide,
      clientSide, Goto, Happened
  <2>3. QED
    BY <2>1, <2>2, StoryKept, StorySent, ZenonT(30)
<1>18. ASSUME NEW t \in {"lambda", "user"}, CancelFinish(t) PROVE Story'
  <2>1. /\ \/ UNCHANGED toReply
           \/ toReply' = [toReply EXCEPT !["client"] = Append(@, "Cancelled")]
        /\ UNCHANGED outcome
        /\ Pending' => Pending
        /\ Reported' => Reported
    BY <1>18, SMTT(30) DEF CancelFinish, CancelReturn, SendReply
  <2>2. ASSUME UNCHANGED toReply PROVE Quiet
    BY <2>1, <2>2
  <2> HIDE <1>0 DEF Quiet, Pending, Reported, NoHelp, Safe, Before, Proxy,
      Fresh, Types, Threads,
      clientVars, netVars, ctrlVars, queryVars, replyVars, scopeSide,
      clientSide, Goto, Happened
  <2>3. QED
    BY <2>1, <2>2, StoryKept, StoryToClient, ZenonT(30)
<1>19. ASSUME SearchThrows PROVE Story'
  BY <1>19, SMTT(30) DEF SearchThrows, Story, OkFirst, AllPush
<1>20. ASSUME StartCall PROVE Story'
  <2>1. /\ toReply["scope"] = <<>> /\ outcome = "none" /\ "threw" \notin past
        /\ UNCHANGED <<toReply, outcome, past>>
    BY <1>20, SMTT(30) DEF StartCall, StartSearch, StartPreview, StartActivate,
        StartPerformAction,
                StartActivateResultAction, Send
  <2>2. ~OkFirst(toReply["scope"])
    BY <2>1 DEF OkFirst
  <2>3. QED
    BY <2>1, <2>2, SMTT(30) DEF Story, OkFirst
<1>21. ASSUME NEW s \in Senders, Deliver(s) PROVE Story'
  <2>1. (Pending' => Pending) /\ (Reported' => Reported)
    BY <1>21 DEF Deliver
  <2> HIDE <1>0 DEF Quiet, Pending, Reported, NoHelp, Safe, Before, Proxy,
      Fresh, Types, Threads,
      clientVars, netVars, ctrlVars, queryVars, replyVars, scopeSide,
      clientSide, Goto, Happened
  <2>2. QED
    BY <2>1, <1>21, StoryDelivered
<1> HIDE <1>0 DEF Quiet, Pending, Reported, NoHelp, Safe, Before, Proxy,
    Fresh, Types, Threads,
      clientVars, netVars, ctrlVars, queryVars, replyVars, scopeSide,
      clientSide, Goto, Happened
<1>22. ASSUME Quiet PROVE Story'
  BY <1>22, StoryKept
<1>23. CASE StartCall \/ LambdaStep \/ CallCancel \/ CancelStep("user") \/ ReplyStep
  BY <1>23, <1>1, <1>18, <1>19, <1>20, <1>21, <1>22 DEF LambdaStep,
      CancelStep, ReplyStep
<1>24. ASSUME NEW t \in {"run", "app"}, ProxyStep(t) PROVE Story'
  BY <1>24, <1>5, <1>11, <1>13, <1>14, <1>17, <1>22 DEF ProxyStep
<1>25. CASE RunStep \/ AppStep
  BY <1>25, <1>3, <1>4, <1>10, <1>15, <1>16, <1>22, <1>24 DEF RunStep,
      AppStep, ActivationReply
<1>26. CASE ScopeStep \/ CtrlStep
  BY <1>26, <1>2, <1>5, <1>6, <1>7, <1>9, <1>12, <1>14, <1>22 DEF ScopeStep,
      CtrlStep
<1>27. QED
  BY <1>8, <1>22, <1>23, <1>25, <1>26 DEF Next

(* run() starts and push() is accepted only while pushable_ is set, and    *)
(* that is cleared before the scope is told of the cancellation            *)
(* (QueryObject::run, QueryObject::cancel, ReplyImpl::push).               *)
LEMMA CancelledStep == Safe /\ [Next]_vars => [QuietAfterCancelled]_vars
<1> SUFFICES ASSUME Safe, Next PROVE QuietAfterCancelled
  OBVIOUS
<1>0. pc \in [Threads -> Labels]
  BY DEF Safe, Types
<1> USE DEF Goto, Happened, Threads
<1>1. ASSUME "started" \in past', "started" \notin past
      PROVE  pushable /\ past' = past \cup {"started"}
  <2>1. CASE StartCall \/ LambdaStep \/ CallCancel \/ CancelStep("user")
    BY <1>1, <2>1, SMTT(30) DEF StartCall, StartSearch, StartPreview,
        StartActivate, StartPerformAction, StartActivateResultAction, Send,
        LambdaStep, SearchThrows, SetProxy, CancelStep, Cancel, CancelFinish,
        CallCancel
  <2>2. CASE ScopeStep \/ ReplyStep
    BY <1>1, <2>2, SMTT(30) DEF ScopeStep, FactoryThrows, StartQuery,
        QueryFails, QueryReturns, ReplyStep, Deliver
  <2>3. ASSUME NEW u \in {"run", "app", "ctrl"}, ProxyStep(u) PROVE FALSE
    BY <1>1, <2>3, SMTT(30) DEF ProxyStep, PushCheck, PushTest, PushSend, PushError,
        AppFinished, SendOK, DropProxy, SendLastOK, ReleaseQuery
  <2>4. CASE Run \/ RunPreview
    BY <1>1, <2>4, SMTT(30) DEF Run, RunPreview, RunQuery
  <2>5. CASE (RunStep \/ AppStep) /\ ~(Run \/ RunPreview)
    BY <1>1, <2>3, <2>5, SMTT(30) DEF RunStep, DispatchRun, Activate,
        ActivationReply, RunReturns, RunThrows, SendError, EndRun,
        ShareProxy, AppStep, ThreadEnds
  <2>6. CASE CtrlStep
    BY <1>1, <2>3, <2>6, SMTT(30) DEF CtrlStep, DispatchCtrl, CtrlDestroy,
        CtrlCancel, BaseCancel, SendCancelled, CtrlDisconnect, ProxyStep
  <2>7. QED
    BY <2>1, <2>2, <2>4, <2>5, <2>6, SMTT(30) DEF Next
<1>2. ASSUME NEW t \in Threads, pc[t] = "app", pc'[t] = "pushable" PROVE pushable
  <2>1. CASE StartCall \/ LambdaStep \/ CallCancel \/ CancelStep("user")
    BY <1>0, <1>2, <2>1, SMTT(30) DEF StartCall, StartSearch, StartPreview,
        StartActivate, StartPerformAction, StartActivateResultAction, Send,
        LambdaStep, SearchThrows, SetProxy, CancelStep, Cancel, CancelFinish,
        CancelReturn, CallCancel
  <2>2. CASE ScopeStep \/ ReplyStep
    BY <1>0, <1>2, <2>2, SMTT(30) DEF ScopeStep, FactoryThrows, StartQuery,
        QueryFails, QueryReturns, ReplyStep, Deliver
  <2>3. ASSUME NEW u \in {"run", "app", "ctrl"}, ProxyStep(u) PROVE pushable
    <3>1. CASE PushCheck(u) \/ PushTest(u)
      BY <1>0, <1>2, <3>1 DEF PushCheck, PushTest
    <3>2. CASE PushSend(u) \/ PushError(u) \/ AppFinished(u) \/ SendOK(u)
      BY <1>0, <1>2, <3>2 DEF PushSend, PushError, AppFinished, SendOK
    <3>3. CASE DropProxy(u) \/ SendLastOK(u) \/ ReleaseQuery(u)
      BY <1>0, <1>2, <3>3, AfterDropIs, SMTT(30) DEF DropProxy, SendLastOK, ReleaseQuery
    <3>4. QED
      BY <2>3, <3>1, <3>2, <3>3 DEF ProxyStep
  <2>4. CASE RunStep \/ AppStep
    BY <1>0, <1>2, <2>3, <2>4, SMTT(30) DEF RunStep, DispatchRun, Run,
        RunPreview, RunQuery, Activate, ActivationReply, RunReturns,
        RunThrows, SendError, EndRun, ShareProxy, AppStep, ThreadEnds
  <2>5. CASE CtrlStep
    <3>1. CASE \E m \in {"cancel", "destroy"} : DispatchCtrl(m)
      BY <1>0, <1>2, <3>1 DEF DispatchCtrl
    <3>2. CASE CtrlDestroy \/ BaseCancel \/ SendCancelled \/ CtrlDisconnect
      BY <1>0, <1>2, <3>2 DEF CtrlDestroy, BaseCancel, SendCancelled, CtrlDisconnect
    <3>3. CASE CtrlCancel
      BY <1>0, <1>2, <3>3 DEF CtrlCancel
    <3>4. QED
      BY <2>3, <2>5, <3>1, <3>2, <3>3 DEF CtrlStep, ProxyStep
  <2>6. QED
    BY <2>1, <2>2, <2>4, <2>5, SMTT(30) DEF Next
<1>3. QED
  BY <1>1, <1>2 DEF QuietAfterCancelled, Safe, Proxy

(* The invariant holds before the query is made.                           *)
LEMMA InitIInv == Init => IInv
<1> SUFFICES ASSUME Init PROVE IInv
  OBVIOUS
<1>1. Types
  <2>1. toReply \in [Senders -> Seq(Finals \cup {"push"})]
    BY DEF Init
  <2>2. pc \in [Threads -> Labels]
    BY DEF Init, Threads, Labels
  <2>3. toCtrl \in [{"cancel", "destroy"} -> 0..(MaxCancels + 1)] /\ toCtrl["destroy"] <= 1
    BY QueryAssumption DEF Init
  <2>4. cancels \in 0..MaxCancels /\ pushes \in 0..MaxPushes
    BY QueryAssumption DEF Init
  <2>5. QED
    BY <2>1, <2>2, <2>3, <2>4, ZenonT(30) DEF Init, Types, TypeOK, Finals
<1>2. Sent /\ Before /\ Proxy
  BY DEF Init, Sent, Before, Proxy, Fresh, Threads, Senders
<1>3. Story
  BY DEF Init, Story, Pending, Reported, OkFirst, Senders
<1>4. QED
  BY <1>1, <1>2, <1>3 DEF IInv, Safe

(* The invariant implies what the client may be told.                      *)
LEMMA Told == IInv => TypeOK /\ ErrorReported
  BY DEF IInv, Safe, Types, Proxy, Story, Pending, Reported, NoHelp,
      ErrorReported

(* For every number of calls of cancel() and push() and every method of    *)
(* Scope: the client is told OK for a query whose run() threw only if the  *)
(* scope called finished() itself or shared the reply proxy, and once the  *)
(* scope was told of the cancellation run() is not started and no push()   *)
(* is accepted (QueryObject::run, QueryObject::cancel, ReplyImpl::push,    *)
(* ReplyImpl::~ReplyImpl).                                                 *)
THEOREM OutcomeIsRight == Spec => QueryOutcome
<1>1. IInv /\ [Next]_vars => IInv'
  BY SafeStep, StoryStep DEF IInv
<1>2. IInv /\ [Next]_vars => [QuietAfterCancelled]_vars
  BY CancelledStep DEF IInv
<1>3. QED
  BY InitIInv, Told, <1>1, <1>2, PTL DEF Spec, QueryOutcome,
      NothingAfterCancelled

=============================================================================
