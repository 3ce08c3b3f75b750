------------------------------- MODULE MCLive -------------------------------
(* Small instances of what has to end: the reply of a query on the side of *)
(* the client, calls of the registry, queries of remote scopes, the two    *)
(* server processes, scopes with a thread of their own and the Qt bridge.  *)
(* The parts share no state: a behaviour is one of one of the parts, and   *)
(* the others stay in an initial state.                                    *)
EXTENDS ReplyObject

VARIABLES
    part,       \* the part that this behaviour is one of
    entry, added, obj, mutex, thr, procs, msgs, misled,
    kind, body, pos, smartEntry, pushable, run, handle, active, http, abort,
    tmp, cats, filters, owners, smartFinished, sent, cancel, crashed,
    program, main, signals, raised, trap, childTrap, connected, caught, rt,
    servants, holders, children, status,
    which, queries_, done_, stopped, asleep, worker, current, stopPc, runPc,
    cancelPc, valid, pushed, over,
    instance, runner, loop, ready, scope, events, handled, object, bound,
    qtquery, qtPushable, qtHolders, qtRunPc, qtCancelPc, ran, unsafe

(* Answers of the server: complete ones, without a last newline, in an     *)
(* unusual order and with a line that does not parse.                      *)
NL == "newline"
ServerTexts ==
    {<<>>,
     <<"category", "}", NL, "result", "}">>,
     <<"result", "}", NL, "category", "}", NL>>,
     <<"filters", "}", NL, "state", "}", NL, "departments", "}">>,
     <<"category", "}", NL, "bad", NL, "result", "}", NL>>,
     <<"columns", "}", NL, "widget", "}", NL>>,
     <<"widget", NL, "columns", "}">>}

Registry == INSTANCE Registry
    WITH Locators <- {"l1"}, Admin <- "admin", DebugMode <- FALSE,
         HandStarts <- FALSE, MaxExecs <- 2, MaxAdds <- 2
Smart == INSTANCE SmartQuery
    WITH Texts <- ServerTexts,
         Methods <- {"search", "preview", "activate", "perform_action",
                     "activate_result_action"},
         entry <- smartEntry, finished <- smartFinished
Server == INSTANCE ServerProcess
    WITH MaxSignals <- 2
Queue == INSTANCE QueueScopes
    WITH Queries <- {"a", "b"}, MaxResults <- 2
Qt == INSTANCE QtBridge
    WITH Searches <- {"s"}, Previews <- {"p"}, MayCancel <- {"s"},
         OtherApps <- {FALSE}, pushable <- qtPushable, holders <- qtHolders,
         runPc <- qtRunPc, cancelPc <- qtCancelPc

registryVars == <<entry, added, obj, mutex, thr, procs, msgs, misled>>
smartVars == <<kind, body, pos, smartEntry, pushable, run, handle, active,
               http, abort, tmp, cats, filters, owners, smartFinished, sent,
               cancel, crashed>>
serverVars == <<program, main, signals, raised, trap, childTrap, connected,
                caught, rt, servants, holders, children, status>>
queueVars == <<which, queries_, done_, stopped, asleep, worker, current,
               stopPc, runPc, cancelPc, valid, pushed, over>>
qtVars == <<instance, runner, loop, ready, scope, events, handled, object,
            bound, qtquery, qtPushable, qtHolders, qtRunPc, qtCancelPc, ran,
            unsafe>>
liveVars == <<part, vars, registryVars, smartVars, serverVars, queueVars,
              qtVars>>

LiveInit ==
    /\ part \in {"reply", "registry", "smart", "server", "queue", "qt"}
    /\ Init /\ Registry!Init /\ Smart!Init /\ Server!Init /\ Queue!Init /\
       Qt!Init
    /\ part # "smart" => kind = "search" /\ body = <<>>
    /\ part # "server" => program = "proxy"
    /\ part # "queue" => which = "C"

LiveNext ==
    /\ UNCHANGED part
    /\ \/ part = "reply" /\ Next
       \/ part # "reply" /\ UNCHANGED vars
    /\ \/ part = "registry" /\ Registry!Next
       \/ part # "registry" /\ UNCHANGED registryVars
    /\ \/ part = "smart" /\ Smart!Next
       \/ part # "smart" /\ UNCHANGED smartVars
    /\ \/ part = "server" /\ Server!Next
       \/ part # "server" /\ UNCHANGED serverVars
    /\ \/ part = "queue" /\ Queue!Next
       \/ part # "queue" /\ UNCHANGED queueVars
    /\ \/ part = "qt" /\ Qt!Next
       \/ part # "qt" /\ UNCHANGED qtVars

(* The fairness of each part's own specification.                          *)
ReplyFairness ==
    /\ WF_vars(part = "reply" /\ ~failedAssert /\ ClientStep)
    /\ WF_vars(part = "reply" /\ ~failedAssert /\ ReaperStep)
    /\ WF_vars(part = "reply" /\ ~failedAssert /\ StopperStep)
    /\ \A w \in Workers : WF_vars(part = "reply" /\ ~failedAssert /\ WorkerStep(w))

RegistryFairness ==
    /\ WF_registryVars(part = "registry" /\ Registry!LocateStep("l1"))
    /\ WF_registryVars(part = "registry" /\ Registry!AdminStep)
    /\ \A p \in 0 .. 2 : WF_registryVars(part = "registry" /\ Registry!OnProcessDeath(p))

SmartFairness ==
    /\ WF_smartVars(part = "smart" /\ Smart!RunStep)
    /\ WF_smartVars(part = "smart" /\ Smart!ServerStep)
    /\ WF_smartVars(part = "smart" /\ Smart!DropCallback)
    /\ WF_smartVars(part = "smart" /\ Smart!CancelReturns)

ServerFairness ==
    /\ WF_serverVars(part = "server" /\ Server!MainStep)
    /\ WF_serverVars(part = "server" /\ Server!TrapStep)

QueueFairness ==
    /\ WF_queueVars(part = "queue" /\ Queue!WorkerStep)
    /\ WF_queueVars(part = "queue" /\ Queue!Stop)
    /\ \A q \in {"a", "b"} : WF_queueVars(part = "queue" /\ Queue!QueryStep(q))

QtFairness ==
    /\ WF_qtVars(part = "qt" /\ ~unsafe /\ Qt!FairRunnerStep)
    /\ WF_qtVars(part = "qt" /\ ~unsafe /\ Qt!LoopStep)
    /\ \A q \in {"s", "p"} : WF_qtVars(part = "qt" /\ ~unsafe /\ Qt!FairWorkerStep(q))

LiveSpec ==
    /\ LiveInit /\ [][LiveNext]_liveVars
    /\ ReplyFairness /\ RegistryFairness /\ SmartFairness /\ ServerFairness
    /\ QueueFairness /\ QtFairness

(* Every reply object is finished and freed, and the run time can be       *)
(* stopped at any time (ReplyObject::finished, ~ReplyObject,               *)
(* RuntimeImpl::destroy(); EventuallyEnds and StopReturns in ReplyObject). *)
ReplyEnds == EventuallyEnds /\ StopReturns

(* Every call of the registry returns, though processes hang and messages  *)
(* get lost, and the death of a process that is watched is noticed         *)
(* (RegistryObject; CallsReturn and DeathNoticed in Registry).             *)
RegistryServes == []Registry!TypeOK /\ Registry!CallsReturn /\ Registry!DeathNoticed

(* A remote query pushes what the server answered, however it was cut into *)
(* chunks, and ends, with an answer, an error or a cancellation            *)
(* (SSQueryObject, SmartScopesClient; AnswerComplete and RemoteAnswered in *)
(* SmartQuery).                                                            *)
RemoteQueriesEnd ==
    []Smart!AnswerComplete /\ []<>(part = "smart" => Smart!RemoteAnswered)

(* A signal that the slot was called for ends the process, and no scope    *)
(* process is left behind (main() of the registry and of the smart scopes  *)
(* proxy; ChildrenReaped and SignalEnds in ServerProcess).                 *)
ServersEnd == []Server!ChildrenReaped /\ Server!SignalEnds

(* What a scope hands to a thread of its own is answered: see              *)
(* ResultsComplete and QueueServes in QueueScopes (MyScope::run of the     *)
(* demo scopes C and D), HandlersSafe and RunReachesScope in QtBridge      *)
(* (QScopeBaseAPI, QSearchQueryBaseAPI, QPreviewQueryBaseAPI).             *)
ScopesAnswer ==
    /\ []Queue!ResultsComplete /\ Queue!QueueServes
    /\ [](Qt!TypeOK /\ Qt!HandlersSafe) /\ Qt!RunReachesScope

=============================================================================
