----------------------------- MODULE ScopeRunner ----------------------------
(* The process of a scope: scoperunner, the RuntimeImpl it makes and       *)
(* run_scope().  Three threads: main, the one that is given to the scope's *)
(* run(), and the signal thread, which destroys the run time.              *)
EXTENDS Integers, Sequences, FiniteSets

CONSTANTS Libs,         \* the places where the library is looked for, in order
          MaxSignals

VARIABLES main,         \* where main is
          libs,         \* the places that have a library
          ini,          \* which configuration is bad: of the run time, of the scope, ...
          lib,          \* the place that the library was loaded from
          rt,           \* "none", "alive", "destroyed", "dangling"
          factory,      \* is the MiddlewareFactory there?
          mw,           \* the middleware: "none", "started", "stopped"
          signal,       \* the signal thread: "idle", "in destroy"
          signals,      \* the signals that were sent
          lost,         \* what rt was when a signal had no effect
          set,          \* what ScopeBaseImpl was told
          started,      \* did start() return?
          stops,        \* the number of calls of stop()
          runner,       \* the thread of run(): "none", "running", "returned", "threw"
          states,       \* the states that were pushed to the registry
          ep,           \* is there an exception to be rethrown?
          status        \* the exit status

vars == <<main, libs, ini, lib, rt, factory, mw, signal, signals, lost, set, started, stops, runner,
          states, ep, status>>

(* ScopeBaseImpl: what a scope may ask for, except in its constructor.     *)
Properties == {"scope_directory", "settings_db", "child_scopes_repo", "registry",
               "cache_directory", "app_directory", "tmp_directory"}

-----------------------------------------------------------------------------
(* Leaving run_scope() of scoperunner: rt is a variable of its try block,  *)
(* and the trap is stopped afterwards.                                     *)
Leave(s) == main' = "leave" /\ status' = s

(* The first library that loads and makes a scope.                         *)
LoadScope ==
    /\ main = "load"
    /\ IF libs = {} THEN Leave(1) /\ UNCHANGED lib
       ELSE /\ lib' = CHOOSE l \in libs : \A k \in libs : l <= k
            /\ main' = "create" /\ UNCHANGED status
    /\ UNCHANGED <<libs, ini, rt, factory, mw, signal, signals, lost, set, started, stops, runner, states, ep>>

(* RuntimeImpl(): on failure it destroys itself and throws.                *)
CreateRuntime ==
    /\ main = "create"
    /\ IF "runtime" \in ini THEN Leave(1) /\ UNCHANGED <<rt, factory, mw>>
       ELSE /\ rt' = "alive" /\ factory' = TRUE /\ mw' = "started"
            /\ main' = "factory" /\ UNCHANGED status
    /\ UNCHANGED <<libs, ini, lib, signal, signals, lost, set, started, stops, runner, states, ep>>

(* run_scope(): factory() checks that the run time is not destroyed ...    *)
GetFactory ==
    /\ main = "factory"
    /\ IF rt = "destroyed" THEN Leave(1) ELSE main' = "middleware" /\ UNCHANGED status
    /\ UNCHANGED <<libs, ini, lib, rt, factory, mw, signal, signals, lost, set, started, stops, runner, states, ep>>

(* ... and returns a plain pointer.  Without a factory this is undefined:  *)
(* the process dies, or it goes on with the old middleware.                *)
CreateMiddleware ==
    /\ main = "middleware"
    /\ \/ main' = "settings" /\ UNCHANGED status
       \/ ~ factory /\ main' = "exit" /\ status' = 1
    /\ UNCHANGED <<libs, ini, lib, rt, factory, mw, signal, signals, lost, set, started, stops, runner, states, ep>>

(* The settings (whose schema may be bad), directories and so on.          *)
SetUp ==
    /\ main = "settings"
    /\ IF "settings" \in ini THEN Leave(1) /\ set' = {"scope_directory"}
       ELSE main' = "start" /\ set' = Properties /\ UNCHANGED status
    /\ UNCHANGED <<libs, ini, lib, rt, factory, mw, signal, signals, lost, started, stops, runner, states, ep>>

Start ==
    /\ main = "start"
    /\ \/ started' = TRUE /\ main' = "run" /\ UNCHANGED status
       \/ Leave(1) /\ UNCHANGED started
    /\ UNCHANGED <<libs, ini, lib, rt, factory, mw, signal, signals, lost, set, stops, runner, states, ep>>

(* The thread for run().                                                   *)
SpawnRun ==
    /\ main = "run" /\ main' = "add" /\ runner' = "running"
    /\ UNCHANGED <<libs, ini, lib, rt, factory, mw, signal, signals, lost, set, started, stops, states, ep, status>>

(* The block with "failure during initialization".                         *)
Fail == main' = "join" /\ ep' = TRUE

(* add_scope_object().                                                     *)
AddScopeObject ==
    /\ main = "add"
    /\ IF "scope" \in ini \/ mw = "stopped" THEN Fail ELSE main' = "ready" /\ UNCHANGED ep
    /\ UNCHANGED <<libs, ini, lib, rt, factory, mw, signal, signals, lost, set, started, stops, runner, states, status>>

PushReady ==
    /\ main = "ready"
    /\ IF mw = "stopped" THEN Fail /\ UNCHANGED states
       ELSE main' = "wait" /\ states' = Append(states, "ScopeReady") /\ UNCHANGED ep
    /\ UNCHANGED <<libs, ini, lib, rt, factory, mw, signal, signals, lost, set, started, stops, runner, status>>

(* wait_for_shutdown().                                                    *)
WaitForShutdown ==
    /\ main = "wait" /\ mw = "stopped" /\ main' = "stop"
    /\ UNCHANGED <<libs, ini, lib, rt, factory, mw, signal, signals, lost, set, started, stops, runner, states, ep, status>>

(* call_stop: an exception of stop() is stored.                            *)
CallStop == /\ stops' = stops + 1
            /\ ep' \in {ep, TRUE}

Stop ==
    /\ main = "stop" /\ main' = "stopping" /\ CallStop
    /\ UNCHANGED <<libs, ini, lib, rt, factory, mw, signal, signals, lost, set, started, runner, states, status>>

(* The other run time, which tells the registry; it may fail.              *)
PushStopping ==
    /\ main = "stopping"
    /\ \/ main' = "join" /\ states' = Append(states, "ScopeStopping") /\ UNCHANGED ep
       \/ Fail /\ UNCHANGED states
    /\ UNCHANGED <<libs, ini, lib, rt, factory, mw, signal, signals, lost, set, started, stops, runner, status>>

(* run_future.get().                                                       *)
Join ==
    /\ main = "join" /\ runner \in {"returned", "threw"} /\ main' = "unwind"
    /\ ep' = (ep \/ runner = "threw")
    /\ UNCHANGED <<libs, ini, lib, rt, factory, mw, signal, signals, lost, set, started, stops, runner, states, status>>

(* Mutant: stop() is only called on the normal path.                       *)
UnwindOnly ==
    /\ main = "unwind" /\ UNCHANGED <<stops, ep>>
    /\ Leave(IF ep THEN 1 ELSE 0)
    /\ UNCHANGED <<libs, ini, lib, rt, factory, mw, signal, signals, lost, set, started, runner, states>>

(* The end of run_scope(): cleanup_scope calls stop() if that was not done *)
(* yet.                                                                    *)
Unwind ==
    /\ main = "unwind"
    /\ IF stops = 0 THEN CallStop ELSE UNCHANGED <<stops, ep>>
    /\ Leave(IF ep THEN 1 ELSE 0)
    /\ UNCHANGED <<libs, ini, lib, rt, factory, mw, signal, signals, lost, set, started, runner, states>>

(* The variables of the try block go: ~RuntimeImpl() waits for a destroy() *)
(* that is under way.                                                      *)
LeaveTry ==
    /\ main = "leave" /\ signal = "idle" /\ main' = "trap"
    /\ rt' = IF rt = "none" THEN "none" ELSE "dangling"
    /\ mw' = (IF mw = "none" THEN "none" ELSE "stopped") /\ factory' = FALSE
    /\ UNCHANGED <<libs, ini, lib, signal, signals, lost, set, started, stops, runner, states, ep, status>>

(* ~ThreadWrapper(): the trap is stopped, the process ends.                *)
StopTrap ==
    /\ main = "trap" /\ signal = "idle" /\ main' = "exit"
    /\ UNCHANGED <<libs, ini, lib, rt, factory, mw, signal, signals, lost, set, started, stops, runner, states, ep, status>>

-----------------------------------------------------------------------------
(* run(): a scope that does not return at once returns after stop().       *)
RunReturns ==
    /\ runner = "running" /\ runner' = "returned"
    /\ UNCHANGED <<main, libs, ini, lib, rt, factory, mw, signal, signals, lost, set, started, stops, states, ep, status>>

RunThrows ==
    /\ runner = "running" /\ runner' = "threw"
    /\ UNCHANGED <<main, libs, ini, lib, rt, factory, mw, signal, signals, lost, set, started, stops, states, ep, status>>

(* The handler of the signal: destroy() in two steps.                      *)
Signal ==
    /\ signals < MaxSignals /\ signal = "idle" /\ main # "exit" /\ signals' = signals + 1
    /\ IF rt = "alive" THEN signal' = "in destroy" /\ rt' = "destroyed" /\ UNCHANGED lost
       ELSE lost' = lost \cup {rt} /\ UNCHANGED <<signal, rt>>
    /\ UNCHANGED <<main, libs, ini, lib, factory, mw, set, started, stops, runner, states, ep, status>>

DestroyRuntime ==
    /\ signal = "in destroy" /\ signal' = "idle"
    /\ mw' = "stopped" /\ factory' = FALSE
    /\ UNCHANGED <<main, libs, ini, lib, rt, signals, lost, set, started, stops, runner, states, ep, status>>

(* The adapter of the scope stops the middleware after the idle timeout.   *)
IdleTimeout ==
    /\ main = "wait" /\ mw = "started" /\ mw' = "stopped"
    /\ UNCHANGED <<main, libs, ini, lib, rt, factory, signal, signals, lost, set, started, stops, runner, states, ep, status>>

Init ==
    /\ main = "load" /\ libs \in SUBSET Libs /\ ini \in {{}, {"runtime"}, {"settings"}, {"scope"}} /\ lib = 0
    /\ rt = "none" /\ factory = FALSE /\ mw = "none" /\ signal = "idle" /\ signals = 0 /\ lost = {}
    /\ set = {} /\ started = FALSE /\ stops = 0 /\ runner = "none" /\ states = <<>>
    /\ ep = FALSE /\ status = 0

Main ==
    \/ LoadScope \/ CreateRuntime \/ GetFactory \/ CreateMiddleware \/ SetUp \/ Start \/ SpawnRun
    \/ AddScopeObject \/ PushReady \/ WaitForShutdown \/ Stop \/ PushStopping \/ Join \/ Unwind
    \/ LeaveTry \/ StopTrap

Next == Main \/ RunReturns \/ RunThrows \/ Signal \/ DestroyRuntime \/ IdleTimeout

Spec == Init /\ [][Next]_vars

(* The threads run; a scope returns from run() when it is stopped.         *)
FairSpec == Spec /\ WF_vars(Main) /\ WF_vars(DestroyRuntime) /\ WF_vars(stops > 0 /\ RunReturns)

-----------------------------------------------------------------------------
(* "If start() throws an exception, stop() will _not_ be called"           *)
(* (ScopeBase.h), and otherwise it is called once before the process ends, *)
(* whatever fails and whenever a signal comes; everything that ScopeBase   *)
(* offers is there when start() is called; and the registry hears that the *)
(* scope is ready before it hears that it stops, and the latter only after *)
(* stop().                                                                 *)
StopPaired ==
    /\ stops <= 1 /\ (stops = 1 => started)
    /\ main \in {"leave", "trap"} /\ started => stops = 1
    /\ started => set = Properties
    /\ states \in {<<>>, <<"ScopeReady">>, <<"ScopeReady", "ScopeStopping">>}
    /\ Len(states) = 2 => stops = 1

(* "if the scope implements run() and did not return from run(), it must   *)
(* return from run() in response to the call to stop()" (ScopeBase.h): a   *)
(* process whose middleware was stopped ends.                              *)
ProcessEnds == mw = "stopped" ~> main = "exit"

(* "If run() throws an exception, the runtime handles the exception and    *)
(* calls stop() in response." (ScopeBase.h)                                *)
StopAfterRunThrows == runner = "threw" ~> stops > 0

(* The factory is there when it is used, and the handler of a signal finds *)
(* the run time.                                                           *)
PointersValid == (main = "middleware" => factory) /\ "dangling" \notin lost

=============================================================================
