---------------------------- MODULE ServerProcess ----------------------------
(* The life of the two server processes, the scope registry (main() of     *)
(* scoperegistry.cpp) and the smart scopes proxy (main() of                *)
(* smartscopesproxy.cpp): a thread traps termination signals, the run time *)
(* is created, the signal is connected to its destruction, objects are     *)
(* added to the middleware, and main() waits for the middleware to shut    *)
(* down and unwinds.  The registry's scope processes are its children,     *)
(* killed by the destructor of the RegistryObject, which needs the thread  *)
(* that traps SIGCHLD.                                                     *)
EXTENDS Naturals

CONSTANT MaxSignals     \* bound on termination signals

VARIABLES program,      \* "registry" or "proxy"
          main,         \* position of main()
          signals,      \* signals that were sent
          raised,       \* signals trapped, not yet handed to the slots
          trap,         \* the thread of termination_trap: "none", "idle", "destroy", "joined"
          childTrap,    \* the registry's thread of child_trap: "none", "running", "joined"
          connected,    \* whether the slot that destroys the run time is connected
          caught,       \* a signal was handed to that slot
          rt,           \* run time: "none", "up", "destroyed"
          servants,     \* whether the objects are in the middleware
          holders,      \* who holds a shared_ptr to the (SS)RegistryObject
          children,     \* whether a scope process of the registry runs
          status        \* exit_status

vars == <<program, main, signals, raised, trap, childTrap, connected, caught, rt,
          servants, holders, children, status>>
sigVars == <<signals, raised, trap, childTrap, connected, caught>>

Alive == holders # {}

Init ==
    /\ program \in {"registry", "proxy"}
    /\ main = "start" /\ signals = 0 /\ raised = 0
    /\ trap = "none" /\ childTrap = "none"
    /\ connected = FALSE /\ caught = FALSE /\ rt = "none"
    /\ servants = FALSE /\ holders = {} /\ children = FALSE /\ status = 1

(* Who lets go of the object last destroys it; ~RegistryObject() kills the *)
(* scope processes.                                                        *)
Hold(h) ==
    /\ holders' = h
    /\ children' = (children /\ h # {})

(* SignalThreadWrapper(): signals are blocked for all threads and taken by *)
(* the traps' threads.                                                     *)
StartTraps ==
    /\ program = "registry" /\ main = "start" /\ main' = "runtime"
    /\ trap' = "idle" /\ childTrap' = "running"
    /\ UNCHANGED <<program, signals, raised, connected, caught, rt, servants, holders,
                   children, status>>

(* The proxy has no children, and no trap for SIGCHLD.                     *)
StartProxyTrap ==
    /\ program = "proxy" /\ main = "start" /\ main' = "runtime"
    /\ trap' = "idle"
    /\ UNCHANGED <<program, signals, raised, childTrap, connected, caught, rt, servants,
                   holders, children, status>>

(* The configuration is read and the run time created, or that throws.     *)
CreateRuntime ==
    /\ main = "runtime"
    /\ \/ main' = "connect" /\ rt' = "up"
       \/ main' = "unwind" /\ UNCHANGED rt
    /\ UNCHANGED <<program, sigVars, servants, holders, children, status>>

Connect ==
    /\ main = "connect" /\ main' = "create"
    /\ connected' = TRUE
    /\ UNCHANGED <<program, signals, raised, trap, childTrap, caught, rt, servants, holders,
                   children, status>>

(* The registry object, and two watchers whose lambdas hold copies of the  *)
(* shared_ptr; factory() throws once the run time is destroyed, and what   *)
(* is read from the disk may throw as well.                                *)
CreateObjects ==
    /\ program = "registry" /\ main = "create"
    /\ \/ rt = "up" /\ main' = "add" /\ holders' = {"main", "watchers"}
       \/ main' = "unwind" /\ UNCHANGED holders
    /\ UNCHANGED <<program, sigVars, rt, servants, children, status>>

(* The proxy's registry and scope objects; what comes from the server or   *)
(* the cache may throw.                                                    *)
CreateProxyObjects ==
    /\ program = "proxy" /\ main = "create"
    /\ \/ rt = "up" /\ main' = "add" /\ holders' = {"main"}
       \/ main' = "unwind" /\ UNCHANGED holders
    /\ UNCHANGED <<program, sigVars, rt, servants, children, status>>

(* add_registry_object(), which throws if the middleware was stopped; the  *)
(* registry's main() then drops its own reference.                         *)
AddServants ==
    /\ program = "registry" /\ main = "add"
    /\ IF rt = "up"
       THEN main' = "wait" /\ servants' = TRUE /\ holders' = (holders \cup {"middleware"}) \ {"main"}
       ELSE main' = "unwind" /\ UNCHANGED <<servants, holders>>
    /\ UNCHANGED <<program, sigVars, rt, children, status>>

(* The proxy adds its registry object and then, which may throw in turn,   *)
(* its scope object.                                                       *)
AddProxyServants ==
    /\ program = "proxy" /\ main = "add"
    /\ IF rt = "up"
       THEN main' = "addScope" /\ servants' = TRUE /\ holders' = holders \cup {"middleware"}
       ELSE main' = "unwind" /\ UNCHANGED <<servants, holders>>
    /\ UNCHANGED <<program, sigVars, rt, children, status>>
AddScopeObject ==
    /\ main = "addScope" /\ main' = IF rt = "up" THEN "wait" ELSE "unwind"
    /\ UNCHANGED <<program, sigVars, rt, servants, holders, children, status>>

(* A client locates a scope: the registry starts its process.              *)
Locate ==
    /\ program = "registry" /\ servants /\ rt = "up" /\ ~children
    /\ children' = TRUE
    /\ UNCHANGED <<program, main, sigVars, rt, servants, holders, status>>

(* wait_for_shutdown() returns once the middleware has shut down.          *)
WaitForShutdown ==
    /\ main = "wait" /\ rt = "destroyed"
    /\ main' = "unwind" /\ status' = 0
    /\ UNCHANGED <<program, sigVars, rt, servants, holders, children>>

(* main()'s local objects go: the watchers and the pointers to the object. *)
Unwind ==
    /\ main = "unwind" /\ main' = "stopTrap"
    /\ Hold(holders \ {"main", "watchers"})
    /\ UNCHANGED <<program, sigVars, rt, servants, status>>

(* ~SignalThreadWrapper(): the termination trap's thread is joined, and    *)
(* only then is the trap of SIGCHLD stopped.  The slot holds the run time  *)
(* until the trap itself is destroyed.                                     *)
StopUnjoined ==
    /\ main = "stopTrap" /\ main' = "stopChildTrap"
    /\ UNCHANGED <<program, sigVars, rt, servants, holders, children, status>>
StopTerminationTrap ==
    /\ program = "registry" /\ main = "stopTrap" /\ trap = "idle"
    /\ main' = "stopChildTrap" /\ trap' = "joined"
    /\ UNCHANGED <<program, signals, raised, childTrap, connected, caught, rt, servants,
                   holders, children, status>>
StopChildTrap ==
    /\ main = "stopChildTrap"
    /\ main' = "exit" /\ childTrap' = "joined"
    /\ rt' = IF rt = "up" THEN "destroyed" ELSE rt
    /\ Hold({})
    /\ servants' = FALSE
    /\ UNCHANGED <<program, signals, raised, trap, connected, caught, status>>
StopProxyTrap ==
    /\ program = "proxy" /\ main = "stopTrap" /\ trap = "idle"
    /\ main' = "exit" /\ trap' = "joined"
    /\ rt' = IF rt = "up" THEN "destroyed" ELSE rt
    /\ Hold({})
    /\ servants' = FALSE
    /\ UNCHANGED <<program, signals, raised, childTrap, connected, caught, status>>

(* A termination signal is sent to the process and trapped.                *)
Signal ==
    /\ signals < MaxSignals /\ trap \in {"idle", "destroy"}
    /\ signals' = signals + 1 /\ raised' = raised + 1
    /\ UNCHANGED <<program, main, trap, childTrap, connected, caught, rt, servants, holders,
                   children, status>>

(* The trap's thread calls the slots that are connected, perhaps none.     *)
RaiseSignal ==
    /\ trap = "idle" /\ raised > 0
    /\ raised' = raised - 1
    /\ trap' = IF connected THEN "destroy" ELSE "idle"
    /\ caught' = (caught \/ connected)
    /\ UNCHANGED <<program, main, signals, childTrap, connected, rt, servants, holders,
                   children, status>>

(* RuntimeImpl::destroy(), in the trap's thread: the middleware shuts down *)
(* and forgets its servants.                                               *)
DestroyIfServing ==
    /\ trap = "destroy" /\ trap' = "idle"
    /\ rt' = IF servants THEN "destroyed" ELSE rt
    /\ servants' = FALSE
    /\ Hold(holders \ {"middleware"})
    /\ UNCHANGED <<program, main, signals, raised, childTrap, connected, caught, status>>
DestroyRuntime ==
    /\ trap = "destroy" /\ trap' = "idle"
    /\ rt' = "destroyed" /\ servants' = FALSE
    /\ Hold(holders \ {"middleware"})
    /\ UNCHANGED <<program, main, signals, raised, childTrap, connected, caught, status>>

MainStep ==
    \/ StartTraps \/ StartProxyTrap \/ CreateRuntime \/ Connect
    \/ CreateObjects \/ CreateProxyObjects \/ AddServants \/ AddProxyServants \/ AddScopeObject
    \/ WaitForShutdown \/ Unwind \/ StopTerminationTrap \/ StopChildTrap \/ StopProxyTrap
TrapStep == RaiseSignal \/ DestroyRuntime

Next == MainStep \/ TrapStep \/ Locate \/ Signal

Spec == Init /\ [][Next]_vars
FairSpec == Spec /\ WF_vars(MainStep) /\ WF_vars(TrapStep)

(* The thread that hears of the death of children runs as long as the      *)
(* registry object, which kills them in its destructor and waits for their *)
(* death, or the thread that shuts the middleware down ("the child_trap    *)
(* must only be stopped once the termination_trap thread has been joined", *)
(* scoperegistry.cpp); no scope process is left when the process ends.     *)
ChildrenReaped ==
    /\ program = "registry" /\ ((Alive /\ children) \/ trap = "destroy") => childTrap = "running"
    /\ main = "exit" => ~children

(* A signal that the slot was called for ends the process, in whatever     *)
(* state of its start-up it arrives (main(), RuntimeImpl::destroy()).      *)
SignalEnds == []<>(caught => main = "exit")

(* "We shutdown the runtime whenever these signals happen."                *)
(* (SignalThreadWrapper in scoperegistry.cpp)                              *)
SignalAlwaysEnds == (signals > 0) ~> (main = "exit")

(* "Registry object is kept alive only via the shared_ptr held by the      *)
(* middleware. If the middleware shuts down, it clears out the active      *)
(* servant map, which destroys the registry object." (main() of            *)
(* scoperegistry.cpp)                                                      *)
MiddlewareKeepsAlive ==
    (program = "registry" /\ main = "wait" /\ rt = "destroyed") => ~Alive

=============================================================================
