------------------------------ MODULE Registry ------------------------------
(***************************************************************************)
(* The scope registry's process management: class RegistryObject and its   *)
(* nested class ScopeProcess.  A client calls locate(), and the registry   *)
(* launches the scope's process unless it is already running.  Everything  *)
(* here is about ONE scope id; different ids share only mutex_.            *)
(*                                                                         *)
(* Four kinds of actors interleave:                                        *)
(*  - Locators, threads of the registry's adapter, execute locate();       *)
(*  - Admin, the thread that scans the scope directories, executes         *)
(*    add_local_scope() and remove_local_scope() and, in the end, the      *)
(*    registry's destructor;                                               *)
(*  - the state receiver's thread applies "ready" and "stopping" messages, *)
(*    and the death observer's thread applies process deaths;              *)
(*  - the scope processes start up, announce themselves, stop and crash.   *)
(*                                                                         *)
(* process_mutex_ is held for whole steps and released only by             *)
(* wait_for_state(), so it needs no variable: a step is what a thread does *)
(* between two waits.  mutex_ does, because add_local_scope() destroys an  *)
(* old ScopeProcess, and so waits for its process, without releasing it.   *)
(***************************************************************************)
EXTENDS Integers, FiniteSets, FiniteSetsExt, WellFoundedInduction, TLAPS

CONSTANTS
    Locators,    \* adapter threads that execute locate()
    Admin,       \* the thread that adds and removes scopes
    DebugMode,   \* the scope's debug mode: timeout_ms is -1, no wait times out
    HandStarts,  \* may somebody start a process of the scope by hand?
    MaxExecs,    \* bound: processes the registry may launch
    MaxAdds      \* bound: calls of add_local_scope()

ASSUME RegistryAssumption ==
    /\ IsFiniteSet(Locators) /\ Admin \notin Locators
    /\ DebugMode \in BOOLEAN /\ HandStarts \in BOOLEAN
    /\ MaxExecs \in Nat /\ MaxAdds \in Nat

VARIABLES
    entry,     \* the ScopeProcess in scope_processes_, 0 when there is none
    added,     \* number of ScopeProcess objects created so far
    obj,       \* the ScopeProcess objects, 1 .. MaxAdds
    mutex,     \* is mutex_ held by an add_local_scope() that waits?
    thr,       \* each thread's position, and the object its `proc' refers to
    procs,     \* the operating system's processes
    msgs,      \* number of state messages under way to the state receiver
    misled     \* history: live processes whose handle another launch overwrote,
               \* or which were taken for started by hand and were not

vars == <<entry, added, obj, mutex, thr, procs, msgs, misled>>

Threads == Locators \cup {Admin}
NoPid == -1                  \* ChildProcess::invalid()
ByHand == 0                  \* a scope process that the registry did not launch
Pids == 0 .. MaxExecs

ProcessState == {"Stopped", "Starting", "Running", "Stopping"}
Message == {"ScopeReady", "ScopeStopping"}

Object == [state : ProcessState, pid : Pids \cup {NoPid}, manual : BOOLEAN]
Process == [st : {"none", "starting", "ready", "stopping", "dead"},
            watched : BOOLEAN]

\* What a thread is doing.  The pcs in KillPCs wait in kill() for Stopped, and
\* are named for what follows kill().
KillPCs == {"launch", "throw", "erase", "insert", "destroy", "gone"}
PCs == KillPCs \cup {"idle", "exec", "waitStopped", "waitRunning", "release",
                     "replace", "remove", "erasing", "closing", "terminated"}

NewScopeProcess == [state |-> "Stopped", pid |-> NoPid, manual |-> FALSE]
Idle == [pc |-> "idle", o |-> 0]

Alive(ps, p) == p # NoPid /\ ps[p].st \in {"starting", "ready", "stopping"}

-----------------------------------------------------------------------------
(* ScopeProcess: the parts that run with process_mutex_ held *)

\* update_state_unlocked().  Running out of any state but Starting is taken for
\* a scope that somebody started by hand, and such a scope counts as stopped
\* as soon as it says that it is stopping.
UpdateState(ob, new) ==
    CASE new = ob.state -> ob
      [] new = "Running" /\ ob.state # "Running" ->
           [ob EXCEPT !.state = new, !.manual = @ \/ ob.state # "Starting"]
      [] new = "Stopping" /\ ob.state # "Stopping" /\ ob.manual ->
           [ob EXCEPT !.state = "Stopped", !.manual = FALSE]
      [] OTHER -> [ob EXCEPT !.state = new]

ClearHandle(ob) == UpdateState([ob EXCEPT !.pid = NoPid], "Stopped")

\* A thread leaves thread t's object as ob and the processes as ps, and goes on
\* at pc.
Goto(t, pc, ob, ps) ==
    /\ thr' = [thr EXCEPT ![t].pc = pc]
    /\ obj' = [obj EXCEPT ![thr[t].o] = ob]
    /\ procs' = ps

\* Thread t is done with its object, which does not exist any more.
Destroyed(t, to, ps) ==
    /\ thr' = [thr EXCEPT ![t] = to]
    /\ obj' = [obj EXCEPT ![thr[t].o] = NewScopeProcess]
    /\ procs' = ps

\* Mutant of Launch: the pid that the executor returned is not checked.
LaunchUnchecked(t, ob, ps) ==
    /\ Goto(t, "waitRunning", [ob EXCEPT !.state = "Starting", !.pid = NoPid - 1], ps)
    /\ UNCHANGED <<entry, added, mutex, misled>>

\* exec(), part 2: launch the scope.  The path of the configuration file may
\* not resolve, which throws and leaves the state at Starting; the executor may
\* fail; or there is a new process, whose handle replaces the old one.
Launch(t, ob, ps) ==
    LET starting == UpdateState(ob, "Starting")
        old == {ob.pid} \ {NoPid}
        unused == {p \in Pids \ {ByHand} : ps[p].st = "none"}
    IN  /\ \/ /\ Goto(t, "release", starting, ps)
              /\ UNCHANGED misled
           \/ /\ Goto(t, "release", ClearHandle(starting), ps)
              /\ misled' = misled \cup old
           \/ LET p == Min(unused)
              IN  /\ unused # {}                \* the bound MaxExecs
                  /\ Goto(t, "waitRunning", [starting EXCEPT !.pid = p],
                          [ps EXCEPT ![p].st = "starting"])
                  /\ misled' = misled \cup old \cup (IF ob.manual THEN {p} ELSE {})
        /\ UNCHANGED <<entry, added, mutex>>

\* What a thread does once its kill() has returned or thrown.
AfterKill(t, next, ob, ps) ==
    \/ /\ next = "launch"                   \* exec(), after 1.2
       /\ Launch(t, ob, ps)
    \/ /\ next = "throw"                    \* exec(), after 3.2
       /\ Goto(t, "release", ob, ps)
       /\ UNCHANGED <<entry, added, mutex, misled>>
    \/ /\ next = "erase"                    \* remove_local_scope()
       /\ Goto(t, "erasing", ob, ps)
       /\ UNCHANGED <<entry, added, mutex, misled>>
    \/ /\ next = "insert"                   \* add_local_scope(), old one gone
       /\ Destroyed(t, Idle, ps)
       /\ added' = added + 1
       /\ entry' = added + 1
       /\ mutex' = FALSE
       /\ UNCHANGED misled
    \/ /\ next = "destroy"                  \* ~ScopeProcess()
       /\ Destroyed(t, Idle, ps)
       /\ UNCHANGED <<entry, added, mutex, misled>>
    \/ /\ next = "gone"                     \* ~RegistryObject()
       /\ Destroyed(t, [Idle EXCEPT !.pc = "terminated"], ps)
       /\ entry' = 0
       /\ UNCHANGED <<added, mutex, misled>>

\* kill() up to its wait: nothing to do for a stopped scope; SIGTERM to a handle
\* without a process throws, and a dead child may or may not have been reaped.
\* SIGTERM itself changes nothing here: a process may stop at any time.
Kill(t, next, ob, ps) ==
    \/ /\ ob.state = "Stopped"
       /\ AfterKill(t, next, ob, ps)
    \/ /\ ob.state # "Stopped"
       /\ ~Alive(ps, ob.pid)
       /\ AfterKill(t, next, ClearHandle(ob), ps)
    \/ /\ ob.state # "Stopped" /\ ob.pid # NoPid
       /\ Goto(t, next, ob, ps)
       /\ UNCHANGED <<entry, added, mutex, misled>>

\* Mutant of KillEnd: the wait has no time limit.
KillEndPatiently(t) ==
    /\ thr[t].pc \in KillPCs
    /\ obj[thr[t].o].state = "Stopped"
    /\ AfterKill(t, thr[t].pc, ClearHandle(obj[thr[t].o]), procs)
    /\ UNCHANGED msgs

\* kill() from its wait on: Stopped, or the time is up and SIGKILL ends whatever
\* process the handle designates by now.
KillEnd(t) ==
    LET ob == obj[thr[t].o]
        stopped == ob.state = "Stopped"
    IN  /\ thr[t].pc \in KillPCs
        /\ stopped \/ ~DebugMode
        /\ AfterKill(t, thr[t].pc, ClearHandle(ob),
                     IF stopped \/ ob.pid = NoPid THEN procs
                     ELSE [procs EXCEPT ![ob.pid].st = "dead"])
        /\ UNCHANGED msgs

-----------------------------------------------------------------------------
(* locate() *)

\* locate() up to the call of exec().  The guard on the processes left bounds
\* the model: each call launches at most one.
Locate(t) ==
    /\ thr[t].pc = "idle" /\ thr[Admin].pc \notin {"gone", "terminated"}
    /\ ~mutex /\ entry # 0
    /\ Cardinality({p \in Pids \ {ByHand} : procs[p].st = "none"})
         > Cardinality({u \in Locators : thr[u].pc # "idle"})
    /\ thr' = [thr EXCEPT ![t] = [pc |-> "exec", o |-> entry]]
    /\ UNCHANGED <<entry, added, obj, mutex, procs, msgs, misled>>

\* exec(), part 1.
Exec(t) ==
    LET ob == obj[thr[t].o]
    IN  /\ thr[t].pc = "exec"
        /\ \/ /\ ob.state = "Running"
              /\ Goto(t, "release", ob, procs)
              /\ UNCHANGED <<entry, added, mutex, misled>>
           \/ /\ ob.state = "Stopping"
              /\ Goto(t, "waitStopped", ob, procs)
              /\ UNCHANGED <<entry, added, mutex, misled>>
           \/ /\ ob.state \in {"Stopped", "Starting"}
              /\ Launch(t, ob, procs)
        /\ UNCHANGED msgs

\* exec(), 1.2: the wait for Stopped ends, or times out.
ExecStopped(t) ==
    LET ob == obj[thr[t].o]
    IN  /\ thr[t].pc = "waitStopped"
        /\ \/ ob.state = "Stopped" /\ Launch(t, ob, procs)
           \/ ob.state # "Stopped" /\ ~DebugMode /\ Kill(t, "launch", ob, procs)
        /\ UNCHANGED msgs

\* DeathObserver::add(): the death of a watched process will be reported.  When
\* the process is dead already the observer may be too late to notice.
Watch(p) ==
    {[procs EXCEPT ![p].watched = @ \/ w] :
        w \in IF Alive(procs, p) THEN {TRUE} ELSE BOOLEAN}

\* exec(), parts 3 and 4: the wait for Running ends, and the process is added to
\* the death observer, or the wait times out and locate() fails.
ExecRunning(t) ==
    LET ob == obj[thr[t].o]
    IN  /\ thr[t].pc = "waitRunning"
        /\ \/ /\ ob.state = "Running"
              /\ \E ps \in IF ob.pid = NoPid THEN {procs} ELSE Watch(ob.pid) :
                    Goto(t, "release", ob, ps)
              /\ UNCHANGED <<entry, added, mutex, misled>>
           \/ ob.state # "Running" /\ ~DebugMode /\ Kill(t, "throw", ob, procs)
        /\ UNCHANGED msgs

\* Mutant of Release: a destructor that does not kill.
ReleaseOnly(t) ==
    /\ thr[t].pc = "release"
    /\ thr' = [thr EXCEPT ![t] = Idle]
    /\ UNCHANGED <<entry, added, obj, mutex, procs, msgs, misled>>

\* The caller of exec() lets go of its ScopeProcess.  Whoever lets go last
\* destroys it, and the destructor kills the process.
Release(t) ==
    LET o == thr[t].o
        last == entry # o /\ \A u \in Threads \ {t} : thr[u].o # o
    IN  /\ thr[t].pc = "release"
        /\ \/ /\ ~last
              /\ thr' = [thr EXCEPT ![t] = Idle]
              /\ UNCHANGED <<entry, added, obj, mutex, procs, misled>>
           \/ last /\ Kill(t, "destroy", obj[o], procs)
        /\ UNCHANGED msgs

-----------------------------------------------------------------------------
(* add_local_scope(), remove_local_scope(), ~RegistryObject() *)

\* add_local_scope(): an existing entry is erased first, which destroys its
\* ScopeProcess, with mutex_ held, unless a locate() still refers to it.
AddLocalScope ==
    /\ thr[Admin].pc = "idle" /\ ~mutex /\ added < MaxAdds
    /\ IF entry # 0 /\ \A u \in Threads : thr[u].o # entry
         THEN /\ thr' = [thr EXCEPT ![Admin] = [pc |-> "replace", o |-> entry]]
              /\ entry' = 0
              /\ mutex' = TRUE
              /\ UNCHANGED added
         ELSE /\ entry' = added + 1
              /\ added' = added + 1
              /\ UNCHANGED <<mutex, thr>>
    /\ UNCHANGED <<obj, procs, msgs, misled>>

ReplaceKill ==
    /\ thr[Admin].pc = "replace"
    /\ Kill(Admin, "insert", obj[thr[Admin].o], procs)
    /\ UNCHANGED msgs

\* remove_local_scope(): find, kill without mutex_, erase, let go.
RemoveLocalScope ==
    /\ thr[Admin].pc = "idle" /\ ~mutex /\ entry # 0
    /\ thr' = [thr EXCEPT ![Admin] = [pc |-> "remove", o |-> entry]]
    /\ UNCHANGED <<entry, added, obj, mutex, procs, msgs, misled>>

RemoveKill ==
    /\ thr[Admin].pc = "remove"
    /\ Kill(Admin, "erase", obj[thr[Admin].o], procs)
    /\ UNCHANGED msgs

Erase ==
    /\ thr[Admin].pc = "erasing" /\ ~mutex
    /\ entry' = 0
    /\ thr' = [thr EXCEPT ![Admin].pc = "release"]
    /\ UNCHANGED <<added, obj, mutex, procs, msgs, misled>>

\* ~RegistryObject(), once the middleware has stopped the registry's adapters.
\* A running scope is marked as stopping, for no message will come any more.
\* Deaths are still reported for the scope that the destructor's body kills.
Shutdown ==
    /\ \A t \in Threads : thr[t].pc = "idle"
    /\ ~mutex /\ entry # 0
    /\ thr' = [thr EXCEPT ![Admin] = [pc |-> "closing", o |-> entry]]
    /\ obj' = IF obj[entry].state = "Running"
                THEN [obj EXCEPT ![entry] = UpdateState(@, "Stopping")]
                ELSE obj
    /\ entry' = IF obj[entry].state = "Running" THEN entry ELSE 0
    /\ UNCHANGED <<added, mutex, procs, msgs, misled>>

ShutdownKill ==
    /\ thr[Admin].pc = "closing"
    /\ Kill(Admin, "gone", obj[thr[Admin].o], procs)
    /\ UNCHANGED msgs

-----------------------------------------------------------------------------
(* Callbacks of the state receiver and of the death observer *)

\* on_state_received(): the message names the scope, not the process.
OnStateReceived ==
    /\ ~mutex /\ thr[Admin].pc \notin {"closing", "gone", "terminated"}
    /\ \E m \in {k \in Message : msgs[k] > 0} :
         /\ msgs' = [msgs EXCEPT ![m] = @ - 1]
         /\ IF entry = 0 THEN UNCHANGED <<obj, misled>>
            ELSE LET ob == UpdateState(obj[entry],
                               IF m = "ScopeReady" THEN "Running" ELSE "Stopping")
                 IN  /\ obj' = [obj EXCEPT ![entry] = ob]
                     /\ misled' = misled \cup
                            {p \in Pids : p = ob.pid /\ ob.manual}
    /\ UNCHANGED <<entry, added, mutex, thr, procs>>

\* Mutant of OnProcessDeath: only the death of a running scope counts.
OnProcessDeathIfRunning(p) ==
    /\ procs[p].watched /\ ~Alive(procs, p)
    /\ ~mutex
    /\ procs' = [procs EXCEPT ![p].watched = FALSE]
    /\ obj' = IF entry # 0 /\ obj[entry].pid = p /\ obj[entry].state = "Running"
                THEN [obj EXCEPT ![entry] = ClearHandle(@)]
                ELSE obj
    /\ UNCHANGED <<entry, added, mutex, thr, msgs, misled>>

\* on_process_death()
OnProcessDeath(p) ==
    /\ procs[p].watched /\ ~Alive(procs, p)
    /\ ~mutex
    /\ procs' = [procs EXCEPT ![p].watched = FALSE]
    /\ obj' = IF entry # 0 /\ obj[entry].pid = p
                THEN [obj EXCEPT ![entry] = ClearHandle(@)]
                ELSE obj
    /\ UNCHANGED <<entry, added, mutex, thr, msgs, misled>>

-----------------------------------------------------------------------------
(* The scope processes *)

StartByHand ==
    /\ HandStarts /\ procs[ByHand].st = "none"
    /\ procs' = [procs EXCEPT ![ByHand].st = "starting"]
    /\ UNCHANGED <<entry, added, obj, mutex, thr, msgs, misled>>

\* run_scope(): the scope's servant is in place, and the registry is told.
BecomeReady(p) ==
    /\ procs[p].st = "starting"
    /\ procs' = [procs EXCEPT ![p].st = "ready"]
    /\ msgs' = [msgs EXCEPT !["ScopeReady"] = @ + 1]
    /\ UNCHANGED <<entry, added, obj, mutex, thr, misled>>

\* run_scope(): the middleware has shut down, after SIGTERM or the idle time-out.
BeginStopping(p) ==
    /\ procs[p].st = "ready"
    /\ procs' = [procs EXCEPT ![p].st = "stopping"]
    /\ msgs' = [msgs EXCEPT !["ScopeStopping"] = @ + 1]
    /\ UNCHANGED <<entry, added, obj, mutex, thr, misled>>

\* A process exits, or crashes.
Exit(p) ==
    /\ Alive(procs, p)
    /\ procs' = [procs EXCEPT ![p].st = "dead"]
    /\ misled' = misled \ {p}
    /\ UNCHANGED <<entry, added, obj, mutex, thr, msgs>>

-----------------------------------------------------------------------------

Init ==
    /\ entry = 0 /\ added = 0
    /\ obj = [o \in 1 .. MaxAdds |-> NewScopeProcess]
    /\ mutex = FALSE
    /\ thr = [t \in Threads |-> Idle]
    /\ procs = [p \in Pids |-> [st |-> "none", watched |-> FALSE]]
    /\ msgs = [m \in Message |-> 0]
    /\ misled = {}

LocateStep(t) ==
    Exec(t) \/ ExecStopped(t) \/ ExecRunning(t) \/ KillEnd(t) \/ Release(t)

AdminStep ==
    \/ ReplaceKill \/ RemoveKill \/ Erase \/ ShutdownKill
    \/ KillEnd(Admin) \/ Release(Admin)

Next ==
    \/ \E t \in Locators : Locate(t) \/ LocateStep(t)
    \/ AddLocalScope \/ RemoveLocalScope \/ Shutdown \/ AdminStep
    \/ OnStateReceived \/ \E p \in Pids : OnProcessDeath(p)
    \/ StartByHand
    \/ \E p \in Pids : BecomeReady(p) \/ BeginStopping(p) \/ Exit(p)

Spec == Init /\ [][Next]_vars

\* Every thread in a call, and the death observer's, keep being scheduled.
\* Nobody has to call the registry.  Nothing is assumed of the processes, which
\* may hang, whatever they are sent, until SIGKILL ends them, nor of their
\* oneway messages, which may never arrive.
FairSpec ==
    /\ Spec
    /\ \A t \in Locators : WF_vars(LocateStep(t))
    /\ WF_vars(AdminStep)
    /\ \A p \in Pids : WF_vars(OnProcessDeath(p))

-----------------------------------------------------------------------------
(* Properties *)

TypeOK ==
    /\ entry \in 0 .. MaxAdds /\ added \in 0 .. MaxAdds
    /\ obj \in [1 .. MaxAdds -> Object]
    /\ mutex \in BOOLEAN
    /\ thr \in [Threads -> [pc : PCs, o : 0 .. MaxAdds]]
    /\ procs \in [Pids -> Process]
    /\ msgs \in [Message -> 0 .. MaxExecs + 1]
    /\ misled \subseteq Pids

\* A process that the registry launched and that neither exited nor began to
\* stop has a handle in a ScopeProcess that the registry, or a call in
\* progress, still refers to: it can be found and killed.  This is so through
\* every mixture of locate(), add_local_scope() and remove_local_scope(), of
\* time-outs, failures to launch, and late messages.  A process escapes only
\* in the two ways `misled' records: a second locate() launched another one
\* while the first was starting, or a late message made the registry believe
\* that somebody started the scope by hand.
Supervised ==
    \A p \in Pids \ (misled \cup {ByHand}) :
        procs[p].st \in {"starting", "ready"} =>
            \E o \in 1 .. added :
                /\ obj[o].pid = p
                /\ entry = o \/ \E t \in Threads : thr[t].o = o

\* locate(), add_local_scope(), remove_local_scope() and the destructor return,
\* whatever the processes and the other callers do, because every wait for a
\* state is bounded by Process.Timeout.  (In debug mode it is not.)
CallsReturn ==
    \A t \in Threads :
        []<>(thr[t].pc \in {"idle", "terminated"})

\* The registry does not believe in a dead process: when a process that it
\* watches dies, its ScopeProcess gives up the handle, even when the death is
\* reported in the middle of a locate(), a kill() or a replacement.
DeathNoticed ==
    \A p \in Pids \ {ByHand} :
        (procs[p].watched /\ ~Alive(procs, p))
            ~> \A o \in 1 .. MaxAdds : obj[o].pid # p

\* "If scope is known already, remove it's details and kill it if it is
\* running": an add_local_scope() that waits for the old process gets to know
\* of its death.  In debug mode it never does: it holds mutex_, which
\* on_process_death() needs.
ReplacementReturns ==
    (thr[Admin].pc = "insert" /\ ~Alive(procs, obj[thr[Admin].o].pid))
        ~> thr[Admin].pc # "insert"

(* The threads that execute locate() are interchangeable.                  *)
Symmetry == {[l \in Locators |-> f[l]] : f \in Bijection(Locators, Locators)}

-----------------------------------------------------------------------------
(***************************************************************************)
(* Proof that launched processes stay supervised.  Supervised alone is not *)
(* inductive.  A handle is cleared or overwritten in many places, and each *)
(* is harmless only because of what Sound says of a ScopeProcess that      *)
(* counts as stopped or as started by hand; and an object is dropped in    *)
(* many places, each harmless because of what Position says of the threads *)
(* and of scope_processes_.                                                *)
(***************************************************************************)

\* Nobody has to be able to find process p: it does not run, or it is one of
\* those that the history variable excuses.
Lost(ps, mis, p) ==
    p = NoPid \/ p \in mis \/ ps[p].st \notin {"starting", "ready"}

\* A ScopeProcess that counts as stopped, or as started by hand, has no handle
\* of a process that matters; and a handle is that of a process which the
\* registry launched.
Sound(ob, ps, mis) ==
    /\ ob \in Object
    /\ ob.manual \/ ob.state = "Stopped" => Lost(ps, mis, ob.pid)
    /\ ob.pid # NoPid => ob.pid # ByHand /\ ps[ob.pid].st # "none"

\* scope_processes_, or a call in progress, has a reference to object o.
Referenced(o) == entry = o \/ \E t \in Threads : thr[t].o = o

AtRest == {"idle", "terminated"}
AdminPCs == {"replace", "insert", "remove", "erase", "erasing", "closing",
             "gone", "terminated"}

\* Where the threads are.  Only Admin changes scope_processes_, and while it
\* replaces, removes or shuts down it knows what it finds there.
Position ==
    /\ added \in 0 .. MaxAdds /\ entry \in 0 .. added
    /\ thr \in [Threads -> [pc : PCs, o : 0 .. added]]
    /\ \A t \in Threads : thr[t].o = 0 <=> thr[t].pc \in AtRest
    /\ \A t \in Threads : thr[t].pc \in AdminPCs => t = Admin
    /\ thr[Admin].pc \in {"replace", "insert"} => entry = 0 /\ added < MaxAdds
    /\ thr[Admin].pc \in {"remove", "erase", "erasing"} => entry = thr[Admin].o
    /\ thr[Admin].pc \in {"closing", "gone"} => entry \in {0, thr[Admin].o}

\* The objects and the processes.
Handles ==
    /\ obj \in [1 .. MaxAdds -> Object]
    /\ procs \in [Pids -> Process]
    /\ misled \subseteq Pids
    /\ \A o \in 1 .. MaxAdds : Sound(obj[o], procs, misled)

\* The inductive invariant.
IInv == Position /\ Handles /\ Supervised

\* What a step may make of the processes when it leaves handle q behind: no
\* process is forgotten, and one that has to be found either had to be found
\* before or is q.
Evolves(ps, mis, q) ==
    \A p \in Pids :
        /\ procs[p].st # "none" =>
              /\ ps[p].st # "none"
              /\ Lost(procs, misled, p) => Lost(ps, mis, p)
        /\ \/ p = q \/ p = ByHand \/ Lost(ps, mis, p) \/ ~Lost(procs, misled, p)

-----------------------------------------------------------------------------
(* The helpers *)

\* The invalid pid is no process, and processes are numbered.
LEMMA PidFacts ==
    /\ NoPid \notin Pids /\ ByHand \in Pids /\ NoPid # ByHand
    /\ Pids \subseteq Nat
  BY RegistryAssumption DEF NoPid, Pids, ByHand

\* < on the natural numbers is well-founded.
LEMMA NatWellFounded == IsWellFoundedOn({p \in Nat \X Nat : p[1] < p[2]}, Nat)
  BY NatLessThanWellFounded, Zenon DEF OpToRel

\* The process that Launch takes is one of the unused.
LEMMA MinIsMember ==
    ASSUME NEW T, T \subseteq Nat, T # {}
    PROVE  Min(T) \in T
<1> DEFINE R == {p \in Nat \X Nat : p[1] < p[2]}
<1>1. IsWellFoundedOn(R, Nat)
  BY NatWellFounded
<1>2. \A x, y \in Nat : y < x => <<y, x>> \in R
  OBVIOUS
<1> HIDE DEF R
<1>3. PICK x \in T : \A y \in T : ~(<<y, x>> \in R)
  BY <1>1, WFMin, ZenonT(30)
<1>4. ASSUME NEW y \in T
      PROVE  x <= y
  <2>1. x \in Nat /\ y \in Nat
    OBVIOUS
  <2>2. ~(y < x)
    BY <1>2, <1>3, <2>1, ZenonT(30)
  <2>3. QED
    BY <2>1, <2>2
<1>5. QED
  BY <1>4, ZenonT(30) DEF Min

\* update_state_unlocked() never touches the handle.  It leaves a scope stopped
\* that is told to stop only when that counted as started by hand.
LEMMA UpdateStateFacts ==
    ASSUME NEW ob \in Object, NEW new \in ProcessState
    PROVE  LET ob2 == UpdateState(ob, new)
           IN  /\ ob2 \in Object
               /\ ob2.pid = ob.pid
               /\ new \in {"Starting", "Stopped"} =>
                     ob2.state = new /\ ob2.manual = ob.manual
               /\ new = "Running" => ob2.state = "Running"
               /\ new = "Stopping" =>
                     /\ ob2.manual => ob.manual
                     /\ ob2.state = "Stopped" => ob.manual
<1>1. CASE new = ob.state
  BY <1>1, ZenonT(30) DEF UpdateState, Object, ProcessState
<1>2. CASE new = "Running" /\ ob.state # "Running"
  BY <1>2, ZenonT(30) DEF UpdateState, Object, ProcessState
<1>3. CASE new = "Stopping" /\ ob.state # "Stopping" /\ ob.manual
  BY <1>3, ZenonT(30) DEF UpdateState, Object, ProcessState
<1>4. CASE /\ new # ob.state /\ new # "Running"
           /\ ~(new = "Stopping" /\ ob.manual)
  BY <1>4, ZenonT(30) DEF UpdateState, Object, ProcessState
<1>5. QED
  BY <1>1, <1>2, <1>3, <1>4

\* clear_handle_unlocked() leaves no handle and a stopped scope.
LEMMA ClearHandleFacts ==
    ASSUME NEW ob \in Object
    PROVE  /\ ClearHandle(ob) \in Object
           /\ ClearHandle(ob).pid = NoPid
           /\ ClearHandle(ob).state = "Stopped"
<1>1. [ob EXCEPT !.pid = NoPid] \in Object /\ [ob EXCEPT !.pid = NoPid].pid = NoPid
  BY DEF Object
<1>2. "Stopped" \in ProcessState
  BY DEF ProcessState
<1>3. QED
  BY <1>1, <1>2, UpdateStateFacts, ZenonT(30) DEF ClearHandle

\* A ScopeProcess without a handle is sound.
LEMMA ClearedIsSound ==
    ASSUME NEW ob \in Object, NEW ps, NEW mis, ob.pid = NoPid
    PROVE  Sound(ob, ps, mis) /\ Lost(ps, mis, ob.pid)
  BY DEF Sound, Lost

\* A ScopeProcess starts out without a handle.
LEMMA NewIsCleared == NewScopeProcess \in Object /\ NewScopeProcess.pid = NoPid
  BY DEF NewScopeProcess, Object, ProcessState

-----------------------------------------------------------------------------
(* One object changes *)

\* The heart of the argument.  A step gives object o the value ob.  When the
\* handle it overwrites is that of a process nobody has to find, and every
\* other object stays referenced, all launched processes stay supervised.
LEMMA ObjectKept ==
    ASSUME Position, Handles, Supervised,
           NEW o \in 1 .. added, NEW ob,
           obj' = [obj EXCEPT ![o] = ob],
           procs' \in [Pids -> Process], misled' \subseteq Pids,
           added' \in 0 .. MaxAdds, added <= added',
           Sound(ob, procs', misled'),
           Evolves(procs', misled', ob.pid),
           obj[o].pid = ob.pid \/ Lost(procs', misled', obj[o].pid),
           \A k \in 1 .. added : k # o /\ Referenced(k) => Referenced(k)',
           Lost(procs', misled', ob.pid) \/ Referenced(o)'
    PROVE  Handles' /\ Supervised'
<1>0. /\ added \in 0 .. MaxAdds /\ MaxAdds \in Nat /\ added \in Nat /\ added' \in Nat
      /\ o \in 1 .. MaxAdds /\ o \in 1 .. added'
      /\ 1 .. added \subseteq 1 .. added'
      /\ 1 .. added \subseteq 1 .. MaxAdds
  BY RegistryAssumption DEF Position
<1>1. /\ obj' \in [1 .. MaxAdds -> Object]
      /\ obj'[o] = ob
      /\ \A k \in 1 .. MaxAdds : k # o => obj'[k] = obj[k]
  BY <1>0 DEF Handles, Sound
<1>2. ASSUME NEW k \in 1 .. MaxAdds
      PROVE  Sound(obj'[k], procs', misled')
  <2>1. CASE k = o
    BY <1>1, <2>1
  <2>2. CASE k # o
    <3>1. obj'[k] = obj[k] /\ Sound(obj[k], procs, misled)
      BY <1>1, <2>2 DEF Handles
    <3>2. obj[k].pid \in Pids \/ obj[k].pid = NoPid
      BY DEF Handles, Object
    <3>3. QED
      BY <3>1, <3>2 DEF Sound, Lost, Evolves
  <2>3. QED
    BY <2>1, <2>2
<1>3. Handles'
  BY <1>1, <1>2 DEF Handles
<1>4. ASSUME NEW p \in Pids \ (misled' \cup {ByHand}),
             procs'[p].st \in {"starting", "ready"}
      PROVE  \E k \in 1 .. added' : obj'[k].pid = p /\ Referenced(k)'
  <2>1. ~Lost(procs', misled', p)
    BY <1>4, PidFacts DEF Lost
  <2>2. CASE p = ob.pid
    BY <1>0, <1>1, <2>1, <2>2
  <2>3. CASE p # ob.pid
    <3>1. ~Lost(procs, misled, p)
      BY <2>1, <2>3 DEF Evolves
    <3>2. PICK k \in 1 .. added : obj[k].pid = p /\ Referenced(k)
      BY <3>1 DEF Lost, Supervised, Referenced
    <3>3. k # o
      BY <2>1, <2>3, <3>2
    <3>4. QED
      BY <1>0, <1>1, <3>2, <3>3
  <2>4. QED
    BY <2>2, <2>3
<1>5. Supervised'
  BY <1>4 DEF Supervised, Referenced
<1>6. QED
  BY <1>3, <1>5

\* The same when no object changes: what is referenced stays referenced.
LEMMA ObjectsKept ==
    ASSUME Position, Handles, Supervised,
           obj' = obj, procs' \in [Pids -> Process], misled' \subseteq Pids,
           added' \in 0 .. MaxAdds, added <= added',
           Evolves(procs', misled', NoPid),
           \A k \in 1 .. added : Referenced(k) => Referenced(k)'
    PROVE  Handles' /\ Supervised'
<1>0. /\ added \in Nat /\ added' \in Nat /\ MaxAdds \in Nat
      /\ 1 .. added \subseteq 1 .. added'
  BY RegistryAssumption DEF Position
<1>1. ASSUME NEW k \in 1 .. MaxAdds
      PROVE  Sound(obj[k], procs', misled')
  <2>1. Sound(obj[k], procs, misled)
    BY DEF Handles
  <2>2. obj[k].pid \in Pids \/ obj[k].pid = NoPid
    BY DEF Handles, Object
  <2>3. QED
    BY <2>1, <2>2 DEF Sound, Lost, Evolves
<1>2. Handles'
  BY <1>1 DEF Handles
<1>3. ASSUME NEW p \in Pids \ (misled' \cup {ByHand}),
             procs'[p].st \in {"starting", "ready"}
      PROVE  \E k \in 1 .. added' : obj'[k].pid = p /\ Referenced(k)'
  <2>1. ~Lost(procs', misled', p) /\ p # NoPid
    BY <1>3, PidFacts DEF Lost
  <2>2. ~Lost(procs, misled, p)
    BY <2>1 DEF Evolves
  <2>3. PICK k \in 1 .. added : obj[k].pid = p /\ Referenced(k)
    BY <2>2 DEF Lost, Supervised, Referenced
  <2>4. QED
    BY <1>0, <2>3
<1>4. QED
  BY <1>2, <1>3 DEF Supervised, Referenced

\* A step that leaves the processes alone forgets none.
LEMMA NothingLost ==
    ASSUME Handles
    PROVE  Evolves(procs, misled, NoPid) /\ \A q : Evolves(procs, misled, q)
  BY DEF Evolves

-----------------------------------------------------------------------------
(* A thread goes on, or is done with its object *)

\* Which pcs a thread may go on to: Admin's steps follow one another.
Follows(t, pc) ==
    /\ pc \in PCs \ AtRest
    /\ \/ pc \notin AdminPCs
       \/ t = Admin /\ pc = "insert" /\ thr[t].pc \in {"replace", "insert"}
       \/ t = Admin /\ pc \in {"erase", "erasing"} /\ thr[t].pc \in {"remove", "erase"}
       \/ t = Admin /\ pc = "gone" /\ thr[t].pc \in {"closing", "gone"}

\* A thread in a call refers to an object that exists.
LEMMA ThreadObject ==
    ASSUME Position, NEW t \in Threads, thr[t].pc \notin AtRest
    PROVE  thr[t].o \in 1 .. added /\ thr[t].o \in 1 .. MaxAdds
<1>1. thr[t].o \in 0 .. added /\ thr[t].o # 0
  BY DEF Position
<1>2. added \in 0 .. MaxAdds /\ MaxAdds \in Nat
  BY RegistryAssumption DEF Position
<1>3. QED
  BY <1>1, <1>2

\* A thread that goes on keeps its object.
LEMMA PositionGoto ==
    ASSUME Position, NEW t \in Threads, NEW pc, thr[t].pc \notin AtRest,
           thr' = [thr EXCEPT ![t].pc = pc],
           entry' = entry, added' = added, Follows(t, pc)
    PROVE  Position' /\ \A k : Referenced(k)' <=> Referenced(k)
<1>1. /\ thr' \in [Threads -> [pc : PCs, o : 0 .. added]]
      /\ thr'[t].pc = pc
      /\ \A u \in Threads : thr'[u].o = thr[u].o
      /\ \A u \in Threads : u # t => thr'[u] = thr[u]
  BY DEF Position, Follows
<1>2. Admin \in Threads
  BY DEF Threads
<1>3. pc \notin AtRest /\ (pc \in AdminPCs => t = Admin)
  BY DEF Follows
<1>4. \A u \in Threads : thr'[u].o = 0 <=> thr'[u].pc \in AtRest
  BY <1>1, <1>3 DEF Position
<1>5. \A u \in Threads : thr'[u].pc \in AdminPCs => u = Admin
  BY <1>1, <1>3 DEF Position
<1>6. /\ thr'[Admin].pc \in {"replace", "insert"} => entry = 0 /\ added < MaxAdds
      /\ thr'[Admin].pc \in {"remove", "erase", "erasing"} => entry = thr'[Admin].o
      /\ thr'[Admin].pc \in {"closing", "gone"} => entry \in {0, thr'[Admin].o}
  <2>1. CASE t # Admin
    BY <1>1, <1>2, <2>1 DEF Position
  <2>2. CASE t = Admin
    BY <1>1, <1>2, <2>2 DEF Position, Follows, AdminPCs
  <2>3. QED
    BY <2>1, <2>2
<1>7. Position'
  BY <1>1, <1>4, <1>5, <1>6 DEF Position
<1>8. QED
  BY <1>1, <1>7 DEF Referenced

\* A thread that goes on, in exec() or kill(), keeps the invariant when what
\* it does to the handle and to the processes is justified.
LEMMA GotoKept ==
    ASSUME IInv, NEW t \in Threads, NEW pc, NEW ob, NEW ps,
           thr[t].pc \notin AtRest,
           Goto(t, pc, ob, ps), entry' = entry, added' = added,
           Follows(t, pc),
           ps \in [Pids -> Process], misled' \subseteq Pids,
           Sound(ob, ps, misled'),
           Evolves(ps, misled', ob.pid),
           obj[thr[t].o].pid = ob.pid \/ Lost(ps, misled', obj[thr[t].o].pid)
    PROVE  IInv'
<1>1. Position' /\ \A k : Referenced(k)' <=> Referenced(k)
  BY PositionGoto, ZenonT(30) DEF IInv, Goto
<1>2. thr[t].o \in 1 .. added
  BY ThreadObject DEF IInv
<1>3. Referenced(thr[t].o)
  BY DEF Referenced
<1>4. added \in 0 .. MaxAdds /\ added <= added
  BY RegistryAssumption DEF IInv, Position
<1> DEFINE o == thr[t].o
<1>5. PICK o2 : o2 = o
  OBVIOUS
<1>6. obj' = [obj EXCEPT ![o2] = ob] /\ procs' = ps
  BY <1>5 DEF Goto
<1>7. Handles' /\ Supervised'
  <2>1. o2 \in 1 .. added /\ Referenced(o2)
    BY <1>2, <1>3, <1>5
  <2>2. Referenced(o2)' /\ \A k \in 1 .. added : k # o2 /\ Referenced(k) => Referenced(k)'
    BY <1>1, <2>1
  <2>3. obj[o2].pid = ob.pid \/ Lost(procs', misled', obj[o2].pid)
    BY <1>5, <1>6
  <2>4. Position /\ Handles /\ Supervised
    BY DEF IInv
  <2>5. added' \in 0 .. MaxAdds /\ added <= added'
    BY <1>4
  <2>6. /\ procs' \in [Pids -> Process]
        /\ Sound(ob, procs', misled')
        /\ Evolves(procs', misled', ob.pid)
    BY <1>6
  <2>7. QED
    BY <1>6, <2>1, <2>2, <2>3, <2>4, <2>5, <2>6, ObjectKept, ZenonT(30)
<1>8. QED
  BY <1>1, <1>7 DEF IInv

\* The end of a ScopeProcess is harmless when its process need not be found.
LEMMA DestroyedKept ==
    ASSUME IInv, NEW t \in Threads, NEW to, NEW ps,
           thr[t].pc \notin AtRest,
           Destroyed(t, to, ps), to.o = 0,
           added' \in 0 .. MaxAdds, added <= added',
           entry' = entry \/ entry \in {0, thr[t].o},
           ps \in [Pids -> Process], misled' = misled,
           Evolves(ps, misled, NoPid),
           Lost(ps, misled, obj[thr[t].o].pid)
    PROVE  Handles' /\ Supervised'
<1>2. thr[t].o \in 1 .. added
  BY ThreadObject DEF IInv
<1>5. PICK o2 : o2 = thr[t].o
  OBVIOUS
<1>6. /\ obj' = [obj EXCEPT ![o2] = NewScopeProcess]
      /\ procs' = ps /\ thr' = [thr EXCEPT ![t] = to]
  BY <1>5 DEF Destroyed
<1>7. thr \in [Threads -> [pc : PCs, o : 0 .. added]]
  BY DEF IInv, Position
<1>8. ASSUME NEW k \in 1 .. added, k # o2, Referenced(k)
      PROVE  Referenced(k)'
  <2>1. CASE entry = k
    BY <1>5, <1>8, <2>1 DEF Referenced
  <2>2. CASE \E u \in Threads : thr[u].o = k
    BY <1>5, <1>6, <1>7, <1>8, <2>2 DEF Referenced
  <2>3. QED
    BY <1>8, <2>1, <2>2 DEF Referenced
<1>9. Position /\ Handles /\ Supervised /\ misled \subseteq Pids
  BY DEF IInv, Handles
<1>10. /\ Sound(NewScopeProcess, procs', misled')
       /\ Lost(procs', misled', NewScopeProcess.pid)
       /\ Evolves(procs', misled', NewScopeProcess.pid)
       /\ procs' \in [Pids -> Process] /\ misled' \subseteq Pids
       /\ Lost(procs', misled', obj[o2].pid)
       /\ o2 \in 1 .. added
  BY <1>2, <1>5, <1>6, <1>9, NewIsCleared, ClearedIsSound
<1>11. QED
  BY <1>6, <1>8, <1>9, <1>10, ObjectKept, ZenonT(30)

-----------------------------------------------------------------------------
(* exec() and kill() *)

\* What exec() and kill() are called with: the processes as ps, the object as ob.
Called(t, ob, ps) ==
    /\ ps \in [Pids -> Process]
    /\ Sound(ob, ps, misled)
    /\ Evolves(ps, misled, NoPid)
    /\ obj[thr[t].o].pid = ob.pid \/ Lost(ps, misled, obj[thr[t].o].pid)

\* What the history excuses stays excused.
LEMMA EvolvesWeakly ==
    ASSUME NEW ps, NEW mis, NEW mis2, NEW q, Evolves(ps, mis, NoPid), mis \subseteq mis2
    PROVE  Evolves(ps, mis2, q)
  BY PidFacts, ZenonT(30) DEF Evolves, Lost

\* exec() and kill() start from the object's own state.
LEMMA CalledAsIs ==
    ASSUME IInv, NEW t \in Threads, thr[t].pc \notin AtRest
    PROVE  /\ Called(t, obj[thr[t].o], procs)
           /\ obj[thr[t].o] \in Object
           /\ misled \subseteq Pids
<1>1. thr[t].o \in 1 .. MaxAdds
  BY ThreadObject DEF IInv
<1>2. QED
  BY <1>1, NothingLost DEF IInv, Handles, Called

\* exec(), part 2: a failed launch excuses the process whose handle is cleared,
\* a successful one the process whose handle it overwrites.
LEMMA LaunchKept ==
    ASSUME IInv, NEW t \in Threads, NEW ob, NEW ps,
           thr[t].pc \notin AtRest, Called(t, ob, ps), Launch(t, ob, ps)
    PROVE  IInv'
<1> DEFINE starting == UpdateState(ob, "Starting")
           old == {ob.pid} \ {NoPid}
           unused == {p \in Pids \ {ByHand} : ps[p].st = "none"}
           o == thr[t].o
<1>1. ob \in Object /\ misled \subseteq Pids /\ old \subseteq Pids
  BY DEF Called, Sound, IInv, Handles, Object
<1>2. /\ starting \in Object /\ starting.pid = ob.pid
      /\ starting.state = "Starting" /\ starting.manual = ob.manual
  BY <1>1, UpdateStateFacts DEF ProcessState
<1>3. Follows(t, "release") /\ Follows(t, "waitRunning")
  BY DEF Follows, PCs, KillPCs, AdminPCs, AtRest
<1>4. entry' = entry /\ added' = added
  BY DEF Launch
<1>5. CASE Goto(t, "release", starting, ps) /\ misled' = misled
  <2>1. Sound(starting, ps, misled)
    BY <1>2 DEF Called, Sound
  <2>2. Evolves(ps, misled, starting.pid)
    BY EvolvesWeakly DEF Called
  <2>3. ps \in [Pids -> Process] /\ (obj[o].pid = starting.pid \/ Lost(ps, misled, obj[o].pid))
    BY <1>2 DEF Called
  <2>4. QED
    BY <1>1, <1>3, <1>4, <1>5, <2>1, <2>2, <2>3, GotoKept, SMTT(30)
<1>6. CASE Goto(t, "release", ClearHandle(starting), ps) /\ misled' = misled \cup old
  <2>1. ClearHandle(starting) \in Object /\ ClearHandle(starting).pid = NoPid
    BY <1>2, ClearHandleFacts
  <2>2. Sound(ClearHandle(starting), ps, misled')
    BY <2>1, ClearedIsSound
  <2>3. Evolves(ps, misled', ClearHandle(starting).pid)
    BY <1>6, EvolvesWeakly, SMTT(30) DEF Called
  <2>4. Lost(ps, misled', obj[o].pid)
    BY <1>6 DEF Called, Lost
  <2>5. ps \in [Pids -> Process] /\ misled' \subseteq Pids
    BY <1>1, <1>6 DEF Called
  <2>6. QED
    BY <1>3, <1>4, <1>6, <2>2, <2>3, <2>4, <2>5, GotoKept
<1>7. CASE /\ unused # {}
           /\ Goto(t, "waitRunning", [starting EXCEPT !.pid = Min(unused)],
                   [ps EXCEPT ![Min(unused)].st = "starting"])
           /\ misled' = misled \cup old \cup (IF ob.manual THEN {Min(unused)} ELSE {})
  <2>1. PICK p : p = Min(unused)
    BY ZenonT(30)
  <2>2. p \in Pids /\ p # ByHand /\ ps[p].st = "none" /\ p # NoPid
    <3>1. unused \subseteq Nat
      BY PidFacts, ZenonT(30)
    <3>2. p \in unused
      BY <1>7, <2>1, <3>1, MinIsMember
    <3>3. QED
      BY <3>2, PidFacts
  <2>3. PICK ob2 : ob2 = [starting EXCEPT !.pid = p]
    BY ZenonT(30)
  <2>4. PICK ps2 : ps2 = [ps EXCEPT ![p].st = "starting"]
    BY ZenonT(30)
  <2>5. /\ ob2 \in Object /\ ob2.pid = p
        /\ ob2.state = "Starting" /\ ob2.manual = ob.manual
    BY <1>2, <2>2, <2>3 DEF Object
  <2>6. /\ ps2 \in [Pids -> Process] /\ ps2[p].st = "starting"
        /\ \A q \in Pids : q # p => ps2[q] = ps[q]
    BY <2>2, <2>4 DEF Called, Process
  <2>7. /\ misled' \subseteq Pids /\ misled \subseteq misled' /\ old \subseteq misled'
        /\ ob.manual => p \in misled'
    BY <1>1, <1>7, <2>1, <2>2
  <2>8. Sound(ob2, ps2, misled')
    BY <2>2, <2>5, <2>6, <2>7, SMTT(30) DEF Sound, Lost
  <2>9. Evolves(ps2, misled', ob2.pid)
    BY <2>2, <2>5, <2>6, <2>7, PidFacts, SMTT(30) DEF Called, Evolves, Lost
  <2>10. obj[o].pid = ob2.pid \/ Lost(ps2, misled', obj[o].pid)
    <3>1. o \in 1 .. MaxAdds
      BY ThreadObject, SMTT(30) DEF IInv
    <3>2. /\ obj[o].pid \in Pids \cup {NoPid}
          /\ obj[o].pid # NoPid => procs[obj[o].pid].st # "none"
      BY <3>1 DEF IInv, Handles, Object, Sound
    <3>3. CASE obj[o].pid = ob.pid
      BY <2>7, <3>3, SMTT(30) DEF Lost
    <3>4. CASE Lost(ps, misled, obj[o].pid) /\ obj[o].pid # NoPid
      <4>1. ps[obj[o].pid].st # "none"
        BY <3>2, <3>4, SMTT(30) DEF Called, Evolves
      <4>2. obj[o].pid # p /\ ps2[obj[o].pid] = ps[obj[o].pid]
        BY <2>2, <2>6, <3>2, <3>4, <4>1
      <4>3. QED
        BY <2>7, <3>4, <4>2, SMTT(30) DEF Lost
    <3>5. CASE obj[o].pid = NoPid
      BY <3>5 DEF Lost
    <3>6. QED
      BY <3>3, <3>4, <3>5 DEF Called
  <2>11. Goto(t, "waitRunning", ob2, ps2)
    BY <1>7, <2>1, <2>3, <2>4
  <2>12. QED
    BY <1>3, <1>4, <2>6, <2>7, <2>8, <2>9, <2>10, <2>11, GotoKept
<1>8. QED
  BY <1>5, <1>6, <1>7 DEF Launch

\* The kill() of pc thr[t].pc is followed by what `next' says.
Leads(t, next) ==
    \/ next \in {"launch", "throw", "destroy"}
    \/ t = Admin /\ next = "insert" /\ thr[t].pc \in {"replace", "insert"}
    \/ t = Admin /\ next = "erase" /\ thr[t].pc \in {"remove", "erase"}
    \/ t = Admin /\ next = "gone" /\ thr[t].pc \in {"closing", "gone"}

\* What follows kill() finds a handle that may be given up.
LEMMA AfterKillKept ==
    ASSUME IInv, NEW t \in Threads, NEW next, NEW ob, NEW ps,
           thr[t].pc \notin AtRest, Leads(t, next),
           Called(t, ob, ps), Lost(ps, misled, ob.pid),
           AfterKill(t, next, ob, ps)
    PROVE  IInv'
<1> DEFINE o == thr[t].o
<1>1. /\ ps \in [Pids -> Process] /\ misled \subseteq Pids
      /\ Sound(ob, ps, misled) /\ Evolves(ps, misled, ob.pid)
      /\ Evolves(ps, misled, NoPid)
      /\ obj[o].pid = ob.pid \/ Lost(ps, misled, obj[o].pid)
      /\ Lost(ps, misled, obj[o].pid)
  BY EvolvesWeakly DEF Called, IInv, Handles
<1>2. /\ added \in 0 .. MaxAdds /\ MaxAdds \in Nat /\ entry \in 0 .. added
      /\ added <= added
  BY RegistryAssumption DEF IInv, Position
<1>3. /\ thr \in [Threads -> [pc : PCs, o : 0 .. added]]
      /\ o \in 1 .. added /\ Admin \in Threads
  BY ThreadObject DEF IInv, Position, Threads
<1>4. CASE next = "launch" /\ Launch(t, ob, ps)
  BY <1>4, LaunchKept, SMTT(30)
<1>5. CASE /\ next = "throw" /\ Goto(t, "release", ob, ps)
           /\ UNCHANGED <<entry, added, mutex, misled>>
  <2>1. Follows(t, "release")
    BY SMTT(30) DEF Follows, PCs, KillPCs, AdminPCs, AtRest
  <2>2. QED
    BY <1>1, <1>5, <2>1, GotoKept, SMTT(30)
<1>6. CASE /\ next = "erase" /\ Goto(t, "erasing", ob, ps)
           /\ UNCHANGED <<entry, added, mutex, misled>>
  <2>1. Follows(t, "erasing")
    BY <1>6 DEF Leads, Follows, PCs, KillPCs, AdminPCs, AtRest
  <2>2. QED
    BY <1>1, <1>6, <2>1, GotoKept, SMTT(30)
<1>7. CASE /\ next = "insert" /\ Destroyed(t, Idle, ps)
           /\ added' = added + 1 /\ entry' = added + 1
           /\ UNCHANGED misled
  <2>1. t = Admin /\ entry = 0 /\ added < MaxAdds
    BY <1>7 DEF Leads, IInv, Position
  <2>2. added' \in 0 .. MaxAdds /\ added <= added' /\ entry' \in 0 .. added'
    BY <1>2, <1>7, <2>1, SMTT(30)
  <2>3. Handles' /\ Supervised'
    BY <1>1, <1>7, <2>1, <2>2, DestroyedKept DEF Idle
  <2>4. thr' = [thr EXCEPT ![Admin] = Idle]
    BY <1>7, <2>1 DEF Destroyed
  <2>5. thr' \in [Threads -> [pc : PCs, o : 0 .. added']]
    <3>1. 0 .. added \subseteq 0 .. added' /\ 0 \in 0 .. added'
      BY <1>2, <1>7
    <3>2. QED
      BY <1>3, <2>4, <3>1 DEF Idle, PCs
  <2>6. Position'
    BY <1>3, <2>2, <2>4, <2>5, SMTT(30) DEF IInv, Position, Idle, AtRest, AdminPCs
  <2>7. QED
    BY <2>3, <2>6 DEF IInv
<1>8. CASE /\ next = "destroy" /\ Destroyed(t, Idle, ps)
           /\ UNCHANGED <<entry, added, mutex, misled>>
  <2>1. Handles' /\ Supervised'
    BY <1>1, <1>2, <1>8, DestroyedKept DEF Idle
  <2>2. thr' = [thr EXCEPT ![t] = Idle]
    BY <1>8 DEF Destroyed
  <2>3. thr' \in [Threads -> [pc : PCs, o : 0 .. added]]
    BY <1>2, <1>3, <2>2 DEF Idle, PCs
  <2>4. Position'
    BY <1>3, <1>8, <2>2, <2>3 DEF IInv, Position, Idle, AtRest, AdminPCs
  <2>5. QED
    BY <2>1, <2>4 DEF IInv
<1>9. CASE /\ next = "gone"
           /\ Destroyed(t, [Idle EXCEPT !.pc = "terminated"], ps)
           /\ entry' = 0
           /\ UNCHANGED <<added, mutex, misled>>
  <2>1. t = Admin /\ entry \in {0, o}
    BY <1>9 DEF Leads, IInv, Position
  <2>2. Handles' /\ Supervised'
    BY <1>1, <1>2, <1>9, <2>1, DestroyedKept DEF Idle
  <2>3. thr' = [thr EXCEPT ![Admin] = [pc |-> "terminated", o |-> 0]]
    <3>1. [Idle EXCEPT !.pc = "terminated"] = [pc |-> "terminated", o |-> 0]
      BY DEF Idle
    <3>2. QED
      BY <1>9, <2>1, <3>1, ZenonT(30) DEF Destroyed
  <2>4. thr' \in [Threads -> [pc : PCs, o : 0 .. added]]
    BY <1>2, <1>3, <2>3 DEF PCs
  <2>5. Position'
    BY <1>2, <1>3, <1>9, <2>3, <2>4, SMTT(30) DEF IInv, Position, AtRest, AdminPCs
  <2>6. QED
    BY <2>2, <2>5 DEF IInv
<1>10. QED
  BY <1>4, <1>5, <1>6, <1>7, <1>8, <1>9, SMTT(30) DEF AfterKill

\* kill() up to its wait: a scope that counts as stopped, or whose process is
\* not alive, may lose its handle.
LEMMA KillKept ==
    ASSUME IInv, NEW t \in Threads, NEW next,
           thr[t].pc \notin AtRest, next \in KillPCs, Leads(t, next),
           Kill(t, next, obj[thr[t].o], procs)
    PROVE  IInv'
<1>1. PICK ob : ob = obj[thr[t].o]
  BY SMTT(30)
<1>2. Called(t, ob, procs) /\ ob \in Object /\ misled \subseteq Pids
  BY <1>1, CalledAsIs, SMTT(30)
<1>3. CASE ob.state = "Stopped" /\ AfterKill(t, next, ob, procs)
  BY <1>2, <1>3, AfterKillKept, SMTT(30) DEF Called, Sound
<1>4. CASE /\ ob.state # "Stopped" /\ ~Alive(procs, ob.pid)
           /\ AfterKill(t, next, ClearHandle(ob), procs)
  <2>1. ClearHandle(ob) \in Object /\ ClearHandle(ob).pid = NoPid
    BY <1>2, ClearHandleFacts, SMTT(30)
  <2>2. Lost(procs, misled, obj[thr[t].o].pid)
    BY <1>1, <1>4, SMTT(30) DEF Alive, Lost
  <2>3. Called(t, ClearHandle(ob), procs) /\ Lost(procs, misled, ClearHandle(ob).pid)
    BY <1>2, <2>1, <2>2, ClearedIsSound, SMTT(30) DEF Called
  <2>4. QED
    BY <1>4, <2>3, AfterKillKept
<1>5. CASE /\ Goto(t, next, ob, procs)
           /\ UNCHANGED <<entry, added, mutex, misled>>
  <2>1. Follows(t, next)
    BY SMTT(30) DEF Leads, Follows, KillPCs, PCs, AdminPCs, AtRest
  <2>2. Evolves(procs, misled, ob.pid)
    BY <1>2, EvolvesWeakly DEF Called
  <2>3. QED
    BY <1>1, <1>2, <1>5, <2>1, <2>2, GotoKept, SMTT(30) DEF Called
<1>6. QED
  BY <1>1, <1>3, <1>4, <1>5 DEF Kill

\* kill() from its wait on: after a time-out SIGKILL ends the process before
\* the handle is cleared.
LEMMA KillEndKept ==
    ASSUME IInv, NEW t \in Threads, KillEnd(t)
    PROVE  IInv'
<1>1. PICK ob : ob = obj[thr[t].o]
  BY SMTT(30)
<1>2. thr[t].pc \in KillPCs /\ thr[t].pc \notin AtRest /\ Leads(t, thr[t].pc)
  BY DEF KillEnd, KillPCs, AtRest, Leads, IInv, Position, AdminPCs
<1>3. Called(t, ob, procs) /\ ob \in Object /\ misled \subseteq Pids
  BY <1>1, <1>2, CalledAsIs
<1>4. PICK ps : ps = IF ob.state = "Stopped" \/ ob.pid = NoPid THEN procs
                     ELSE [procs EXCEPT ![ob.pid].st = "dead"]
  BY ZenonT(30)
<1>5. AfterKill(t, thr[t].pc, ClearHandle(ob), ps)
  BY <1>1, <1>4, ZenonT(30) DEF KillEnd
<1>6. ClearHandle(ob) \in Object /\ ClearHandle(ob).pid = NoPid
  BY <1>3, ClearHandleFacts
<1>7. /\ ps \in [Pids -> Process]
      /\ Evolves(ps, misled, NoPid)
      /\ Lost(ps, misled, ob.pid)
  <2>1. CASE ob.state = "Stopped" \/ ob.pid = NoPid
    BY <1>3, <1>4, <2>1 DEF Called, Sound, Lost
  <2>2. CASE ob.state # "Stopped" /\ ob.pid # NoPid
    <3>1. ob.pid \in Pids
      BY <1>3, <2>2 DEF Object
    <3>2. /\ ps \in [Pids -> Process] /\ ps[ob.pid].st = "dead"
          /\ \A p \in Pids : p # ob.pid => ps[p] = procs[p]
      BY <1>3, <1>4, <2>2, <3>1, SMTT(30) DEF Called, Process
    <3>3. QED
      BY <3>1, <3>2 DEF Evolves, Lost
  <2>3. QED
    BY <2>1, <2>2, SMTT(30)
<1>8. Called(t, ClearHandle(ob), ps) /\ Lost(ps, misled, ClearHandle(ob).pid)
  BY <1>1, <1>6, <1>7, ClearedIsSound DEF Called
<1>9. QED
  BY <1>2, <1>5, <1>8, AfterKillKept

-----------------------------------------------------------------------------
(* The calls *)

\* A thread that is at rest refers to the entry from now on.
LEMMA EntryTaken ==
    ASSUME IInv, NEW t \in Threads, NEW pc, thr[t].pc = "idle", entry # 0,
           thr' = [thr EXCEPT ![t] = [pc |-> pc, o |-> entry]],
           added' = added, pc \in PCs
    PROVE  /\ thr' \in [Threads -> [pc : PCs, o : 0 .. added]]
           /\ \A k \in 1 .. added : Referenced(k) => Referenced(k)'
<1>1. /\ thr \in [Threads -> [pc : PCs, o : 0 .. added]] /\ entry \in 0 .. added
      /\ thr[t].o = 0 /\ added \in Nat
  BY RegistryAssumption DEF IInv, Position, AtRest
<1>2. thr' \in [Threads -> [pc : PCs, o : 0 .. added]] /\ thr'[t].o = entry
      /\ \A u \in Threads : u # t => thr'[u] = thr[u]
  BY <1>1
<1>3. ASSUME NEW k \in 1 .. added, Referenced(k)
      PROVE  Referenced(k)'
  <2>1. CASE entry = k
    BY <1>2, <2>1 DEF Referenced
  <2>2. CASE \E u \in Threads : thr[u].o = k
    <3>1. PICK u \in Threads : thr[u].o = k
      BY <2>2
    <3>2. u # t
      BY <1>1, <3>1
    <3>3. QED
      BY <1>2, <3>1, <3>2 DEF Referenced
  <2>3. QED
    BY <1>3, <2>1, <2>2 DEF Referenced
<1>4. QED
  BY <1>2, <1>3

\* locate(): the lookup.
LEMMA LocateKept ==
    ASSUME IInv, NEW t \in Locators, Locate(t)
    PROVE  IInv'
<1>1. /\ t \in Threads /\ Admin \in Threads /\ t # Admin
      /\ thr[t].pc = "idle" /\ entry # 0 /\ entry' = entry /\ added' = added
      /\ obj' = obj /\ procs' = procs /\ misled' = misled
      /\ thr' = [thr EXCEPT ![t] = [pc |-> "exec", o |-> entry]]
      /\ "exec" \in PCs
  BY RegistryAssumption DEF Locate, Threads, PCs
<1>2. /\ thr' \in [Threads -> [pc : PCs, o : 0 .. added]]
      /\ \A k \in 1 .. added : Referenced(k) => Referenced(k)'
  BY <1>1, EntryTaken, ZenonT(30)
<1>3. Handles' /\ Supervised'
  <2>1. added \in 0 .. MaxAdds /\ added <= added
    BY RegistryAssumption DEF IInv, Position
  <2>2. QED
    BY <1>1, <1>2, <2>1, NothingLost, ObjectsKept DEF IInv, Handles
<1>4. Position'
  BY <1>1, <1>2 DEF IInv, Position, AtRest, AdminPCs
<1>5. QED
  BY <1>3, <1>4 DEF IInv

\* The last reference is let go of only together with the process.
LEMMA ReleaseKept ==
    ASSUME IInv, NEW t \in Threads, Release(t)
    PROVE  IInv'
<1> DEFINE last == entry # thr[t].o /\ \A u \in Threads \ {t} : thr[u].o # thr[t].o
<1>1. thr[t].pc = "release" /\ thr[t].pc \notin AtRest /\ Admin \in Threads
  BY DEF Release, AtRest, Threads
<1>2. CASE /\ ~last
           /\ thr' = [thr EXCEPT ![t] = Idle]
           /\ UNCHANGED <<entry, added, obj, mutex, procs, misled>>
  <2>1. /\ added \in 0 .. MaxAdds /\ added <= added /\ 0 \in 0 .. added
        /\ thr \in [Threads -> [pc : PCs, o : 0 .. added]]
        /\ Position /\ Handles /\ Supervised
        /\ procs \in [Pids -> Process] /\ misled \subseteq Pids
        /\ Evolves(procs, misled, NoPid)
    BY RegistryAssumption, NothingLost DEF IInv, Position, Handles
  <2>2. /\ thr' \in [Threads -> [pc : PCs, o : 0 .. added]]
        /\ thr'[t] = [pc |-> "idle", o |-> 0]
        /\ \A u \in Threads : u # t => thr'[u] = thr[u]
    BY <1>2, <2>1, SMTT(30) DEF Idle, PCs
  <2>3. ASSUME NEW k \in 1 .. added, Referenced(k)
        PROVE  Referenced(k)'
    <3>1. entry = k \/ \E u \in Threads \ {t} : thr[u].o = k
      BY <1>2, <2>3 DEF Referenced
    <3>2. QED
      BY <1>2, <2>2, <3>1 DEF Referenced
  <2>4. Handles' /\ Supervised'
    BY <1>2, <2>1, <2>3, ObjectsKept, SMTT(30)
  <2>5. Position'
    BY <1>1, <1>2, <2>1, <2>2 DEF Position, AtRest, AdminPCs
  <2>6. QED
    BY <2>4, <2>5, SMTT(30) DEF IInv
<1>3. CASE Kill(t, "destroy", obj[thr[t].o], procs)
  <2>1. Leads(t, "destroy") /\ "destroy" \in KillPCs
    BY DEF Leads, KillPCs
  <2>2. QED
    BY <1>1, <1>3, <2>1, KillKept
<1>4. QED
  BY <1>2, <1>3 DEF Release

\* locate(): exec() and what follows.
LEMMA LocateStepKept ==
    ASSUME IInv, NEW t \in Locators, LocateStep(t)
    PROVE  IInv'
<1>1. t \in Threads
  BY DEF Threads
<1>2. PICK ob : ob = obj[thr[t].o]
  OBVIOUS
<1>3. Follows(t, "release") /\ Follows(t, "waitStopped")
  BY DEF Follows, PCs, KillPCs, AdminPCs, AtRest
<1>4. {"exec", "waitStopped", "waitRunning", "release"} \cap AtRest = {}
  BY DEF AtRest
<1>5. \A next \in {"launch", "throw", "destroy"} : Leads(t, next) /\ next \in KillPCs
  BY SMTT(30) DEF Leads, KillPCs
<1>6. ASSUME thr[t].pc \notin AtRest
      PROVE  /\ Called(t, ob, procs) /\ misled \subseteq Pids
             /\ ob \in Object /\ Evolves(procs, misled, ob.pid)
  BY <1>1, <1>2, <1>6, CalledAsIs, EvolvesWeakly, SMTT(30) DEF Called
<1>7. CASE Exec(t)
  <2>1. thr[t].pc \notin AtRest
    BY <1>4, <1>7, SMTT(30) DEF Exec
  <2>2. CASE /\ \/ Goto(t, "release", ob, procs)
                \/ Goto(t, "waitStopped", ob, procs)
             /\ UNCHANGED <<entry, added, mutex, misled>>
    BY <1>1, <1>2, <1>3, <1>6, <2>1, <2>2, GotoKept DEF Called
  <2>3. CASE Launch(t, ob, procs)
    BY <1>1, <1>6, <2>1, <2>3, LaunchKept, SMTT(30)
  <2>4. QED
    BY <1>2, <1>7, <2>2, <2>3, SMTT(30) DEF Exec
<1>8. CASE ExecStopped(t)
  <2>1. thr[t].pc \notin AtRest
    BY <1>4, <1>8, SMTT(30) DEF ExecStopped
  <2>2. CASE Launch(t, ob, procs)
    BY <1>1, <1>6, <2>1, <2>2, LaunchKept
  <2>3. CASE Kill(t, "launch", ob, procs)
    BY <1>1, <1>2, <1>5, <2>1, <2>3, KillKept, SMTT(30)
  <2>4. QED
    BY <1>2, <1>8, <2>2, <2>3, SMTT(30) DEF ExecStopped
<1>9. CASE ExecRunning(t)
  <2>1. thr[t].pc \notin AtRest
    BY <1>4, <1>9, SMTT(30) DEF ExecRunning
  <2>2. ASSUME NEW ps \in IF ob.pid = NoPid THEN {procs} ELSE Watch(ob.pid),
               Goto(t, "release", ob, ps),
               UNCHANGED <<entry, added, mutex, misled>>
        PROVE  IInv'
    <3>1. ps \in [Pids -> Process] /\ \A p \in Pids : ps[p].st = procs[p].st
      <4>1. CASE ob.pid = NoPid
        BY <1>6, <2>1, <2>2, <4>1 DEF Called
      <4>2. CASE ob.pid # NoPid
        <5>1. ob.pid \in Pids /\ procs \in [Pids -> Process]
          BY <1>6, <2>1, <4>2 DEF Called, Object
        <5>2. PICK w \in BOOLEAN : ps = [procs EXCEPT ![ob.pid].watched = @ \/ w]
          BY <2>2, <4>2, ZenonT(30) DEF Watch
        <5>3. QED
          BY <5>1, <5>2 DEF Process
      <4>3. QED
        BY <4>1, <4>2, SMTT(30)
    <3>2. Sound(ob, ps, misled) /\ Evolves(ps, misled, ob.pid)
      BY <1>6, <2>1, <3>1 DEF Called, Sound, Evolves, Lost, Object
    <3>3. QED
      BY <1>1, <1>2, <1>3, <1>6, <2>1, <2>2, <3>1, <3>2, GotoKept
  <2>3. CASE Kill(t, "throw", ob, procs)
    BY <1>1, <1>2, <1>5, <2>1, <2>3, KillKept
  <2>4. QED
    BY <1>2, <1>9, <2>2, <2>3 DEF ExecRunning
<1>10. CASE KillEnd(t)
  BY <1>1, <1>10, KillEndKept
<1>11. CASE Release(t)
  BY <1>1, <1>11, ReleaseKept
<1>12. QED
  BY <1>7, <1>8, <1>9, <1>10, <1>11 DEF LocateStep

\* add_local_scope(): an entry that is replaced without waiting is still
\* referred to by a locate(), one that is destroyed by Admin itself.
LEMMA AddLocalScopeKept ==
    ASSUME IInv, AddLocalScope
    PROVE  IInv'
<1>1. /\ Admin \in Threads /\ thr[Admin].pc = "idle" /\ added < MaxAdds
      /\ obj' = obj /\ procs' = procs /\ misled' = misled
  BY DEF AddLocalScope, Threads
<1>2. /\ added \in 0 .. MaxAdds /\ added \in Nat /\ entry \in 0 .. added
      /\ MaxAdds \in Nat
      /\ thr \in [Threads -> [pc : PCs, o : 0 .. added]]
      /\ Position /\ Handles /\ Supervised
      /\ procs \in [Pids -> Process] /\ misled \subseteq Pids
      /\ Evolves(procs, misled, NoPid)
  BY RegistryAssumption, NothingLost DEF IInv, Position, Handles
<1>3. CASE entry # 0 /\ \A u \in Threads : thr[u].o # entry
  <2>1. /\ thr' = [thr EXCEPT ![Admin] = [pc |-> "replace", o |-> entry]]
        /\ entry' = 0 /\ added' = added /\ "replace" \in PCs
    BY <1>3 DEF AddLocalScope, PCs
  <2>2. /\ thr' \in [Threads -> [pc : PCs, o : 0 .. added]]
        /\ \A k \in 1 .. added : Referenced(k) => Referenced(k)'
    BY <1>1, <1>3, <2>1, EntryTaken, ZenonT(30)
  <2>3. added' \in 0 .. MaxAdds /\ added <= added'
    BY <1>2, <2>1
  <2>4. Handles' /\ Supervised'
    BY <1>1, <1>2, <2>2, <2>3, ObjectsKept
  <2>5. Position'
    BY <1>1, <1>2, <1>3, <2>1, <2>2, SMTT(30) DEF Position, AtRest, AdminPCs
  <2>6. QED
    BY <2>4, <2>5 DEF IInv
<1>4. CASE ~(entry # 0 /\ \A u \in Threads : thr[u].o # entry)
  <2>1. entry' = added + 1 /\ added' = added + 1 /\ thr' = thr
    BY <1>4 DEF AddLocalScope
  <2>2. /\ added' \in 0 .. MaxAdds /\ added <= added' /\ entry' \in 0 .. added'
        /\ 0 .. added \subseteq 0 .. added'
    BY <1>1, <1>2, <2>1
  <2>3. ASSUME NEW k \in 1 .. added, Referenced(k)
        PROVE  Referenced(k)'
    <3>1. \E u \in Threads : thr[u].o = k
      BY <1>4, <2>3 DEF Referenced
    <3>2. QED
      BY <2>1, <3>1 DEF Referenced
  <2>4. Handles' /\ Supervised'
    BY <1>1, <1>2, <2>2, <2>3, ObjectsKept
  <2>5. thr' \in [Threads -> [pc : PCs, o : 0 .. added']]
    BY <1>2, <2>1, <2>2
  <2>6. Position'
    BY <1>1, <1>2, <2>1, <2>2, <2>5 DEF Position
  <2>7. QED
    BY <2>4, <2>6 DEF IInv
<1>5. QED
  BY <1>3, <1>4

\* remove_local_scope(): the lookup.
LEMMA RemoveLocalScopeKept ==
    ASSUME IInv, RemoveLocalScope
    PROVE  IInv'
<1>1. /\ Admin \in Threads /\ thr[Admin].pc = "idle" /\ entry # 0
      /\ obj' = obj /\ procs' = procs /\ misled' = misled
      /\ entry' = entry /\ added' = added
      /\ thr' = [thr EXCEPT ![Admin] = [pc |-> "remove", o |-> entry]]
      /\ "remove" \in PCs
  BY DEF RemoveLocalScope, Threads, PCs
<1>2. /\ added \in 0 .. MaxAdds /\ added <= added
      /\ Position /\ Handles /\ Supervised
      /\ procs \in [Pids -> Process] /\ misled \subseteq Pids
      /\ Evolves(procs, misled, NoPid)
  BY RegistryAssumption, NothingLost DEF IInv, Position, Handles
<1>3. /\ thr' \in [Threads -> [pc : PCs, o : 0 .. added]]
      /\ \A k \in 1 .. added : Referenced(k) => Referenced(k)'
  BY <1>1, EntryTaken, ZenonT(30)
<1>4. Handles' /\ Supervised'
  BY <1>1, <1>2, <1>3, ObjectsKept, SMTT(30)
<1>5. Position'
  BY <1>1, <1>2, <1>3 DEF Position, AtRest, AdminPCs
<1>6. QED
  BY <1>4, <1>5 DEF IInv

\* remove_local_scope(): the entry goes, Admin's reference stays.
LEMMA EraseKept ==
    ASSUME IInv, Erase
    PROVE  IInv'
<1>1. /\ Admin \in Threads /\ thr[Admin].pc = "erasing" /\ entry = thr[Admin].o
      /\ obj' = obj /\ procs' = procs /\ misled' = misled
      /\ entry' = 0 /\ added' = added
      /\ thr' = [thr EXCEPT ![Admin].pc = "release"]
      /\ "release" \in PCs
  BY DEF Erase, Threads, PCs, IInv, Position
<1>2. /\ added \in 0 .. MaxAdds /\ added <= added /\ 0 \in 0 .. added
      /\ thr \in [Threads -> [pc : PCs, o : 0 .. added]]
      /\ Position /\ Handles /\ Supervised
      /\ procs \in [Pids -> Process] /\ misled \subseteq Pids
      /\ Evolves(procs, misled, NoPid)
  BY RegistryAssumption, NothingLost DEF IInv, Position, Handles
<1>3. /\ thr' \in [Threads -> [pc : PCs, o : 0 .. added]]
      /\ thr'[Admin].pc = "release"
      /\ \A u \in Threads : thr'[u].o = thr[u].o
      /\ \A u \in Threads : u # Admin => thr'[u] = thr[u]
  BY <1>1, <1>2
<1>4. \A k \in 1 .. added : Referenced(k) => Referenced(k)'
  BY <1>1, <1>3 DEF Referenced
<1>5. Handles' /\ Supervised'
  BY <1>1, <1>2, <1>4, ObjectsKept
<1>6. Position'
  BY <1>1, <1>2, <1>3 DEF Position, AtRest, AdminPCs
<1>7. QED
  BY <1>5, <1>6 DEF IInv

\* ~RegistryObject(): a running scope is marked as stopping.
LEMMA ShutdownKept ==
    ASSUME IInv, Shutdown
    PROVE  IInv'
<1>1. /\ Admin \in Threads /\ thr[Admin].pc = "idle" /\ entry # 0
      /\ procs' = procs /\ misled' = misled /\ added' = added
      /\ entry' \in {0, entry}
      /\ thr' = [thr EXCEPT ![Admin] = [pc |-> "closing", o |-> entry]]
      /\ "closing" \in PCs
  BY DEF Shutdown, Threads, PCs
<1>2. /\ added \in 0 .. MaxAdds /\ added <= added /\ entry \in 1 .. added
      /\ entry \in 1 .. MaxAdds /\ 0 .. added \subseteq Nat /\ 0 \in 0 .. added
      /\ Position /\ Handles /\ Supervised
      /\ procs \in [Pids -> Process] /\ misled \subseteq Pids
      /\ \A q : Evolves(procs, misled, q)
  BY <1>1, RegistryAssumption, NothingLost DEF IInv, Position, Handles
<1>3. /\ thr' \in [Threads -> [pc : PCs, o : 0 .. added]]
      /\ \A k \in 1 .. added : Referenced(k) => Referenced(k)'
  BY <1>1, EntryTaken, ZenonT(30)
<1>4. Position'
  BY <1>1, <1>2, <1>3 DEF Position, AtRest, AdminPCs
<1>5. CASE obj' = obj
  <2>1. Handles' /\ Supervised'
    BY <1>1, <1>2, <1>3, <1>5, ObjectsKept
  <2>2. QED
    BY <1>4, <2>1 DEF IInv
<1>6. CASE obj' = [obj EXCEPT ![entry] = UpdateState(@, "Stopping")]
  <2>1. PICK o : o = entry
    OBVIOUS
  <2>2. PICK ob : ob = UpdateState(obj[o], "Stopping")
    OBVIOUS
  <2>3. obj[o] \in Object /\ Sound(obj[o], procs, misled) /\ o \in 1 .. added
    BY <1>2, <2>1 DEF Handles
  <2>4. /\ ob \in Object /\ ob.pid = obj[o].pid
        /\ ob.manual => obj[o].manual
        /\ ob.state = "Stopped" => obj[o].manual
    BY <2>2, <2>3, UpdateStateFacts, SMTT(30) DEF ProcessState
  <2>5. Sound(ob, procs', misled')
    BY <1>1, <2>3, <2>4 DEF Sound
  <2>6. obj' = [obj EXCEPT ![o] = ob]
    BY <1>6, <2>1, <2>2
  <2>7. Referenced(o)'
    BY <1>3, <2>1, <2>3 DEF Referenced
  <2>8. added' \in 0 .. MaxAdds /\ added <= added' /\ Evolves(procs', misled', ob.pid)
        /\ procs' \in [Pids -> Process] /\ misled' \subseteq Pids
    BY <1>1, <1>2
  <2>9. Handles' /\ Supervised'
    BY <1>2, <1>3, <2>3, <2>4, <2>5, <2>6, <2>7, <2>8, ObjectKept, ZenonT(30)
  <2>10. QED
    BY <1>4, <2>9 DEF IInv
<1>7. QED
  BY <1>5, <1>6 DEF Shutdown

\* The steps of Admin's calls.
LEMMA AdminStepKept ==
    ASSUME IInv, AdminStep
    PROVE  IInv'
<1>1. Admin \in Threads
  BY DEF Threads
<1>2. CASE ReplaceKill
  <2>1. thr[Admin].pc = "replace" /\ Kill(Admin, "insert", obj[thr[Admin].o], procs)
    BY <1>2 DEF ReplaceKill
  <2>2. Leads(Admin, "insert") /\ "insert" \in KillPCs /\ thr[Admin].pc \notin AtRest
    BY <2>1 DEF Leads, KillPCs, AtRest
  <2>3. QED
    BY <1>1, <2>1, <2>2, KillKept
<1>3. CASE RemoveKill
  <2>1. thr[Admin].pc = "remove" /\ Kill(Admin, "erase", obj[thr[Admin].o], procs)
    BY <1>3 DEF RemoveKill
  <2>2. Leads(Admin, "erase") /\ "erase" \in KillPCs /\ thr[Admin].pc \notin AtRest
    BY <2>1 DEF Leads, KillPCs, AtRest
  <2>3. QED
    BY <1>1, <2>1, <2>2, KillKept
<1>4. CASE ShutdownKill
  <2>1. thr[Admin].pc = "closing" /\ Kill(Admin, "gone", obj[thr[Admin].o], procs)
    BY <1>4 DEF ShutdownKill
  <2>2. Leads(Admin, "gone") /\ "gone" \in KillPCs /\ thr[Admin].pc \notin AtRest
    BY <2>1 DEF Leads, KillPCs, AtRest
  <2>3. QED
    BY <1>1, <2>1, <2>2, KillKept
<1>5. QED
  BY <1>1, <1>2, <1>3, <1>4, EraseKept, KillEndKept, ReleaseKept DEF AdminStep

-----------------------------------------------------------------------------
(* The callbacks and the processes *)

\* Nothing changes but the entry's object, which keeps or justly loses its handle.
LEMMA EntryChanged ==
    ASSUME IInv, NEW ob, entry # 0,
           obj' = [obj EXCEPT ![entry] = ob],
           UNCHANGED <<entry, added, thr>>,
           procs' \in [Pids -> Process], misled' \subseteq Pids,
           Sound(ob, procs', misled'),
           Evolves(procs', misled', NoPid),
           obj[entry].pid = ob.pid \/ Lost(procs', misled', obj[entry].pid)
    PROVE  IInv'
<1>1. PICK o : o = entry
  OBVIOUS
<1>2. /\ added \in 0 .. MaxAdds /\ added <= added /\ o \in 1 .. added
      /\ Position /\ Handles /\ Supervised
  BY <1>1, RegistryAssumption DEF IInv, Position
<1>3. Position' /\ (\A k : Referenced(k) => Referenced(k)') /\ Referenced(o)
  BY <1>1, <1>2 DEF Position, Referenced
<1>4. Evolves(procs', misled', ob.pid)
  BY EvolvesWeakly
<1>5. Handles' /\ Supervised'
  <2>1. obj' = [obj EXCEPT ![o] = ob]
    BY <1>1
  <2>2. obj[o].pid = ob.pid \/ Lost(procs', misled', obj[o].pid)
    BY <1>1
  <2>3. added' \in 0 .. MaxAdds /\ added <= added'
    BY <1>2
  <2>4. QED
    BY <1>2, <1>3, <1>4, <2>1, <2>2, <2>3, ObjectKept, ZenonT(30)
<1>6. QED
  BY <1>3, <1>5 DEF IInv

\* Nothing changes but the processes.
LEMMA ProcessesChanged ==
    ASSUME IInv, UNCHANGED <<entry, added, thr, obj>>,
           procs' \in [Pids -> Process], misled' \subseteq Pids,
           Evolves(procs', misled', NoPid)
    PROVE  IInv'
<1>1. /\ added' \in 0 .. MaxAdds /\ added <= added'
      /\ Position /\ Handles /\ Supervised
  BY RegistryAssumption DEF IInv, Position
<1>2. Position' /\ \A k : Referenced(k) => Referenced(k)'
  BY <1>1 DEF Position, Referenced
<1>3. Handles' /\ Supervised'
  BY <1>1, <1>2, ObjectsKept
<1>4. QED
  BY <1>2, <1>3, SMTT(30) DEF IInv

\* on_state_received(): a message that makes the scope count as started by hand
\* excuses the process whose handle the object has.
LEMMA OnStateReceivedKept ==
    ASSUME IInv, OnStateReceived
    PROVE  IInv'
<1>1. /\ UNCHANGED <<entry, added, thr, procs>>
      /\ procs \in [Pids -> Process] /\ misled \subseteq Pids
      /\ Evolves(procs, misled, NoPid)
  BY NothingLost DEF OnStateReceived, IInv, Handles
<1>2. CASE UNCHANGED <<obj, misled>>
  BY <1>1, <1>2, ProcessesChanged
<1>3. ASSUME NEW new \in {"Running", "Stopping"}, NEW ob,
             ob = UpdateState(obj[entry], new), entry # 0,
             obj' = [obj EXCEPT ![entry] = ob],
             misled' = misled \cup {p \in Pids : p = ob.pid /\ ob.manual}
      PROVE  IInv'
  <2>1. obj[entry] \in Object /\ Sound(obj[entry], procs, misled)
    <3>1. entry \in 1 .. MaxAdds
      BY <1>3, RegistryAssumption, SMTT(30) DEF IInv, Position
    <3>2. QED
      BY <3>1 DEF IInv, Handles
  <2>2. /\ ob \in Object /\ ob.pid = obj[entry].pid
        /\ new = "Running" => ob.state = "Running"
        /\ new = "Stopping" => (ob.state = "Stopped" => obj[entry].manual)
    BY <1>3, <2>1, UpdateStateFacts, SMTT(30) DEF ProcessState
  <2>3. misled' \subseteq Pids /\ misled \subseteq misled'
        /\ (ob.manual => ob.pid = NoPid \/ ob.pid \in misled')
    BY <1>1, <1>3, <2>2, SMTT(30) DEF Object
  <2>4. Sound(ob, procs', misled')
    BY <1>1, <1>3, <2>1, <2>2, <2>3 DEF Sound, Lost
  <2>5. Evolves(procs', misled', NoPid)
    BY <1>1, <2>3, EvolvesWeakly
  <2>6. QED
    BY <1>1, <1>3, <2>2, <2>3, <2>4, <2>5, EntryChanged, ZenonT(30)
<1>4. QED
  BY <1>2, <1>3, SMTT(30) DEF OnStateReceived

\* on_process_death(): only the handle of a dead process is cleared.
LEMMA OnProcessDeathKept ==
    ASSUME IInv, NEW p \in Pids, OnProcessDeath(p)
    PROVE  IInv'
<1>1. /\ UNCHANGED <<entry, added, thr, misled>>
      /\ procs' = [procs EXCEPT ![p].watched = FALSE]
      /\ procs \in [Pids -> Process] /\ misled \subseteq Pids
      /\ ~Alive(procs, p)
  BY DEF OnProcessDeath, IInv, Handles
<1>2. procs' \in [Pids -> Process] /\ \A q \in Pids : procs'[q].st = procs[q].st
  BY <1>1, ZenonT(30) DEF Process
<1>3. Evolves(procs', misled', NoPid)
  BY <1>1, <1>2 DEF Evolves, Lost
<1>4. CASE obj' = obj
  BY <1>1, <1>2, <1>3, <1>4, ProcessesChanged
<1>5. CASE /\ entry # 0 /\ obj[entry].pid = p
           /\ obj' = [obj EXCEPT ![entry] = ClearHandle(@)]
  <2>1. entry \in 1 .. MaxAdds
    BY <1>5, RegistryAssumption DEF IInv, Position
  <2>2. obj[entry] \in Object /\ obj' = [obj EXCEPT ![entry] = ClearHandle(obj[entry])]
    BY <1>5, <2>1 DEF IInv, Handles
  <2>3. Sound(ClearHandle(obj[entry]), procs', misled')
    BY <2>2, ClearHandleFacts, ClearedIsSound
  <2>4. Lost(procs', misled', obj[entry].pid)
    BY <1>1, <1>2, <1>5 DEF Lost, Alive
  <2>5. QED
    BY <1>1, <1>2, <1>3, <1>5, <2>2, <2>3, <2>4, EntryChanged, ZenonT(30)
<1>6. QED
  BY <1>4, <1>5 DEF OnProcessDeath

\* What the processes do by themselves.
LEMMA ProcessStepKept ==
    ASSUME IInv, NEW p \in Pids,
           \/ p = ByHand /\ StartByHand
           \/ BecomeReady(p) \/ BeginStopping(p) \/ Exit(p)
    PROVE  IInv'
<1>1. /\ UNCHANGED <<entry, added, thr, obj>>
      /\ procs \in [Pids -> Process] /\ misled \subseteq Pids
      /\ Evolves(procs, misled, NoPid)
  BY NothingLost DEF StartByHand, BecomeReady, BeginStopping, Exit, IInv, Handles
<1>2. CASE p = ByHand /\ StartByHand
  <2>1. /\ procs' = [procs EXCEPT ![ByHand].st = "starting"] /\ misled' = misled
        /\ procs[ByHand].st = "none"
    BY <1>2 DEF StartByHand
  <2>2. procs' \in [Pids -> Process] /\ \A q \in Pids : q # ByHand => procs'[q] = procs[q]
    BY <1>1, <2>1, ZenonT(30) DEF Process
  <2>3. Evolves(procs', misled', NoPid)
    BY <1>1, <2>1, <2>2 DEF Evolves, Lost
  <2>4. QED
    BY <1>1, <2>1, <2>2, <2>3, ProcessesChanged
<1>3. CASE BecomeReady(p) \/ BeginStopping(p)
  <2>1. PICK st \in {"ready", "stopping"} :
            /\ procs' = [procs EXCEPT ![p].st = st] /\ misled' = misled
            /\ procs[p].st \in {"starting", "ready"}
    BY <1>3 DEF BecomeReady, BeginStopping
  <2>2. /\ procs' \in [Pids -> Process] /\ procs'[p].st = st
        /\ \A q \in Pids : q # p => procs'[q] = procs[q]
    BY <1>1, <2>1 DEF Process
  <2>3. Evolves(procs', misled', NoPid)
    BY <1>1, <2>1, <2>2 DEF Evolves, Lost
  <2>4. QED
    BY <1>1, <2>1, <2>2, <2>3, ProcessesChanged
<1>4. CASE Exit(p)
  <2>1. procs' = [procs EXCEPT ![p].st = "dead"] /\ misled' = misled \ {p}
    BY <1>4 DEF Exit
  <2>2. /\ procs' \in [Pids -> Process] /\ procs'[p].st = "dead"
        /\ \A q \in Pids : q # p => procs'[q] = procs[q]
    BY <1>1, <2>1 DEF Process
  <2>3. Evolves(procs', misled', NoPid)
    BY <1>1, <2>1, <2>2 DEF Evolves, Lost
  <2>4. QED
    BY <1>1, <2>1, <2>2, <2>3, ProcessesChanged
<1>5. QED
  BY <1>2, <1>3, <1>4

-----------------------------------------------------------------------------

\* A new registry has neither scopes nor processes.
LEMMA InitIInv == Init => IInv
<1> SUFFICES ASSUME Init PROVE IInv
  OBVIOUS
<1>1. 0 \in 0 .. MaxAdds /\ 0 \in 0 .. 0 /\ Admin \in Threads /\ ByHand \in Pids
  BY RegistryAssumption DEF Threads, Pids, ByHand
<1>2. Position
  BY <1>1 DEF Init, Position, Idle, PCs, AtRest, AdminPCs
<1>3. Handles
  <2>1. procs \in [Pids -> Process]
    BY DEF Init, Process
  <2>2. \A o \in 1 .. MaxAdds : obj[o] = NewScopeProcess
    BY DEF Init
  <2>3. QED
    BY <2>1, <2>2, NewIsCleared, ClearedIsSound DEF Init, Handles
<1>4. Supervised
  BY DEF Init, Supervised
<1>5. QED
  BY <1>2, <1>3, <1>4 DEF IInv

\* No launched process escapes: whatever the number of threads that execute
\* locate(), of launches and of add_local_scope() calls, with or without debug
\* mode and processes started by hand, RegistryObject and ScopeProcess keep the
\* handle of every process that is starting or ready in an object that is still
\* referred to, except in the two ways that `misled' records.
THEOREM AlwaysSupervised == Spec => []Supervised
<1>1. IInv /\ [Next]_vars => IInv'
  <2> SUFFICES ASSUME IInv, [Next]_vars PROVE IInv'
    OBVIOUS
  <2>1. CASE UNCHANGED vars
    <3>1. UNCHANGED <<entry, added, thr, obj, procs, misled>>
      BY <2>1 DEF vars
    <3>2. procs \in [Pids -> Process] /\ misled \subseteq Pids /\ Evolves(procs, misled, NoPid)
      BY NothingLost DEF IInv, Handles
    <3>3. QED
      BY <3>1, <3>2, ProcessesChanged
  <2>2. CASE \E t \in Locators : Locate(t) \/ LocateStep(t)
    BY <2>2, LocateKept, LocateStepKept
  <2>3. CASE StartByHand
    BY <2>3, PidFacts, ProcessStepKept
  <2>4. CASE \E p \in Pids : BecomeReady(p) \/ BeginStopping(p) \/ Exit(p)
    BY <2>4, ProcessStepKept
  <2>5. QED
    BY <2>1, <2>2, <2>3, <2>4, AddLocalScopeKept, RemoveLocalScopeKept, SMTT(30),
       ShutdownKept, AdminStepKept, OnStateReceivedKept, OnProcessDeathKept
       DEF Next
<1>2. IInv => Supervised
  BY DEF IInv
<1>3. QED
  BY <1>1, <1>2, InitIInv, PTL DEF Spec

=============================================================================
