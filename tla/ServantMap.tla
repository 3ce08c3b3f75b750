----------------------------- MODULE ServantMap -----------------------------
(* The servants of an object adapter (ObjectAdapter.cpp of the Zmq         *)
(* middleware): servants_ by identity, dflt_servants_ by category, both    *)
(* guarded by map_mutex_, and the reference counts that keep a servant     *)
(* alive.  Worker threads look servants up and dispatch to them, other     *)
(* threads add and remove servants, and one shuts the adapter down, which  *)
(* clears the maps without the mutex.  State and map mutex are locked      *)
(* together, so the test of state_ and the locking are one step.           *)
EXTENDS Naturals, FiniteSets

CONSTANTS Workers,      \* threads that dispatch requests
          Callers,      \* threads that add and remove servants
          Ids, Category \* identities, and the category of the default servant

VARIABLES state,        \* state_: "Active", "Deactivating" or "Destroyed"
          mutex,        \* who holds map_mutex_
          maps,         \* servants in servants_ and dflt_servants_
          made,         \* servants that were ever added
          dead,         \* servants whose destructor ran
          thr,          \* each thread: [pc, op, key, held]
          cleaner       \* wait_for_shutdown(): "none", "join", "fence", "clear", "done"

vars == <<state, mutex, maps, made, dead, thr, cleaner>>

Threads == Workers \cup Callers
Keys == Ids \cup {Category}
Free == "free"
Idle == [pc |-> "idle", op |-> "none", key |-> Category, held |-> {}]

Held(t) == thr[t].held
Referenced(m, t) == m \cup UNION {Held(u) : u \in Threads \ {t}}

Init ==
    /\ state = "Active" /\ mutex = Free
    /\ maps = {} /\ made = {} /\ dead = {}
    /\ thr = [t \in Threads |-> Idle] /\ cleaner = "none"

(* A thread calls an operation; a worker looks for a servant by identity.  *)
Call(t, op, key) ==
    /\ thr[t] = Idle
    /\ (t \in Workers) <=> (op = "find")
    /\ op = "find" => key \in Ids
    /\ thr' = [thr EXCEPT ![t] = [pc |-> "lock", op |-> op, key |-> key, held |-> {}]]
    /\ UNCHANGED <<state, mutex, maps, made, dead, cleaner>>

(* Both mutexes are locked and state_ tested; a destroyed adapter throws.  *)
Lock(t) ==
    /\ thr[t].pc = "lock" /\ mutex = Free
    /\ IF state = "Destroyed"
       THEN thr' = [thr EXCEPT ![t] = Idle] /\ UNCHANGED mutex
       ELSE thr' = [thr EXCEPT ![t].pc = "locked"] /\ mutex' = t
    /\ UNCHANGED <<state, maps, made, dead, cleaner>>

At(t, op) == thr[t].pc = "locked" /\ thr[t].op = op

(* add() by identity, add_dflt_servant() by category: one in use throws.   *)
(* Each key has one servant here, which is added once.                     *)
Insert(t) ==
    /\ At(t, "add") /\ mutex' = Free
    /\ maps' = maps \cup ({thr[t].key} \ made) /\ made' = made \cup {thr[t].key}
    /\ thr' = [thr EXCEPT ![t] = Idle]
    /\ UNCHANGED <<state, dead, cleaner>>
Add(t) == thr[t].key \in Ids /\ Insert(t)
AddDfltServant(t) == thr[t].key = Category /\ Insert(t)

(* remove(), remove_dflt_servant(): the entry goes, the caller keeps the   *)
(* servant until the mutex is unlocked; an absent one throws.              *)
Extract(t) ==
    /\ At(t, "remove") /\ mutex' = Free
    /\ IF thr[t].key \in maps
       THEN /\ maps' = maps \ {thr[t].key}
            /\ thr' = [thr EXCEPT ![t].pc = "drop", ![t].held = {thr[t].key}]
       ELSE thr' = [thr EXCEPT ![t] = Idle] /\ UNCHANGED maps
    /\ UNCHANGED <<state, made, dead, cleaner>>
Remove(t) == thr[t].key \in Ids /\ Extract(t)
RemoveDfltServant(t) == thr[t].key = Category /\ Extract(t)

(* Mutant: the entry's servant is used without a reference to it.          *)
FindBorrowed(t) ==
    /\ At(t, "find") /\ thr[t].key \in maps /\ mutex' = Free
    /\ thr' = [thr EXCEPT ![t].pc = "dispatch"]
    /\ UNCHANGED <<state, maps, made, dead, cleaner>>

(* find(), then find_dflt_servant(), in two steps (find_servant()).        *)
Find(t) ==
    /\ At(t, "find") /\ thr[t].key \in maps /\ mutex' = Free
    /\ thr' = [thr EXCEPT ![t].pc = "dispatch", ![t].held = {thr[t].key}]
    /\ UNCHANGED <<state, maps, made, dead, cleaner>>
FindServant(t) ==
    /\ At(t, "find") /\ thr[t].key \in Ids /\ thr[t].key \notin maps /\ mutex' = Free
    /\ thr' = [thr EXCEPT ![t].pc = "lock", ![t].key = Category]
    /\ UNCHANGED <<state, maps, made, dead, cleaner>>
FindDfltServant(t) ==
    /\ At(t, "find") /\ thr[t].key = Category /\ Category \notin maps /\ mutex' = Free
    /\ thr' = [thr EXCEPT ![t] = Idle]
    /\ UNCHANGED <<state, maps, made, dead, cleaner>>

(* The dispatch is over, or the removed servant is let go: the last        *)
(* reference runs the destructor.                                          *)
Drop(t) ==
    /\ thr[t].pc \in {"dispatch", "drop"}
    /\ dead' = dead \cup (Held(t) \ Referenced(maps, t))
    /\ thr' = [thr EXCEPT ![t] = Idle]
    /\ UNCHANGED <<state, mutex, maps, made, cleaner>>

(* shutdown() and wait_for_shutdown(), also called by ~ObjectAdapter().    *)
Shutdown ==
    /\ state = "Active" /\ state' = "Deactivating"
    /\ UNCHANGED <<mutex, maps, made, dead, thr, cleaner>>
WaitForShutdown ==
    /\ state = "Deactivating" /\ cleaner = "none"
    /\ state' = "Destroyed" /\ cleaner' = "join"
    /\ UNCHANGED <<mutex, maps, made, dead, thr>>

(* cleanup(): workers are joined; whoever is in an operation leaves it     *)
(* before the mutex is free; the maps are cleared without it.              *)
Join ==
    /\ cleaner = "join" /\ \A w \in Workers : thr[w] = Idle
    /\ cleaner' = "fence"
    /\ UNCHANGED <<state, mutex, maps, made, dead, thr>>
FenceIgnored ==
    /\ cleaner = "fence" /\ cleaner' = "clear"
    /\ UNCHANGED <<state, mutex, maps, made, dead, thr>>
Fence ==
    /\ cleaner = "fence" /\ mutex = Free
    /\ cleaner' = "clear"
    /\ UNCHANGED <<state, mutex, maps, made, dead, thr>>
Clear ==
    /\ cleaner = "clear" /\ cleaner' = "done"
    /\ maps' = {}
    /\ dead' = dead \cup (maps \ UNION {Held(u) : u \in Threads})
    /\ UNCHANGED <<state, mutex, made, thr>>

Next ==
    \/ \E t \in Threads, k \in Keys, op \in {"add", "remove", "find"} : Call(t, op, k)
    \/ \E t \in Threads :
         \/ Lock(t) \/ Add(t) \/ AddDfltServant(t) \/ Remove(t) \/ RemoveDfltServant(t)
         \/ Find(t) \/ FindServant(t) \/ FindDfltServant(t) \/ Drop(t)
    \/ Shutdown \/ WaitForShutdown \/ Join \/ Fence \/ Clear

Spec == Init /\ [][Next]_vars

(* A servant is not destroyed while a request is dispatched to it, nor     *)
(* while it is in a map; no thread is inside a map while the maps are      *)
(* cleared ("Need a full fence here", cleanup()); and every servant is     *)
(* destroyed by the end.                                                   *)
ServantsSafe ==
    /\ \A w \in Workers : thr[w].pc = "dispatch" => thr[w].key \notin dead
    /\ dead \cap maps = {}
    /\ cleaner = "clear" => \A t \in Threads : thr[t].pc # "locked"
    /\ (cleaner = "done" /\ \A t \in Threads : thr[t] = Idle) => made = dead

=============================================================================
