--------------------------- MODULE ConnectionPool ---------------------------
(* The sockets for oneway invocations: ZmqObjectProxy::invoke_oneway_() on *)
(* the thread that owns a ConnectionPool, and the reaper of the pool,      *)
(* which removes sockets that were idle.  Of the reaper (module Reaper)    *)
(* only the pass that expires items, and the wait of cancel() for the end  *)
(* of a pass, are kept.  register_socket() is called by no code of the     *)
(* library.                                                                *)
EXTENDS FiniteSets

CONSTANTS Endpoints

VARIABLES pool,         \* endpoint -> the reap item of its entry; NoEntry without one
          mutex,        \* who holds the mutex of the pool
          owner,        \* <<step of the invocation, endpoint>>
          reaper,       \* "waits", or "reaps" during a pass (reap_in_progress_)
          zombies       \* the endpoints whose callbacks this pass has yet to call

vars == <<pool, mutex, owner, reaper, zombies>>

NoEntry == "no entry"

Pooled == {e \in Endpoints : pool[e] # NoEntry}

-----------------------------------------------------------------------------
(* invoke_oneway_(): find a socket, send without waiting, and give the     *)
(* socket up if there is nothing at the other end.                         *)
Invoke(e) ==
    /\ owner[1] = "idle" /\ owner' = <<"find", e>>
    /\ UNCHANGED <<pool, mutex, reaper, zombies>>

(* find(): refresh() does nothing if the item has expired already.         *)
Find ==
    /\ owner[1] = "find" /\ mutex = "free"
    /\ pool' = IF pool[owner[2]] = NoEntry THEN [pool EXCEPT ![owner[2]] = "live"] ELSE pool
    /\ owner' = <<"send", owner[2]>>
    /\ UNCHANGED <<mutex, reaper, zombies>>

Send ==
    /\ owner[1] = "send"
    /\ \/ owner' = <<"idle", owner[2]>>
       \/ owner' = <<"remove", owner[2]>>
    /\ UNCHANGED <<pool, mutex, reaper, zombies>>

(* remove(): erasing the entry destroys its reap item, whose cancel()      *)
(* waits for the end of a pass; the mutex is held meanwhile.               *)
Remove ==
    /\ owner[1] = "remove" /\ mutex = "free"
    /\ IF pool[owner[2]] = NoEntry
       THEN owner' = <<"idle", owner[2]>> /\ UNCHANGED <<pool, mutex>>
       ELSE /\ mutex' = "owner" /\ owner' = <<"cancel", owner[2]>>
            /\ UNCHANGED pool
    /\ UNCHANGED <<reaper, zombies>>

Cancelled ==
    /\ owner[1] = "cancel" /\ reaper = "waits"
    /\ pool' = [pool EXCEPT ![owner[2]] = NoEntry]
    /\ mutex' = "free" /\ owner' = <<"idle", owner[2]>>
    /\ UNCHANGED <<reaper, zombies>>

Owner ==
    \/ Find \/ Send \/ Remove \/ Cancelled
    \/ \E e \in Endpoints : Invoke(e)

-----------------------------------------------------------------------------
(* A pass of the reaper: items that were idle long enough are taken from   *)
(* the list, then their callbacks are called, which is remove().           *)
Expire ==
    /\ reaper = "waits"
    /\ \E idle \in SUBSET {e \in Pooled : pool[e] = "live"} :
           /\ idle # {}
           /\ zombies' = idle
           /\ pool' = [e \in Endpoints |-> IF e \in idle THEN "expired" ELSE pool[e]]
    /\ reaper' = "reaps"
    /\ UNCHANGED <<mutex, owner>>

Callback ==
    /\ reaper = "reaps" /\ mutex = "free"
    /\ \E e \in zombies :
           /\ zombies' = zombies \ {e}
           /\ pool' = [pool EXCEPT ![e] = NoEntry]
    /\ UNCHANGED <<mutex, owner, reaper>>

EndPass ==
    /\ reaper = "reaps" /\ zombies = {} /\ reaper' = "waits"
    /\ UNCHANGED <<pool, mutex, owner, zombies>>

Reap == Expire \/ Callback \/ EndPass

Init ==
    /\ pool = [e \in Endpoints |-> NoEntry]
    /\ mutex = "free"
    /\ owner \in {<<"idle", e>> : e \in Endpoints}
    /\ reaper = "waits" /\ zombies = {}

Next == Owner \/ Reap

Spec == Init /\ [][Next]_vars /\ WF_vars(Find \/ Send \/ Remove \/ Cancelled) /\ WF_vars(Callback \/ EndPass)

-----------------------------------------------------------------------------
(* A socket that was found idle is one that the pass under way has yet to  *)
(* remove: none stays in the pool behind a dead reap item, also if the     *)
(* owner uses it, or removes it and makes a new one, meanwhile             *)
(* (ConnectionPool::find, ConnectionPool::remove, the lambda of find()).   *)
NoneForgotten ==
    \A e \in Endpoints : pool[e] = "expired" <=> reaper = "reaps" /\ e \in zombies

(* "Any socket that has been idle for close_after_idle_seconds is removed  *)
(* from the pool by a reaper." (ConnectionPool.h)                          *)
IdleSocketsRemoved ==
    \A e \in Endpoints : [](pool[e] = "expired" => <>(pool[e] = NoEntry))

=============================================================================
