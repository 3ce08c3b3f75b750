------------------------------- MODULE Reaper -------------------------------
(***************************************************************************)
(* The reaper: a list of items in LRU order, a thread that calls an item's *)
(* callback once the item was not refreshed for the expiry interval, and   *)
(* the ReapItem handles with which the callers refresh and cancel items.   *)
(*                                                                         *)
(* Every critical section of the code (mutex_, reap_mutex_, the mutex of a *)
(* ReapItem) is one step.  The locks nest as mutex_ < reap_mutex_ < item   *)
(* mutex, and refresh() takes its two with std::lock, so no thread blocks  *)
(* for ever inside a critical section.                                     *)
(***************************************************************************)
EXTENDS Integers, Sequences, FiniteSets

CONSTANTS
    Items,           \* the ReapItems that can be created; each one once
    Threads,         \* the threads that use the reaper
    ReapThread,      \* reap_thread_
    NoItem,
    Policy,          \* policy_
    Expiries,        \* "finite", or "infinite" for two intervals of -1, or both
    ReapInterval,    \* in ticks
    ExpiryInterval,  \* in ticks
    MaxTime,         \* bound on the clock
    CallbackOps,     \* the operations a callback may call on the reaper
    ReleaseEarly,    \* an owner may drop the reaper without calling destroy()
    PromptReaper     \* callbacks take no time and the thread wakes when due

Actors == Threads \cup {ReapThread}

Policies == {"NoCallbackOnDestroy", "CallbackOnDestroy"}

Operations == {"add", "refresh", "cancel", "destroy"}

(* The conditions the constructor enforces on the two intervals.           *)
ASSUME IntervalAssumption ==
    /\ ReapInterval \in Nat \ {0}
    /\ ExpiryInterval \in Nat
    /\ ReapInterval <= ExpiryInterval

ASSUME ConstantAssumption ==
    /\ ReapThread \notin Threads
    /\ NoItem \notin Items
    /\ Policy \in Policies
    /\ Expiries \subseteq {"finite", "infinite"}
    /\ MaxTime \in Nat
    /\ CallbackOps \subseteq Operations
    /\ ReleaseEarly \in BOOLEAN
    /\ PromptReaper \in BOOLEAN

VARIABLES
    list,        \* list_, most recently added or refreshed item first
    timestamp,   \* Item::timestamp
    cancelled,   \* ReapItem::cancelled_
    held,        \* the items to which some caller has a shared_ptr
    created,     \* the items add() has returned
    finish,      \* finish_
    inProgress,  \* reap_in_progress_
    notified,    \* a notification of do_work_ the reaper thread has not seen
    rpc,         \* where the reaper thread is
    zombies,     \* what is left of the local list zombies
    current,     \* the item remove_zombies() has locked (ri), or NoItem
    deadline,    \* when the timed wait of the reaper thread ends
    joined,      \* destroy() is past the join
    owner,       \* the owner's shared_ptr<Reaper> is not null
    holders,     \* the actors with a temporary shared_ptr<Reaper>
    pc,          \* where each actor is inside an operation
    arg,         \* the item the operation of an actor is about
    dtor,        \* the actor runs destroy() from ~Reaper
    now,         \* steady_clock
    callback,    \* history: "none", "running" or "done" for each item
    returned,    \* history: items whose cancel() returned outside ReapThread
    crashed      \* std::terminate was called

itemVars == <<list, timestamp, cancelled, held, created>>
waitVars == <<finish, notified, deadline, joined>>
passVars == <<inProgress, rpc, zombies, current>>
reapVars == <<waitVars, passVars>>
callVars == <<owner, holders, pc, arg, dtor>>
histVars == <<callback, returned, crashed>>
vars == <<itemVars, reapVars, callVars, now, histVars>>

Max(a, b) == IF a >= b THEN a ELSE b

Member(s, i) == \E k \in DOMAIN s : s[k] = i

OnList(i) == Member(list, i)

(* list_.erase(it_); to erase end() is undefined, and IteratorsValid shows *)
(* that it does not happen.                                                *)
Erase(s, i) ==
    IF Member(s, i)
    THEN LET p == CHOOSE k \in DOMAIN s : s[k] = i
         IN  [k \in 1..(Len(s) - 1) |-> IF k < p THEN s[k] ELSE s[k + 1]]
    ELSE s

Expired(i) == timestamp[i] + ExpiryInterval <= now

(* weak_ptr<Reaper>::lock() succeeds.                                      *)
ReaperAlive == owner \/ holders # {}

Waiting == {"waitItem", "sleep"}

(* Mutant: the notification is forgotten.                                  *)
NotifyNobody == UNCHANGED notified

(* do_work_.notify_one(), which only a thread that waits receives.         *)
Notify == notified' = (notified \/ rpc \in Waiting)

-----------------------------------------------------------------------------
(* Reaper::create, with the thread started unless the expiry is infinite.  *)
Init ==
    /\ list = <<>>
    /\ timestamp = [i \in Items |-> 0]
    /\ cancelled = [i \in Items |-> FALSE]
    /\ held = {}
    /\ created = {}
    /\ finish = FALSE
    /\ inProgress = FALSE
    /\ notified = FALSE
    /\ rpc \in {IF e = "infinite" THEN "none" ELSE "top" : e \in Expiries}
    /\ zombies = <<>>
    /\ current = NoItem
    /\ deadline = 0
    /\ joined = FALSE
    /\ owner = TRUE
    /\ holders = {}
    /\ pc = [t \in Actors |-> "idle"]
    /\ arg = [t \in Actors |-> NoItem]
    /\ dtor = [t \in Actors |-> FALSE]
    /\ now = 0
    /\ callback = [i \in Items |-> "none"]
    /\ returned = {}
    /\ crashed = FALSE

-----------------------------------------------------------------------------
(* The operations.  The reaper thread calls them from within a callback.   *)

MayCall(t, op) ==
    /\ pc[t] = "idle"
    /\ t = ReapThread => rpc = "callback" /\ op \in CallbackOps

(* Reaper::add; the LogicException after destroy() changes nothing.        *)
Add(t, i) ==
    /\ MayCall(t, "add")
    /\ owner
    /\ i \notin created
    /\ ~finish
    /\ list' = <<i>> \o list
    /\ timestamp' = [timestamp EXCEPT ![i] = now]
    /\ created' = created \cup {i}
    /\ held' = held \cup {i}
    /\ IF Len(list) = 0 THEN Notify ELSE UNCHANGED notified
    /\ UNCHANGED <<cancelled, finish, deadline, joined, passVars, callVars,
                   now, histVars>>

(* The first line of refresh() and cancel(): lock the weak_ptr to the      *)
(* reaper, and only disable the item when the reaper has gone away.        *)
LockReaper(t, i, label) ==
    IF ReaperAlive
    THEN /\ holders' = holders \cup {t}
         /\ pc' = [pc EXCEPT ![t] = label]
         /\ arg' = [arg EXCEPT ![t] = i]
         /\ UNCHANGED <<cancelled, returned>>
    ELSE /\ cancelled' = [cancelled EXCEPT ![i] = TRUE]
         /\ returned' = IF label = "cancel" /\ t # ReapThread
                        THEN returned \cup {i} ELSE returned
         /\ UNCHANGED <<holders, pc, arg>>

RefreshCall(t, i) ==
    /\ MayCall(t, "refresh")
    /\ i \in held
    /\ LockReaper(t, i, "refresh")
    /\ UNCHANGED <<list, timestamp, held, created, reapVars, owner, dtor, now,
                   callback, crashed>>

(* Mutant: the entry keeps its place.                                      *)
StayInPlace(s, i) == s

MoveToFront(s, i) == <<i>> \o Erase(s, i)

(* The body of ReapItem::refresh, under both mutexes.                      *)
Refresh(t) ==
    LET i == arg[t] IN
    /\ pc[t] = "refresh"
    /\ IF cancelled[i]
       THEN UNCHANGED <<list, timestamp>>
       ELSE /\ list' = MoveToFront(list, i)
            /\ timestamp' = [timestamp EXCEPT ![i] = now]
    /\ pc' = [pc EXCEPT ![t] = "release"]
    /\ UNCHANGED <<cancelled, held, created, reapVars, owner, holders, arg,
                   dtor, now, histVars>>

CancelCall(t, i) ==
    /\ MayCall(t, "cancel")
    /\ i \in held
    /\ LockReaper(t, i, "cancel")
    /\ UNCHANGED <<list, timestamp, held, created, reapVars, owner, dtor, now,
                   callback, crashed>>

(* The last shared_ptr of a caller to the ReapItem goes away: ~ReapItem    *)
(* calls cancel(), unless remove_zombies() still has the item locked.      *)
DropItem(t, i) ==
    /\ pc[t] = "idle"
    /\ t # ReapThread
    /\ i \in held
    /\ \A u \in Actors : arg[u] # i
    /\ held' = held \ {i}
    /\ IF current = i
       THEN UNCHANGED <<cancelled, holders, pc, arg, returned>>
       ELSE LockReaper(t, i, "cancel")
    /\ UNCHANGED <<list, timestamp, created, reapVars, owner, dtor, now,
                   callback, crashed>>

(* Mutants: cancel() never waits, and cancel() waits on the reaper thread  *)
(* as well.                                                                *)
NeverWait(t) == TRUE
AlwaysWait(t) == ~inProgress

(* cancel() waits for a reaping pass unless the reaper thread calls it.    *)
PassIsOver(t) == t # ReapThread => ~inProgress

(* The first critical section of cancel().                                 *)
CancelMark(t) ==
    LET i == arg[t] IN
    /\ pc[t] = "cancel"
    /\ PassIsOver(t)
    /\ cancelled' = [cancelled EXCEPT ![i] = TRUE]
    /\ pc' = [pc EXCEPT ![t] = IF cancelled[i] THEN "release" ELSE "erase"]
    /\ returned' = IF cancelled[i] /\ t # ReapThread
                   THEN returned \cup {i} ELSE returned
    /\ UNCHANGED <<list, timestamp, held, created, reapVars, owner, holders,
                   arg, dtor, now, callback, crashed>>

(* The second critical section of cancel().                                *)
CancelErase(t) ==
    LET i == arg[t] IN
    /\ pc[t] = "erase"
    /\ list' = Erase(list, i)
    /\ pc' = [pc EXCEPT ![t] = "release"]
    /\ returned' = IF t # ReapThread THEN returned \cup {i} ELSE returned
    /\ UNCHANGED <<timestamp, cancelled, held, created, reapVars, owner,
                   holders, arg, dtor, now, callback, crashed>>

(* An actor drops its temporary shared_ptr<Reaper>; the last one destroys  *)
(* the reaper.                                                             *)
Release(t) ==
    /\ pc[t] = "release"
    /\ holders' = holders \ {t}
    /\ arg' = [arg EXCEPT ![t] = NoItem]
    /\ IF owner \/ holders # {t}
       THEN /\ pc' = [pc EXCEPT ![t] = "idle"]
            /\ UNCHANGED dtor
       ELSE /\ pc' = [pc EXCEPT ![t] = "destroy"]
            /\ dtor' = [dtor EXCEPT ![t] = TRUE]
    /\ UNCHANGED <<itemVars, reapVars, owner, now, histVars>>

DestroyCall(t) ==
    /\ MayCall(t, "destroy")
    /\ owner
    /\ holders' = holders \cup {t}
    /\ pc' = [pc EXCEPT ![t] = "destroy"]
    /\ UNCHANGED <<itemVars, reapVars, owner, arg, dtor, now, histVars>>

(* destroy() returns: to its caller, or as the end of ~Reaper, where a     *)
(* std::thread that was started and never joined calls std::terminate.     *)
DestroyReturn(t, threadGone) ==
    IF dtor[t]
    THEN /\ pc' = [pc EXCEPT ![t] = "idle"]
         /\ dtor' = [dtor EXCEPT ![t] = FALSE]
         /\ crashed' = ~threadGone
    ELSE /\ pc' = [pc EXCEPT ![t] = "release"]
         /\ UNCHANGED <<dtor, crashed>>

(* A reaper with infinite expiry has no thread before destroy().           *)
Infinite == rpc = "none"

(* destroy() starts the thread of an infinite reaper for the callbacks.    *)
StartToDestroy == Infinite /\ Len(list) # 0 /\ Policy = "CallbackOnDestroy"

(* The critical section of destroy().                                      *)
Destroy(t) ==
    /\ pc[t] = "destroy"
    /\ IF finish
       THEN /\ DestroyReturn(t, joined \/ rpc = "none")
            /\ UNCHANGED <<finish, notified, rpc>>
       ELSE /\ rpc' = IF StartToDestroy THEN "top" ELSE rpc
            /\ finish' = TRUE
            /\ Notify
            /\ pc' = [pc EXCEPT ![t] = "join"]
            /\ UNCHANGED <<dtor, crashed>>
    /\ UNCHANGED <<itemVars, deadline, joined, inProgress, zombies, current,
                   owner, holders, arg, now, callback, returned>>

(* Mutant: destroy() returns without the join.                             *)
JoinLater(t) ==
    /\ pc[t] = "join"
    /\ t # ReapThread
    /\ DestroyReturn(t, TRUE)
    /\ UNCHANGED <<itemVars, waitVars, passVars, owner, holders, arg, now,
                   callback, returned>>

(* The join at the end of destroy().                                       *)
Join(t) ==
    /\ pc[t] = "join"
    /\ t # ReapThread
    /\ rpc \in {"none", "exited"}
    /\ joined' = TRUE
    /\ DestroyReturn(t, TRUE)
    /\ UNCHANGED <<itemVars, finish, notified, deadline, passVars, owner,
                   holders, arg, now, callback, returned>>

(* A thread that joins itself gets a system_error: from the destructor it  *)
(* terminates the program, from a callback remove_zombies() swallows it.   *)
SelfJoin(t) ==
    /\ pc[t] = "join"
    /\ t = ReapThread
    /\ pc' = [pc EXCEPT ![t] = "release"]
    /\ crashed' = dtor[t]
    /\ UNCHANGED <<itemVars, reapVars, owner, holders, arg, dtor, now,
                   callback, returned>>

(* The owner sets its shared_ptr<Reaper> to null.                          *)
OwnerRelease(t) ==
    /\ t # ReapThread
    /\ pc[t] = "idle"
    /\ owner
    /\ \/ ReleaseEarly
       \/ finish /\ \A u \in Actors : pc[u] \notin {"destroy", "join"}
    /\ owner' = FALSE
    /\ IF holders = {}
       THEN /\ pc' = [pc EXCEPT ![t] = "destroy"]
            /\ dtor' = [dtor EXCEPT ![t] = TRUE]
       ELSE UNCHANGED <<pc, dtor>>
    /\ UNCHANGED <<itemVars, reapVars, holders, arg, now, histVars>>

Operation(t) ==
    \/ \E i \in Items : \/ Add(t, i)
                        \/ RefreshCall(t, i)
                        \/ CancelCall(t, i)
                        \/ DropItem(t, i)
    \/ Refresh(t)
    \/ CancelMark(t)
    \/ CancelErase(t)
    \/ Release(t)
    \/ DestroyCall(t)
    \/ Destroy(t)
    \/ Join(t)
    \/ SelfJoin(t)
    \/ OwnerRelease(t)

-----------------------------------------------------------------------------
(* The reaper thread.                                                      *)

(* Mutant: the interval is not added to the time of day.                   *)
SleepInterval == timestamp[list[Len(list)]] + ExpiryInterval - now

(* The end of the timed wait: the oldest item has had a chance to expire,  *)
(* and there is at most one pass every reap_interval_.                     *)
WakeTime ==
    now + Max(timestamp[list[Len(list)]] + ExpiryInterval - now, ReapInterval)

(* The top of the loop of reap_func(), up to the wait, which returns at    *)
(* once when finish_ is set.                                               *)
EnterWait ==
    /\ IF list = <<>>
       THEN /\ rpc' = "waitItem"
            /\ UNCHANGED deadline
       ELSE /\ rpc' = "sleep"
            /\ deadline' = WakeTime
    /\ notified' = finish

ReapTop ==
    /\ rpc = "top"
    /\ EnterWait
    /\ UNCHANGED <<itemVars, finish, joined, inProgress, zombies, current,
                   callVars, now, histVars>>

(* A notification with the predicate of the wait still false.              *)
ReapIgnore ==
    /\ notified
    /\ \/ rpc = "waitItem" /\ list = <<>>
       \/ rpc = "sleep"
    /\ ~finish
    /\ notified' = FALSE
    /\ UNCHANGED <<itemVars, finish, deadline, joined, passVars, callVars, now,
                   histVars>>

Awake ==
    \/ rpc = "waitItem" /\ notified /\ (list # <<>> \/ finish)
    \/ rpc = "sleep" /\ now >= deadline
    \/ rpc = "sleep" /\ notified /\ finish

(* The n-th entry is the last one, seen from the front, that has not       *)
(* expired; the scan from the tail stops there.                            *)
ScanStopsAt(n) ==
    /\ n > 0 => ~Expired(list[n])
    /\ \A k \in (n + 1)..Len(list) : Expired(list[k])

(* From the end of the wait to lock.unlock(): collect the zombies.         *)
ReapScan ==
    /\ Awake
    /\ notified' = FALSE
    /\ \/ /\ finish
          /\ Policy = "NoCallbackOnDestroy"
          /\ rpc' = "exited"
          /\ UNCHANGED zombies
       \/ /\ finish
          /\ Policy = "CallbackOnDestroy"
          /\ rpc' = "begin"
          /\ zombies' = list
       \/ /\ ~finish
          /\ rpc' = "begin"
          /\ \E n \in 0..Len(list) :
                /\ ScanStopsAt(n)
                /\ zombies' = [k \in 1..(Len(list) - n)
                                 |-> list[Len(list) + 1 - k]]
    /\ UNCHANGED <<itemVars, finish, deadline, joined, inProgress, current,
                   callVars, now, histVars>>

(* The start of remove_zombies().                                          *)
ReapBegin ==
    /\ rpc = "begin"
    /\ inProgress' = TRUE
    /\ rpc' = "next"
    /\ UNCHANGED <<itemVars, waitVars, zombies, current, callVars, now,
                   histVars>>

(* One zombie whose ReapItem was deallocated already.                      *)
ReapSkip ==
    /\ rpc = "next"
    /\ zombies # <<>>
    /\ Head(zombies) \notin held
    /\ zombies' = Tail(zombies)
    /\ UNCHANGED <<itemVars, waitVars, inProgress, rpc, current, callVars, now,
                   histVars>>

(* Lock the weak_ptr to the ReapItem of the next zombie.                   *)
ReapLock ==
    /\ rpc = "next"
    /\ zombies # <<>>
    /\ Head(zombies) \in held
    /\ current' = Head(zombies)
    /\ zombies' = Tail(zombies)
    /\ rpc' = "mark"
    /\ UNCHANGED <<itemVars, waitVars, inProgress, callVars, now, histVars>>

(* Mutants: the item is not marked, and the mark is not looked at.         *)
ReapMarkNothing ==
    /\ rpc = "mark"
    /\ rpc' = IF cancelled[current] THEN "unref" ELSE "erase"
    /\ UNCHANGED <<itemVars, waitVars, inProgress, zombies, current, callVars,
                   now, histVars>>
ReapMarkBlindly ==
    /\ rpc = "mark"
    /\ cancelled' = [cancelled EXCEPT ![current] = TRUE]
    /\ rpc' = "erase"
    /\ UNCHANGED <<list, timestamp, held, created, waitVars, inProgress,
                   zombies, current, callVars, now, histVars>>

(* Under the mutex of the item: leave it alone, or cancel it.              *)
ReapMark ==
    /\ rpc = "mark"
    /\ cancelled' = [cancelled EXCEPT ![current] = TRUE]
    /\ rpc' = IF cancelled[current] THEN "unref" ELSE "erase"
    /\ UNCHANGED <<list, timestamp, held, created, waitVars, inProgress,
                   zombies, current, callVars, now, histVars>>

(* Erase the item from the list and call its callback.                     *)
ReapErase ==
    /\ rpc = "erase"
    /\ list' = Erase(list, current)
    /\ rpc' = "callback"
    /\ callback' = [callback EXCEPT ![current] = "running"]
    /\ UNCHANGED <<timestamp, cancelled, held, created, waitVars, inProgress,
                   zombies, current, callVars, now, returned, crashed>>

(* The callback returns or throws.                                         *)
CallbackReturn ==
    /\ rpc = "callback"
    /\ pc[ReapThread] = "idle"
    /\ callback' = [callback EXCEPT ![current] = "done"]
    /\ rpc' = "unref"
    /\ UNCHANGED <<itemVars, waitVars, inProgress, zombies, current, callVars,
                   now, returned, crashed>>

(* The end of an iteration drops ri, which is the last reference to the    *)
(* ReapItem if the caller's one has gone: then ~ReapItem runs here.        *)
ReapUnref ==
    /\ rpc = "unref"
    /\ current' = NoItem
    /\ rpc' = "next"
    /\ IF current \in held
       THEN UNCHANGED <<cancelled, holders, pc, arg, returned>>
       ELSE LockReaper(ReapThread, current, "cancel")
    /\ UNCHANGED <<list, timestamp, held, created, waitVars, inProgress,
                   zombies, owner, dtor, now, callback, crashed>>

(* The end of remove_zombies().                                            *)
ReapEnd ==
    /\ rpc = "next"
    /\ zombies = <<>>
    /\ pc[ReapThread] = "idle"
    /\ inProgress' = FALSE
    /\ rpc' = "check"
    /\ UNCHANGED <<itemVars, waitVars, zombies, current, callVars, now,
                   histVars>>

(* The test of finish_ at the bottom of the loop, and the loop again.      *)
ReapCheck ==
    /\ rpc = "check"
    /\ IF finish
       THEN /\ rpc' = "exited"
            /\ UNCHANGED <<notified, deadline>>
       ELSE EnterWait
    /\ UNCHANGED <<itemVars, finish, joined, inProgress, zombies, current,
                   callVars, now, histVars>>

ReapStep ==
    /\ pc[ReapThread] = "idle"
    /\ \/ ReapTop \/ ReapIgnore \/ ReapScan \/ ReapBegin \/ ReapSkip
       \/ ReapLock \/ ReapMark \/ ReapErase \/ CallbackReturn \/ ReapUnref
       \/ ReapEnd \/ ReapCheck

(* Time passes; with PromptReaper only while the reaper thread waits and   *)
(* is not due.                                                             *)
Tick ==
    /\ now < MaxTime
    /\ PromptReaper => /\ rpc \in Waiting \cup {"none", "exited"}
                       /\ ~Awake
    /\ now' = now + 1
    /\ UNCHANGED <<itemVars, reapVars, callVars, histVars>>

Next ==
    /\ ~crashed
    /\ \/ \E t \in Actors : Operation(t)
       \/ ReapStep
       \/ Tick

Spec == Init /\ [][Next]_vars

(* An operation that has begun proceeds, and so does the reaper thread.    *)
(* Callbacks return ("must not block for any length of time").  A caller   *)
(* that waits for the end of a reaping pass gets reap_mutex_ before one of *)
(* the later passes, which are at least reap_interval_ apart.              *)
Proceed(t) ==
    Refresh(t) \/ CancelErase(t) \/ Release(t) \/ Destroy(t) \/ Join(t)
      \/ SelfJoin(t)

Fairness ==
    /\ WF_vars(~crashed /\ ReapStep)
    /\ SF_vars(~crashed /\ CallbackReturn)
    /\ \A t \in Actors : /\ WF_vars(~crashed /\ Proceed(t))
                         /\ SF_vars(~crashed /\ CancelMark(t))

FairSpec == Spec /\ Fairness

-----------------------------------------------------------------------------
ItemTypes ==
    /\ list \in Seq(Items)
    /\ timestamp \in [Items -> Nat]
    /\ cancelled \in [Items -> BOOLEAN]
    /\ held \subseteq created
    /\ created \subseteq Items

WaitTypes ==
    /\ finish \in BOOLEAN
    /\ notified \in BOOLEAN
    /\ deadline \in Nat
    /\ joined \in BOOLEAN
    /\ now \in Nat

PassTypes ==
    /\ inProgress \in BOOLEAN
    /\ rpc \in {"none", "top", "waitItem", "sleep", "begin", "next", "mark",
                "erase", "callback", "unref", "check", "exited"}
    /\ zombies \in Seq(Items)
    /\ current \in Items \cup {NoItem}

CallTypes ==
    /\ owner \in BOOLEAN
    /\ holders \subseteq Actors
    /\ pc \in [Actors -> {"idle", "refresh", "cancel", "erase", "release",
                          "destroy", "join"}]
    /\ arg \in [Actors -> Items \cup {NoItem}]
    /\ dtor \in [Actors -> BOOLEAN]

HistTypes ==
    /\ callback \in [Items -> {"none", "running", "done"}]
    /\ returned \subseteq Items
    /\ crashed \in BOOLEAN

(* Every variable has values of its type.                                  *)
TypeOK == ItemTypes /\ WaitTypes /\ PassTypes /\ CallTypes /\ HistTypes

(* "A callback never arrives after a call to cancel() has returned": when  *)
(* cancel(), called by a thread other than the reaper thread, has returned *)
(* the callback of the item is not running, and so never starts again.     *)
CancelIsFinal == \A i \in returned : callback[i] # "running"

(* What the reaper promises for each of its items, whatever calls and      *)
(* reaping passes race: the life cycle of ReapItemLifeCycle, in which the  *)
(* callback comes at most once and never for a cancelled item.             *)
Status(i) ==
    CASE i \notin created -> "none"
      [] callback[i] = "done" -> "fired"
      [] callback[i] = "running" \/ (rpc = "erase" /\ current = i) -> "firing"
      [] callback[i] = "none" /\ ~(rpc = "erase" /\ current = i)
           /\ i \in created /\ cancelled[i] -> "disarmed"
      [] OTHER -> "armed"

LifeCycle ==
    INSTANCE ReapItemLifeCycle WITH status <- [i \in Items |-> Status(i)]

ImplementsLifeCycle == LifeCycle!Spec

(* The assertions it_ != list_.end() of refresh(), cancel() and            *)
(* remove_zombies(): the entry that is about to be erased is on the list.  *)
IteratorsValid ==
    /\ \A t \in Actors :
          /\ pc[t] = "refresh" /\ ~cancelled[arg[t]] => OnList(arg[t])
          /\ pc[t] = "erase" => OnList(arg[t])
    /\ rpc = "erase" => OnList(current)

(* The list is in LRU order without duplicates, so that reap_func() may    *)
(* stop its scan from the tail at the first entry that has not expired.    *)
LruOrder ==
    \A j, k \in DOMAIN list :
        j < k => /\ list[j] # list[k]
                 /\ timestamp[list[j]] >= timestamp[list[k]]

(* "Actual life time is in the range [expiry_interval, expiry_interval +   *)
(* reap_interval]": no entry stays on the list for longer than that if     *)
(* callbacks do not block; in particular no notification of add() is lost. *)
LifeTimeBounded ==
    ~Infinite /\ ~finish =>
        \A i \in held :
            \/ cancelled[i]
            \/ now <= timestamp[i] + ExpiryInterval + ReapInterval

(* "It is safe to let a reaper go out of scope while there are still       *)
(* ReapItems for it": no use of the reaper terminates the program if the   *)
(* owner calls destroy() first (~Reaper).                                  *)
NeverTerminates == ~crashed

(* A call of cancel() returns, also from within a callback and whatever    *)
(* reaping passes it has to wait for.                                      *)
CancelReturns ==
    \A t \in Actors : pc[t] \in {"cancel", "erase"} ~> pc[t] = "idle"

(* destroy() returns: the reaper thread notices finish_ and exits.         *)
DestroyReturns ==
    \A t \in Actors : pc[t] \in {"destroy", "join"} ~> pc[t] = "idle"

(* cancel() and destroy() return, also when they are called by callbacks,  *)
(* and no thread joins itself (ReapItem::cancel, Reaper::destroy, ~Reaper; *)
(* CancelReturns, DestroyReturns and NeverTerminates in Reaper).           *)
ReaperReturns == CancelReturns /\ DestroyReturns /\ []NeverTerminates


(* Items are interchangeable, and so are threads.                          *)
Renamings(S) ==
    {[x \in S |-> f[x]] : f \in {g \in [S -> S] : \A x, y \in S : g[x] = g[y] => x = y}}
Symmetry == Renamings(Items) \cup Renamings(Threads)

=============================================================================
