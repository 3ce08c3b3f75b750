---------------------------- MODULE ReaperProofs ----------------------------
(***************************************************************************)
(* The guarantee of cancel(), the end of the reaper, and the proof that    *)
(* the reaper does what ReapItemLifeCycle says of an item, for any number  *)
(* of items and threads.                                                   *)
(***************************************************************************)
EXTENDS ReaperInvariant

-----------------------------------------------------------------------------
(* The cancellations and the passes.                                       *)

(* The item whose callback is running or comes next.                       *)
Reaping(i) == rpc \in {"erase", "callback"} /\ current = i

PassInv ==
    /\ rpc \in {"next", "mark", "erase", "callback", "unref"} => inProgress
    /\ \A i \in Items : callback[i] = "running" => Reaping(i)
    /\ rpc = "erase" => cancelled[current]

(* What cancel() has established before it returns.                        *)
ReturnInv ==
    /\ \A i \in returned : cancelled[i] /\ ~Reaping(i)
    /\ \A t \in Threads :
          pc[t] = "erase" => cancelled[arg[t]] /\ ~Reaping(arg[t])

(* The owner drops the reaper only when the reaper thread has gone.        *)
Gone == rpc \in {"none", "exited"}

OwnerInv ==
    /\ finish => Gone \/ \E t \in Threads : pc[t] = "join"
    /\ ~owner => finish /\ Gone
    /\ pc[ReapThread] \notin {"destroy", "join"}

CancelInv == ThreadInv /\ PassInv /\ ReturnInv /\ OwnerInv

(* Locking the reaper, or failing to, keeps the invariant: it fails only   *)
(* when the reaper thread has gone.                                        *)
LEMMA LockCancel ==
    ASSUME TypeOK, ArgOK, PassInv, ReturnInv, OwnerInv,
           NEW t \in Actors, pc[t] = "idle", NEW i \in Items,
           NEW label \in {"refresh", "cancel"}, LockReaper(t, i, label),
           UNCHANGED <<finish, inProgress, rpc, current, owner, callback>>
    PROVE  (PassInv /\ ReturnInv /\ OwnerInv)'
<1>1. CASE ReaperAlive
  BY <1>1
  DEF LockReaper, TypeOK, CallTypes, PassInv, Reaping, ReturnInv, Actors,
      OwnerInv, Gone
<1>2. CASE ~ReaperAlive
  <2>1. /\ cancelled' = [cancelled EXCEPT ![i] = TRUE]
        /\ returned' \subseteq returned \cup {i}
        /\ UNCHANGED <<pc, arg>>
    BY <1>2 DEF LockReaper
  <2>2. \A j \in Items : cancelled'[j] = (cancelled[j] \/ j = i)
    BY Zenon, <2>1 DEF TypeOK, ItemTypes
  <2>3. Gone
    BY <1>2 DEF ReaperAlive, OwnerInv
  <2>4. (PassInv /\ OwnerInv)'
    BY <2>1, <2>3 DEF PassInv, OwnerInv, Reaping, Gone
  <2>5. \A j \in returned' : cancelled'[j] /\ ~Reaping(j)'
    BY Zenon, <2>1, <2>2, <2>3 DEF ReturnInv, Reaping, Gone, TypeOK, HistTypes
  <2>6. ASSUME NEW u \in Threads, pc'[u] = "erase"
        PROVE  cancelled'[arg'[u]] /\ ~Reaping(arg[u])'
    BY <2>1, <2>2, <2>3, <2>6 DEF ReturnInv, ArgOK, Reaping, Gone, TypeOK,
       ItemTypes, Actors
  <2> QED
    BY Zenon, <2>4, <2>5, <2>6, <2>1 DEF ReturnInv
<1> QED
  BY <1>1, <1>2

(* When no owner drops the reaper early and no callback destroys it, every *)
(* step keeps the invariant behind cancel().                               *)
LEMMA CancelStep ==
    ASSUME ~ReleaseEarly, "destroy" \notin CallbackOps,
           TypeOK, ArgOK, CancelInv, [Next]_vars
    PROVE  (PassInv /\ ReturnInv /\ OwnerInv)'
<1>. /\ pc \in [Actors -> {"idle", "refresh", "cancel", "erase", "release",
                           "destroy", "join"}]
     /\ arg \in [Actors -> Items \cup {NoItem}]
     /\ cancelled \in [Items -> BOOLEAN] /\ current \in Items \cup {NoItem}
     /\ callback \in [Items -> {"none", "running", "done"}]
     /\ returned \subseteq Items /\ created \subseteq Items
  BY DEF TypeOK, CallTypes, ItemTypes, PassTypes, HistTypes
<1>. ReapThread \notin Threads /\ Actors = Threads \cup {ReapThread}
  BY ConstantAssumption DEF Actors
<1>. ThreadInv /\ PassInv /\ ReturnInv /\ OwnerInv
  BY DEF CancelInv
<1>. USE DEF itemVars, reapVars, waitVars, passVars, callVars, histVars
<1>1. ASSUME NEW t \in Actors, NEW i \in Items,
             RefreshCall(t, i) \/ CancelCall(t, i)
      PROVE  (PassInv /\ ReturnInv /\ OwnerInv)'
  BY <1>1, LockCancel DEF RefreshCall, CancelCall, MayCall
<1>. USE DEF PassInv, ReturnInv, OwnerInv, Reaping, Gone
<1>2. ASSUME NEW t \in Actors, NEW i \in Items, DropItem(t, i)
      PROVE  (PassInv /\ ReturnInv /\ OwnerInv)'
  BY <1>2, LockCancel DEF DropItem
<1>3. ASSUME NEW t \in Actors,
             Refresh(t) \/ Release(t) \/ SelfJoin(t)
      PROVE  (PassInv /\ ReturnInv /\ OwnerInv)'
  BY <1>3 DEF Refresh, Release, SelfJoin, ThreadInv
<1>13. ASSUME NEW t \in Actors, DestroyCall(t) \/ OwnerRelease(t)
       PROVE  (PassInv /\ ReturnInv /\ OwnerInv)'
  BY <1>13 DEF DestroyCall, MayCall, OwnerRelease
<1>4. ASSUME NEW t \in Actors, CancelMark(t)
      PROVE  (PassInv /\ ReturnInv /\ OwnerInv)'
  BY <1>4 DEF CancelMark, PassIsOver, ArgOK
<1>5. ASSUME NEW t \in Actors, CancelErase(t)
      PROVE  (PassInv /\ ReturnInv /\ OwnerInv)'
  BY <1>5 DEF CancelErase, ArgOK
<1>11. ASSUME NEW t \in Actors, Destroy(t)
       PROVE  (PassInv /\ ReturnInv /\ OwnerInv)'
  BY <1>11 DEF Destroy, StartToDestroy, Infinite, DestroyReturn
<1>12. ASSUME NEW t \in Actors, Join(t)
       PROVE  (PassInv /\ ReturnInv /\ OwnerInv)'
  BY <1>12 DEF Join, DestroyReturn
<1>6. CASE ReapScan
  BY <1>6, ZombiesType, Zenon DEF ReapScan, Awake
<1>7. CASE ReapTop \/ ReapBegin \/ ReapCheck
  BY <1>7 DEF ReapTop, ReapBegin, ReapCheck, EnterWait
<1>14. CASE ReapSkip \/ ReapLock \/ ReapEnd
  BY <1>14 DEF ReapSkip, ReapLock, ReapEnd
<1>8. CASE ReapMark \/ ReapErase \/ CallbackReturn
  BY <1>8 DEF ReapMark, ReapErase, CallbackReturn, ArgOK
<1>9. CASE ReapUnref
  BY <1>9 DEF ReapUnref, LockReaper, ReaperAlive, ArgOK
<1>10. CASE \/ \E t \in Actors, i \in Items : Add(t, i)
            \/ ReapIgnore \/ Tick \/ UNCHANGED vars
  <2>1. UNCHANGED <<cancelled, returned, callback, inProgress, rpc, current,
                    owner, finish, pc, arg>>
    BY <1>10, Zenon DEF Add, ReapIgnore, Tick, vars
  <2>. QED
    BY <2>1
<1>. QED
  BY <1>1, <1>2, <1>3, <1>4, <1>5, <1>6, <1>7, <1>8, <1>9, <1>10, <1>11,
     <1>12, <1>13, <1>14, Zenon
  DEF Next, Operation, ReapStep

(* The invariant behind cancel() holds initially.                          *)
LEMMA InitCancel == Init => CancelInv
BY DEF Init, ThreadInv, Actors, PassInv, Reaping, ReturnInv, OwnerInv, Gone,
       CancelInv

(* The guarantee of cancel(): once it has returned on a thread other than  *)
(* the reaper thread, the callback is not running, provided that the owner *)
(* calls destroy() before it drops the reaper and no callback does.        *)
(* Both are needed: a cancel() that comes while ~Reaper waits for the      *)
(* callback finds no reaper any more and returns at once, and a destroy()  *)
(* that a callback calls sets finish_ without waiting for the callback.    *)
THEOREM CancelGuarantee ==
    ASSUME ~ReleaseEarly, "destroy" \notin CallbackOps
    PROVE  Spec => []CancelIsFinal
<1> DEFINE I == Inv /\ CancelInv
<1>1. Init => I
  BY InitInv, InitCancel
<1>2. I /\ [Next]_vars => I'
  BY Zenon, NextInv, CancelStep DEF Inv, CancelInv
<1>3. I => CancelIsFinal
  BY DEF Inv, CancelInv, PassInv, ReturnInv, CancelIsFinal, TypeOK, HistTypes
<1> QED
  BY <1>1, <1>2, <1>3, PTL DEF Spec

-----------------------------------------------------------------------------
(* The refinement, and the end of the reaper.                              *)

(* The thread that sets finish_ joins with the reaper thread before anyone *)
(* may drop the reaper, and only ~Reaper itself calls destroy() after that.*)
TermInv ==
    /\ ~crashed
    /\ finish => joined \/ rpc = "none" \/ \E t \in Threads : pc[t] = "join"
    /\ ~owner => joined \/ rpc = "none"
    /\ \A t \in Actors : dtor[t] => ~owner

(* Every step keeps it: when ~Reaper runs, destroy() has nothing to join.  *)
LEMMA TermStep ==
    ASSUME ~ReleaseEarly, TypeOK, CancelInv, TermInv, [Next]_vars
    PROVE  TermInv'
<1> USE DEF itemVars, reapVars, waitVars, passVars, callVars, histVars
<1>t. /\ pc \in [Actors -> {"idle", "refresh", "cancel", "erase", "release",
                             "destroy", "join"}]
      /\ dtor \in [Actors -> BOOLEAN]
  BY DEF TypeOK, CallTypes
<1>o. /\ ~owner => finish /\ rpc \in {"none", "exited"}
      /\ pc[ReapThread] \notin {"destroy", "join"}
  BY DEF CancelInv, OwnerInv, Gone
<1>u. ASSUME UNCHANGED <<finish, joined, owner, dtor, crashed>>,
             \A t \in Threads : pc[t] = "join" => pc'[t] = "join",
             rpc = "none" => rpc' = "none"
      PROVE  TermInv'
  BY <1>u DEF TermInv
<1>l. ASSUME NEW t \in Actors, NEW i, NEW label, LockReaper(t, i, label),
             pc[t] = "idle"
      PROVE  \A u \in Threads : pc[u] = "join" => pc'[u] = "join"
  BY <1>l, <1>t DEF LockReaper, Actors
<1>1. ASSUME NEW t \in Actors, NEW i \in Items,
             \/ Add(t, i) \/ RefreshCall(t, i) \/ CancelCall(t, i)
             \/ DropItem(t, i)
      PROVE  TermInv'
  BY <1>1, <1>u, <1>l
  DEF Add, RefreshCall, CancelCall, DropItem, MayCall
<1>2. ASSUME NEW t \in Actors,
             Refresh(t) \/ CancelMark(t) \/ CancelErase(t) \/ DestroyCall(t)
      PROVE  TermInv'
  BY <1>2, <1>t, <1>u
  DEF Refresh, CancelMark, CancelErase, DestroyCall, MayCall, Actors
<1>3. ASSUME NEW t \in Actors, Release(t)
      PROVE  TermInv'
  BY <1>t, <1>3 DEF Release, TermInv, Actors
<1>4. ASSUME NEW t \in Actors, Destroy(t), finish
      PROVE  TermInv'
  BY Zenon, <1>t, <1>4 DEF Destroy, DestroyReturn, TermInv, Actors
<1>5. ASSUME NEW t \in Actors, Destroy(t), ~finish
      PROVE  TermInv'
  BY <1>5, <1>o, <1>t DEF Destroy, Actors, TermInv
<1>6. ASSUME NEW t \in Actors, Join(t)
      PROVE  TermInv'
  BY ZenonT(30), <1>t, <1>6 DEF Join, DestroyReturn, TermInv
<1>7. ASSUME NEW t \in Actors, SelfJoin(t)
      PROVE  TermInv'
  BY <1>o, <1>7 DEF SelfJoin
<1>8. ASSUME NEW t \in Actors, OwnerRelease(t)
      PROVE  TermInv'
  BY <1>8 DEF OwnerRelease, TermInv, Actors
<1>9. CASE ReapUnref /\ pc[ReapThread] = "idle"
  BY <1>9, <1>u, <1>l DEF ReapUnref, Actors
<1>10. CASE \/ ReapTop \/ ReapIgnore \/ ReapScan \/ ReapBegin \/ ReapSkip
            \/ ReapLock \/ ReapMark \/ ReapErase \/ CallbackReturn
            \/ ReapEnd \/ ReapCheck
  BY Zenon, <1>10, <1>u
  DEF ReapTop, ReapIgnore, ReapScan, ReapBegin, ReapSkip, ReapLock, ReapMark,
      ReapErase, CallbackReturn, ReapEnd, ReapCheck, Awake
<1>11. CASE Tick \/ UNCHANGED vars
  BY <1>u, <1>11 DEF Tick, vars
<1> QED
  BY <1>1, <1>2, <1>3, <1>4, <1>5, <1>6, <1>7, <1>8, <1>9, <1>10, <1>11
     DEF Next, Operation, ReapStep

(* "It is safe to let a reaper go out of scope while there are still       *)
(* ReapItems for it": std::terminate is never called, neither by ~thread   *)
(* nor by a thread that joins itself, under the same two conditions.       *)
THEOREM SafeToDrop ==
    ASSUME ~ReleaseEarly, "destroy" \notin CallbackOps
    PROVE  Spec => []NeverTerminates
<1> DEFINE I == Inv /\ CancelInv /\ TermInv
<1>1. Init => Inv /\ CancelInv
  BY InitInv, InitCancel
<1>2. Init => TermInv
  BY DEF Init, TermInv
<1>3. I /\ [Next]_vars => I'
  BY Zenon, NextInv, CancelStep, TermStep DEF Inv, CancelInv
<1>4. I => NeverTerminates
  BY DEF TermInv, NeverTerminates
<1> QED
  BY <1>1, <1>2, <1>3, <1>4, PTL DEF Spec

-----------------------------------------------------------------------------
(* The refinement.                                                         *)

(* The reaper thread is about to call the callback of item i.              *)
Firing(i) == rpc = "erase" /\ current = i

(* How the three marks of an item and the position of the reaper thread    *)
(* hang together.                                                          *)
FireInv ==
    /\ \A i \in Items : callback[i] # "none" => i \in created /\ cancelled[i]
    /\ \A i \in Items : i \notin created => ~cancelled[i]
    /\ rpc = "erase" => cancelled[current] /\ callback[current] = "none"
    /\ \A i \in Items :
          callback[i] = "running" <=> rpc = "callback" /\ current = i

(* Steps that do not let the reaper thread into a callback, or out of one. *)
NotReaping ==
    \/ UNCHANGED <<rpc, current>>
    \/ {rpc, rpc'} \cap {"erase", "callback"} = {}

(* A step that marks item i as cancelled, and one that marks none.         *)
Marks(i) ==
    /\ cancelled' = [cancelled EXCEPT ![i] = TRUE]
    /\ UNCHANGED <<created, callback>>
    /\ NotReaping

Quiet == UNCHANGED <<created, cancelled, callback>> /\ NotReaping

(* When the reaper has gone, refresh() and cancel() only mark the item.    *)
LEMMA LockMarks ==
    ASSUME NEW t, NEW i, NEW label, LockReaper(t, i, label),
           UNCHANGED <<created, callback>>, NotReaping
    PROVE  Quiet \/ Marks(i)
BY DEF LockReaper, Quiet, Marks

(* For the life of an item only six kinds of steps differ: add(), a        *)
(* cancel() that marks it, the three steps of remove_zombies() from the    *)
(* mark to the return of the callback, and all the others.                 *)
LEMMA Kinds ==
    ASSUME TypeOK, ArgOK, [Next]_vars
    PROVE  \/ Quiet
           \/ \E i \in created : Marks(i)
           \/ \E t \in Actors, i \in Items : Add(t, i)
           \/ ReapMark \/ ReapErase \/ CallbackReturn
<1> DEFINE Goal == Quiet \/ \E i \in created : Marks(i)
<1> USE DEF itemVars, reapVars, waitVars, passVars, callVars, histVars
<1>1. ASSUME NEW t \in Actors, NEW i \in Items,
             RefreshCall(t, i) \/ CancelCall(t, i)
      PROVE  Goal
  BY <1>1, LockMarks
  DEF RefreshCall, CancelCall, TypeOK, ItemTypes, NotReaping
<1>2. ASSUME NEW t \in Actors, NEW i \in Items, DropItem(t, i)
      PROVE  Goal
  BY <1>2, LockMarks DEF DropItem, TypeOK, ItemTypes, NotReaping, Quiet
<1>3. ASSUME NEW t \in Actors, CancelMark(t)
      PROVE  Goal
  BY <1>3, ZenonT(30) DEF CancelMark, ArgOK, Marks, NotReaping
<1>4. ASSUME NEW t \in Actors,
             \/ Refresh(t) \/ CancelErase(t) \/ Release(t) \/ DestroyCall(t)
             \/ Join(t) \/ SelfJoin(t) \/ OwnerRelease(t)
      PROVE  Goal
  BY Zenon, <1>4
  DEF Refresh, CancelErase, Release, DestroyCall, Join, SelfJoin, OwnerRelease,
     Quiet, NotReaping
<1>5. ASSUME NEW t \in Actors, Destroy(t)
      PROVE  Goal
  BY <1>5 DEF Destroy, StartToDestroy, Infinite, Quiet, NotReaping
<1>6. CASE ReapScan
  BY <1>6, ZombiesType DEF ReapScan, Awake, Quiet, NotReaping
<1>7. CASE ReapUnref
  BY <1>7, LockMarks DEF ReapUnref, ArgOK, NotReaping, Quiet
<1>8. CASE \/ ReapTop \/ ReapIgnore \/ ReapBegin \/ ReapSkip \/ ReapLock
           \/ ReapEnd \/ ReapCheck
  BY <1>8
  DEF ReapTop, EnterWait, ReapIgnore, ReapBegin, ReapSkip, ReapLock, ReapEnd,
     ReapCheck, Quiet, NotReaping
<1>9. CASE Tick \/ UNCHANGED vars
  BY <1>9 DEF Tick, vars, Quiet, NotReaping
<1> QED
  BY <1>1, <1>2, <1>3, <1>4, <1>5, <1>6, <1>7, <1>8, <1>9, ZenonT(30)
  DEF Next, Operation, ReapStep

(* What add() does to an item.                                             *)
LEMMA Adds ==
    ASSUME TypeOK, NEW t, NEW i \in Items, Add(t, i)
    PROVE  /\ i \notin created /\ created' = created \cup {i}
           /\ UNCHANGED <<cancelled, callback, rpc, current>>
BY DEF Add, passVars, histVars

(* What the steps of remove_zombies() do to the item they have locked.     *)
LEMMA Reaps ==
    ASSUME TypeOK, ArgOK
    PROVE  /\ ReapMark =>
                /\ rpc = "mark" /\ current \in created
                /\ UNCHANGED <<created, callback, current>>
                /\ cancelled' = [cancelled EXCEPT ![current] = TRUE]
                /\ rpc' = IF cancelled[current] THEN "unref" ELSE "erase"
           /\ ReapErase =>
                /\ rpc = "erase" /\ rpc' = "callback"
                /\ UNCHANGED <<created, cancelled, current>>
                /\ current \in created
                /\ callback' = [callback EXCEPT ![current] = "running"]
           /\ CallbackReturn =>
                /\ rpc = "callback" /\ rpc' = "unref"
                /\ UNCHANGED <<created, cancelled, current>>
                /\ current \in created
                /\ callback' = [callback EXCEPT ![current] = "done"]
BY DEF ReapMark, ReapErase, CallbackReturn, ArgOK, itemVars, histVars

(* The types of the three marks.                                           *)
FireTypes ==
    /\ created \subseteq Items /\ cancelled \in [Items -> BOOLEAN]
    /\ callback \in [Items -> {"none", "running", "done"}]

(* remove_zombies() marks an item before it calls the callback, once.      *)
LEMMA FireStep ==
    ASSUME TypeOK, ArgOK, FireInv, [Next]_vars
    PROVE  FireInv'
<1>t. FireTypes
  BY DEF TypeOK, ItemTypes, HistTypes, FireTypes
<1>a. rpc = "erase" => current \in Items
  BY DEF ArgOK, TypeOK, ItemTypes
<1>1. CASE Quiet
  <2>1. CASE UNCHANGED <<rpc, current>>
    BY <1>1, <2>1 DEF Quiet, FireInv
  <2>2. CASE {rpc, rpc'} \cap {"erase", "callback"} = {}
    BY <2>2, <1>1, Zenon DEF Quiet, FireInv
  <2> QED
    BY <1>1, <2>1, <2>2 DEF Quiet, NotReaping
<1>2. ASSUME NEW i \in created, Marks(i)
      PROVE  FireInv'
  BY <1>2, <1>t, <1>a, Zenon DEF Marks, FireTypes, NotReaping, FireInv
<1>3. ASSUME NEW t \in Actors, NEW i \in Items, Add(t, i)
      PROVE  FireInv'
  BY <1>3, Adds DEF FireInv
<1>4. CASE ReapMark
  BY <1>4, <1>t, Reaps DEF FireTypes, FireInv
<1>5. CASE ReapErase
  BY <1>5, <1>t, Reaps DEF FireInv, FireTypes
<1>6. CASE CallbackReturn
  BY <1>6, <1>t, Reaps DEF FireInv, FireTypes
<1> QED
  BY <1>1, <1>2, <1>3, <1>4, <1>5, <1>6, Kinds

-----------------------------------------------------------------------------
(* The status of an item, case by case.                                    *)
LEMMA StatusIs ==
    ASSUME FireTypes, FireInv, NEW i \in Items
    PROVE  /\ i \notin created => Status(i) = "none"
           /\ callback[i] = "done" => Status(i) = "fired"
           /\ callback[i] = "running" \/ (Firing(i) /\ i \in created) =>
                 Status(i) = "firing"
           /\ i \in created /\ callback[i] = "none" /\ ~Firing(i) =>
                 Status(i) = IF cancelled[i] THEN "disarmed" ELSE "armed"
BY DEF Status, FireInv, FireTypes, Firing

(* The same for the state after a step.                                    *)
LEMMA StatusBecomes ==
    ASSUME FireTypes', FireInv', NEW i \in Items
    PROVE  /\ callback'[i] = "done" => Status(i)' = "fired"
           /\ Firing(i)' /\ i \in created' => Status(i)' = "firing"
           /\ callback'[i] = "running" => Status(i)' = "firing"
           /\ i \in created' /\ callback'[i] = "none" /\ ~Firing(i)' =>
                 Status(i)' = IF cancelled'[i] THEN "disarmed" ELSE "armed"
BY DEF Status, FireInv, FireTypes, Firing

(* A step that leaves the marks of an item alone leaves its status alone.  *)
LEMMA StatusFrame ==
    ASSUME NEW i, (i \in created') <=> (i \in created),
           callback'[i] = callback[i],
           cancelled'[i] = cancelled[i], Firing(i)' <=> Firing(i)
    PROVE  Status(i)' = Status(i)
BY DEF Status, Firing

(* The status of all items, and how it changes when one item moves.        *)
LEMMA OneMoves ==
    ASSUME NEW i \in Items, \A j \in Items \ {i} : Status(j)' = Status(j)
    PROVE  /\ [j \in Items |-> Status(j)]' =
                 [[j \in Items |-> Status(j)] EXCEPT ![i] = Status(i)']
           /\ [j \in Items |-> Status(j)][i] = Status(i)
BY Zenon

(* Every step of the reaper is a step of the life cycle, or none at all.   *)
LEMMA LifeStep ==
    ASSUME TypeOK, ArgOK, FireInv, [Next]_vars
    PROVE  [LifeCycle!Next]_([i \in Items |-> Status(i)])
<1> DEFINE Goal == [LifeCycle!Next]_([i \in Items |-> Status(i)])
<1>t. FireTypes /\ FireTypes'
  BY TypeStep DEF TypeOK, ItemTypes, HistTypes, FireTypes, TypeInv
<1>i. FireInv'
  BY FireStep
<1>u. ASSUME \A i \in Items : Status(i)' = Status(i)
      PROVE  Goal
  BY <1>u
<1>m. ASSUME NEW i \in Items, NEW from, NEW to,
             \A j \in Items \ {i} : Status(j)' = Status(j),
             Status(i) = from, Status(i)' = to
      PROVE  LifeCycle!Move(i, from, to)
  BY <1>m, OneMoves DEF LifeCycle!Move
<1>1. CASE Quiet
  BY <1>1, <1>u, StatusFrame, Zenon DEF Quiet, NotReaping, Firing
<1>2. ASSUME NEW i \in created, Marks(i)
      PROVE  Goal
  <2>1. \A j \in Items : cancelled'[j] = (cancelled[j] \/ j = i)
    BY Zenon, <1>2, <1>t DEF Marks, FireTypes
  <2>2. \A j \in Items : Firing(j)' <=> Firing(j)
    BY Zenon, <1>2 DEF Marks, NotReaping, Firing
  <2>3. i \in Items /\ UNCHANGED <<created, callback>>
    BY <1>2, <1>t DEF Marks, FireTypes
  <2>4. \A j \in Items \ {i} : Status(j)' = Status(j)
    BY <1>t, <2>1, <2>2, <2>3, StatusFrame DEF FireTypes
  <2>5. CASE cancelled[i]
    BY Zenon, <1>u, <2>1, <2>2, <2>3, <2>4, <2>5, StatusFrame
  <2>6. CASE ~cancelled[i]
    BY ZenonT(30), <2>3, <2>6, <1>t, StatusIs, <1>i, <2>1, <2>2,
       StatusBecomes, <1>m, <2>4
    DEF FireInv, Firing, LifeCycle!Next, LifeCycle!Disarm
  <2> QED
    BY <2>5, <2>6
<1>3. ASSUME NEW t \in Actors, NEW i \in Items, Add(t, i)
      PROVE  Goal
  <2>1. /\ i \notin created /\ created' = created \cup {i}
        /\ UNCHANGED <<cancelled, callback, rpc, current>>
    BY <1>3, Adds
  <2>2. \A j \in Items \ {i} : Status(j)' = Status(j)
    BY <2>1, StatusFrame DEF Firing
  <2>3. Status(i) = "none" /\ Status(i)' = "armed"
    <3>1. ~cancelled[i] /\ callback[i] = "none" /\ ~Firing(i)
      BY <1>t, <2>1 DEF FireInv, FireTypes, Firing
    <3>2. Status(i) = "none"
      BY <1>t, <2>1, StatusIs
    <3>3. ~Firing(i)'
      BY <2>1, <3>1, Zenon DEF Firing
    <3>. QED
      BY <1>t, <1>i, <2>1, <3>1, <3>2, <3>3, StatusBecomes
  <2> QED
    BY <1>m, <2>2, <2>3 DEF LifeCycle!Next, LifeCycle!Arm
<1>4. CASE ReapMark
  <2>. PICK i \in created : i = current
    BY <1>4, Reaps
  <2>. /\ i \in Items /\ i \in created' /\ UNCHANGED callback
       /\ rpc = "mark" /\ current' = i
       /\ rpc' = IF cancelled[i] THEN "unref" ELSE "erase"
       /\ cancelled' = [cancelled EXCEPT ![i] = TRUE]
    BY <1>4, Reaps, <1>t DEF FireTypes
  <2>1. \A j \in Items \ {i} : Status(j)' = Status(j)
    BY <1>4, Reaps, <1>t, StatusFrame, Zenon DEF FireTypes, Firing
  <2>2. CASE cancelled[i]
    <3>1. Status(i)' = Status(i)
      BY <1>4, <2>2, Reaps, <1>t, StatusFrame, Zenon DEF FireTypes, Firing
    <3>. QED
      BY <1>u, <2>1, <3>1, Zenon
  <2>3. CASE ~cancelled[i]
    <3>1. Status(i) = "armed" /\ Status(i)' = "firing"
      BY <1>t, <1>i, <2>3, StatusIs, StatusBecomes DEF FireInv, Firing
    <3>. QED
      BY <1>m, <2>1, <3>1 DEF LifeCycle!Next, LifeCycle!Fire
  <2>. QED
    BY <2>2, <2>3
<1>5. CASE ReapErase
  <2>1. \A j \in Items \ {current} : Status(j)' = Status(j)
    BY <1>5, Reaps, <1>t, StatusFrame DEF FireTypes, Firing
  <2>2. current \in Items /\ Status(current) = "firing"
    BY <1>5, Reaps, <1>t, StatusIs DEF FireTypes, Firing
  <2>3. Status(current)' = "firing"
    BY <1>5, Reaps, <1>t, <1>i, <2>2, StatusBecomes DEF FireTypes
  <2>. QED
    BY <1>u, <2>1, <2>2, <2>3, Reaps, <1>5, Zenon
<1>6. CASE CallbackReturn
  <2>1. \A j \in Items \ {current} : Status(j)' = Status(j)
    BY <1>6, Reaps, <1>t, StatusFrame DEF FireTypes, Firing
  <2>2. current \in Items /\ Status(current) = "firing"
    BY <1>6, Reaps, <1>t, StatusIs DEF FireTypes, FireInv
  <2>. QED
    BY <1>6, Reaps, <1>t, <2>1, <2>2, <1>i, StatusBecomes, <1>m
    DEF FireTypes, LifeCycle!Next, LifeCycle!Fired
<1> QED
  BY <1>1, <1>2, <1>3, <1>4, <1>5, <1>6, Kinds

(* The reaper implements ReapItemLifeCycle, whatever calls of add(),       *)
(* refresh(), cancel(), destroy() and the destructors race with a reaping  *)
(* pass: a callback comes at most once, and never for a disarmed item.     *)
THEOREM Implements == Spec => ImplementsLifeCycle
<1>1. Init => LifeCycle!Init
  BY DEF Init, Status, LifeCycle!Init
<1>2. Init => FireInv
  BY Zenon DEF Init, FireInv
<1>3. Inv /\ FireInv /\ [Next]_vars => FireInv'
  BY FireStep DEF Inv
<1>4. Inv /\ FireInv /\ [Next]_vars =>
         [LifeCycle!Next]_([i \in Items |-> Status(i)])
  BY LifeStep DEF Inv
<1> QED
  BY <1>1, <1>2, <1>3, <1>4, InductiveInvariant, PTL
     DEF Spec, ImplementsLifeCycle, LifeCycle!Spec
=============================================================================
