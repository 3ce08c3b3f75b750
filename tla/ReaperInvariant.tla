-------------------------- MODULE ReaperInvariant --------------------------
(***************************************************************************)
(* What the reaper keeps however it is used, for any number of items and   *)
(* threads: the types of its variables, the entries of its list, and their *)
(* order.  The lemmas say what the list operations do, and that every step *)
(* keeps the inductive invariant Inv.                                      *)
(***************************************************************************)
EXTENDS Reaper, TLAPS

(* The actors and the reaper thread know which item they are working on.   *)
ArgOK ==
    /\ \A t \in Actors :
          pc[t] \in {"refresh", "cancel", "erase"} => arg[t] \in created
    /\ rpc \in {"mark", "erase", "callback", "unref"} => current \in created

TypeInv == TypeOK /\ ArgOK

(* The reaper thread calls operations only from a callback, or from the    *)
(* destructor of a ReapItem.                                               *)
ThreadInv == pc[ReapThread] # "idle" => rpc \in {"callback", "next"}

-----------------------------------------------------------------------------
(* The list operations.                                                    *)

(* erase() yields a list of items again.                                   *)
LEMMA EraseType ==
    ASSUME NEW s \in Seq(Items), NEW i
    PROVE  Erase(s, i) \in Seq(Items)
BY DEF Member, Erase

(* So does the move to the front in refresh().                             *)
LEMMA FrontType ==
    ASSUME NEW s \in Seq(Items), NEW i \in Items
    PROVE  MoveToFront(s, i) \in Seq(Items)
BY EraseType DEF MoveToFront

(* erase() keeps the other members of the list and adds none.              *)
LEMMA EraseMember ==
    ASSUME NEW s \in Seq(Items), NEW i, NEW j
    PROVE  /\ Member(s, j) /\ j # i => Member(Erase(s, i), j)
           /\ Member(Erase(s, i), j) => Member(s, j)
<1>1. CASE Member(s, i)
  <2>1. PICK p : p = CHOOSE k \in DOMAIN s : s[k] = i
    OBVIOUS
  <2>2. p \in 1..Len(s) /\ s[p] = i
    BY <1>1, <2>1 DEF Member
  <2> DEFINE e == [k \in 1..(Len(s) - 1) |-> IF k < p THEN s[k] ELSE s[k + 1]]
  <2>3. Erase(s, i) = e
    BY <1>1, <2>1 DEF Erase
  <2>4. ASSUME Member(e, j) PROVE Member(s, j)
    BY <2>4 DEF Member
  <2>5. ASSUME Member(s, j), j # i PROVE Member(e, j)
    <3>1. PICK k \in 1..Len(s) : s[k] = j
      BY <2>5 DEF Member
    <3>2. k # p
      BY <3>1, <2>2, <2>5
    <3>3. CASE k < p
      BY <3>1, <3>3, <2>2 DEF Member
    <3>4. CASE k > p
      <4>1. k - 1 \in DOMAIN e /\ e[k - 1] = j
        BY <3>1, <3>4, <2>2
      <4> QED
        BY <4>1 DEF Member
    <3> QED
      BY <3>2, <3>3, <3>4, <2>2
  <2> QED
    BY <2>3, <2>4, <2>5
<1>2. CASE ~Member(s, i)
  BY <1>2 DEF Erase
<1> QED
  BY <1>1, <1>2

(* push_front() adds one member.                                           *)
LEMMA ConsMember ==
    ASSUME NEW s \in Seq(Items), NEW i \in Items, NEW j
    PROVE  Member(<<i>> \o s, j) <=> j = i \/ Member(s, j)
<1> DEFINE c == <<i>> \o s
<1>1. /\ DOMAIN c = 1..(Len(s) + 1)
      /\ c[1] = i
      /\ \A k \in 1..Len(s) : c[k + 1] = s[k]
  OBVIOUS
<1>2. ASSUME Member(c, j) PROVE j = i \/ Member(s, j)
  BY <1>1, <1>2 DEF Member
<1>3. ASSUME j = i \/ Member(s, j) PROVE Member(c, j)
  <2>1. CASE j = i
    BY <2>1, <1>1 DEF Member
  <2>2. CASE Member(s, j)
    <3>1. PICK k \in 1..Len(s) : s[k] = j
      BY <2>2 DEF Member
    <3>2. k + 1 \in DOMAIN c /\ c[k + 1] = j
      BY <3>1, <1>1
    <3> QED
      BY Zenon, <3>2 DEF Member
  <2> QED
    BY <1>3, <2>1, <2>2
<1> QED
  BY <1>2, <1>3

(* The list and the time stamps are in LRU order.                          *)
Ordered(s, ts) ==
    \A j, k \in DOMAIN s :
        j < k => s[j] # s[k] /\ ts[s[j]] >= ts[s[k]]

(* erase() keeps the order, and removes the item for good.                 *)
LEMMA EraseOrdered ==
    ASSUME NEW s \in Seq(Items), NEW i \in Items, NEW ts, Ordered(s, ts)
    PROVE  Ordered(Erase(s, i), ts) /\ ~Member(Erase(s, i), i)
<1>1. CASE Member(s, i)
  <2>1. PICK p : p = CHOOSE k \in DOMAIN s : s[k] = i
    OBVIOUS
  <2>2. p \in 1..Len(s) /\ s[p] = i
    BY <1>1, <2>1 DEF Member
  <2> DEFINE e == [k \in 1..(Len(s) - 1) |-> IF k < p THEN s[k] ELSE s[k + 1]]
             at(k) == IF k < p THEN k ELSE k + 1
  <2>3. Erase(s, i) = e
    BY <1>1, <2>1 DEF Erase
  <2>4. \A k \in 1..(Len(s) - 1) :
           at(k) \in 1..Len(s) /\ at(k) # p /\ e[k] = s[at(k)]
    BY <2>2
  <2>5. \A j, k \in 1..(Len(s) - 1) : j < k => at(j) < at(k)
    BY <2>2
  <2>6. DOMAIN e = 1..(Len(s) - 1)
    OBVIOUS
  <2> HIDE DEF e, at
  <2>7. Ordered(e, ts)
    <3>. SUFFICES ASSUME NEW j \in 1..(Len(s) - 1), NEW k \in 1..(Len(s) - 1),
                         j < k
                  PROVE  e[j] # e[k] /\ ts[e[j]] >= ts[e[k]]
      BY <2>6, Zenon DEF Ordered
    <3>1. /\ at(j) \in DOMAIN s /\ at(k) \in DOMAIN s /\ at(j) < at(k)
          /\ e[j] = s[at(j)] /\ e[k] = s[at(k)]
      BY <2>4, <2>5
    <3>. QED
      BY <3>1, Zenon DEF Ordered
  <2>8. \A k \in 1..(Len(s) - 1) : e[k] # i
    BY <2>2, <2>4 DEF Ordered
  <2> QED
    BY <2>3, <2>6, <2>7, <2>8 DEF Member
<1>2. CASE ~Member(s, i)
  BY <1>2 DEF Erase
<1> QED
  BY <1>1, <1>2

(* An item with the latest time stamp may be pushed to the front.          *)
LEMMA ConsOrdered ==
    ASSUME NEW s \in Seq(Items), NEW i \in Items, NEW ts \in [Items -> Nat],
           NEW n \in Nat, Ordered(s, ts), ~Member(s, i),
           \A j \in Items : Member(s, j) => ts[j] <= n
    PROVE  Ordered(<<i>> \o s, [ts EXCEPT ![i] = n])
<1> DEFINE c == <<i>> \o s
           us == [ts EXCEPT ![i] = n]
<1>1. /\ DOMAIN c = 1..(Len(s) + 1)
      /\ c[1] = i
      /\ \A k \in 2..(Len(s) + 1) : k - 1 \in 1..Len(s) /\ c[k] = s[k - 1]
  OBVIOUS
<1>2. \A k \in 1..Len(s) : s[k] \in Items /\ s[k] # i /\ ts[s[k]] <= n
  BY DEF Member
<1>3. us[i] = n /\ \A k \in 1..Len(s) : us[s[k]] = ts[s[k]]
  BY <1>2
<1> HIDE DEF c, us
<1>4. ASSUME NEW j \in 1..(Len(s) + 1), NEW k \in 1..(Len(s) + 1), j < k
      PROVE  c[j] # c[k] /\ us[c[j]] >= us[c[k]]
  <2> Len(s) \in Nat /\ DOMAIN s = 1..Len(s)
    OBVIOUS
  <2>0. k \in 2..(Len(s) + 1)
    BY <1>4
  <2>1. k - 1 \in 1..Len(s) /\ c[k] = s[k - 1]
    BY <1>1, <2>0
  <2>2. CASE j = 1
    BY <1>1, <1>2, <1>3, <2>1, <2>2
  <2>3. CASE j # 1
    <3>0. j \in 2..(Len(s) + 1) /\ j - 1 < k - 1
      BY <1>4, <2>3
    <3>1. j - 1 \in 1..Len(s) /\ c[j] = s[j - 1]
      BY <1>1, <3>0
    <3>2. s[j - 1] # s[k - 1] /\ ts[s[j - 1]] >= ts[s[k - 1]]
      BY <2>1, <3>1, <3>0, Zenon DEF Ordered
    <3> QED
      BY <1>3, <2>1, <3>1, <3>2
  <2> QED
    BY <2>2, <2>3
<1>5. Ordered(c, us)
  BY <1>1, <1>4 DEF Ordered
<1> QED
  BY <1>5 DEF c, us

-----------------------------------------------------------------------------
(* Types.                                                                  *)

(* The wake-up time is a time.                                             *)
LEMMA WakeTimeType ==
    ASSUME TypeOK, list # <<>>
    PROVE  WakeTime \in Nat
BY IntervalAssumption DEF TypeOK, ItemTypes, WakeTime, Max, WaitTypes

(* The zombies are items.                                                  *)
LEMMA ZombiesType ==
    ASSUME TypeOK, ReapScan
    PROVE  zombies' \in Seq(Items) /\ rpc' \in {"exited", "begin"}
<1>1. list \in Seq(Items) /\ zombies \in Seq(Items)
  BY DEF TypeOK, ItemTypes, PassTypes
<1>2. ASSUME NEW n \in 0..Len(list)
      PROVE  [k \in 1..(Len(list) - n) |-> list[Len(list) + 1 - k]]
               \in Seq(Items)
  BY <1>1
<1> QED
  BY <1>1, <1>2 DEF ReapScan

(* Locking the reaper keeps the types of what it assigns.                  *)
LEMMA LockTypes ==
    ASSUME TypeOK, NEW t \in Actors, NEW i \in Items,
           NEW label \in {"refresh", "cancel"}, LockReaper(t, i, label)
    PROVE  /\ cancelled' \in [Items -> BOOLEAN]
           /\ holders' \subseteq Actors
           /\ pc' \in [Actors -> {"idle", "refresh", "cancel", "erase",
                                  "release", "destroy", "join"}]
           /\ arg' \in [Actors -> Items \cup {NoItem}]
           /\ returned' \subseteq Items
<1>1. CASE ReaperAlive
  <2>1. /\ holders' = holders \cup {t}
        /\ pc' = [pc EXCEPT ![t] = label]
        /\ arg' = [arg EXCEPT ![t] = i]
        /\ UNCHANGED <<cancelled, returned>>
    BY <1>1 DEF LockReaper
  <2>2. cancelled' \in [Items -> BOOLEAN] /\ returned' \subseteq Items
    BY <2>1 DEF TypeOK, ItemTypes, HistTypes
  <2>3. /\ holders' \subseteq Actors
        /\ pc' \in [Actors -> {"idle", "refresh", "cancel", "erase",
                               "release", "destroy", "join"}]
        /\ arg' \in [Actors -> Items \cup {NoItem}]
    BY <2>1 DEF TypeOK, CallTypes
  <2> QED
    BY <2>2, <2>3
<1>2. CASE ~ReaperAlive
  BY <1>2, Zenon DEF LockReaper, TypeOK, HistTypes, ItemTypes, CallTypes
<1> QED
  BY <1>1, <1>2

(* The initial state has the types.                                        *)
LEMMA InitType == Init => TypeInv
<1> SUFFICES ASSUME Init PROVE TypeInv
  OBVIOUS
<1>1. ItemTypes
  BY DEF Init, ItemTypes
<1>2. WaitTypes
  BY Zenon DEF Init, WaitTypes
<1>3. PassTypes
  <2>1. rpc \in {"none", "top"}
    BY DEF Init
  <2>2. inProgress \in BOOLEAN
    BY Zenon DEF Init
  <2>3. zombies \in Seq(Items) /\ current \in Items \cup {NoItem}
    BY DEF Init
  <2> QED
    BY <2>1, <2>2, <2>3 DEF PassTypes
<1>4. CallTypes
  BY DEF Init, CallTypes
<1>5. HistTypes
  BY Zenon DEF Init, HistTypes
<1>6. ArgOK
  BY DEF Init, ArgOK
<1> QED
  BY <1>1, <1>2, <1>3, <1>4, <1>5, <1>6 DEF TypeInv, TypeOK

(* Every step keeps the types.                                             *)
LEMMA TypeStep ==
    ASSUME TypeOK, ArgOK, [Next]_vars
    PROVE  TypeOK'
<1>. USE DEF TypeOK, ItemTypes, WaitTypes, PassTypes, CallTypes, HistTypes
<1>. USE DEF itemVars, reapVars, waitVars, passVars, callVars, histVars
<1>1. ASSUME NEW t \in Actors, NEW i \in Items, Add(t, i) PROVE TypeOK'
  <2>1. list' \in Seq(Items) /\ timestamp' \in [Items -> Nat]
    BY <1>1 DEF Add
  <2>. QED BY <1>1, <2>1, ZenonT(30) DEF Add, Notify
<1>2. ASSUME NEW t \in Actors, NEW i \in Items,
             RefreshCall(t, i) \/ CancelCall(t, i) \/ DropItem(t, i)
      PROVE  TypeOK'
  BY <1>2, LockTypes DEF RefreshCall, CancelCall, DropItem
<1>3. ASSUME NEW t \in Actors, Refresh(t) PROVE TypeOK'
  <2>1. arg[t] \in Items
    BY <1>3 DEF Refresh, ArgOK
  <2>2. MoveToFront(list, arg[t]) \in Seq(Items)
    BY <2>1, FrontType
  <2>. QED BY <1>3, <2>2 DEF Refresh
<1>4. ASSUME NEW t \in Actors, CancelMark(t) PROVE TypeOK'
  BY <1>4 DEF CancelMark, ArgOK, PassIsOver
<1>17. ASSUME NEW t \in Actors, CancelErase(t) PROVE TypeOK'
  BY <1>17, EraseType DEF CancelErase, ArgOK
<1>5. ASSUME NEW t \in Actors, DestroyCall(t) PROVE TypeOK'
  BY <1>5 DEF DestroyCall
<1>18. ASSUME NEW t \in Actors, SelfJoin(t) PROVE TypeOK'
  BY <1>18 DEF SelfJoin
<1>6. ASSUME NEW t \in Actors, Release(t) \/ OwnerRelease(t) PROVE TypeOK'
  <2>1. CallTypes'
    BY <1>6, ZenonT(30) DEF Release, OwnerRelease
  <2>. QED BY <1>6, <2>1 DEF Release, OwnerRelease
<1>7. ASSUME NEW t \in Actors, Destroy(t) \/ Join(t) PROVE TypeOK'
  <2>1. PassTypes'
    BY <1>7, Zenon DEF Destroy, Join
  <2>2. WaitTypes'
    BY <1>7, Zenon DEF Destroy, Notify, Join
  <2>. QED
    BY <1>7, <2>1, <2>2, Zenon DEF Destroy, Join, DestroyReturn
<1>8. CASE ReapTop
  BY <1>8, WakeTimeType DEF ReapTop, EnterWait
<1>20. CASE ReapCheck
  BY <1>20, WakeTimeType DEF ReapCheck, EnterWait
<1>9. CASE ReapScan
  BY <1>9, ZombiesType, ZenonT(30) DEF ReapScan
<1>10. CASE ReapBegin
  BY <1>10 DEF ReapBegin
<1>19. CASE ReapSkip
  BY <1>19 DEF ReapSkip
<1>11. CASE ReapLock
  BY <1>11 DEF ReapLock
<1>12. CASE ReapIgnore \/ ReapEnd \/ ReapMark
  BY <1>12, ZenonT(30) DEF ReapIgnore, ReapEnd, ReapMark
<1>13. CASE ReapErase
  BY <1>13, EraseType, Zenon DEF ReapErase
<1>14. CASE CallbackReturn
  BY <1>14, Zenon DEF CallbackReturn
<1>15. CASE ReapUnref
  BY <1>15, LockTypes, Zenon DEF ReapUnref, ArgOK, Actors
<1>16. CASE Tick \/ UNCHANGED vars
  BY <1>16 DEF Tick, Waiting, vars
<1>. HIDE DEF TypeOK
<1>. QED
  BY <1>1, <1>2, <1>3, <1>4, <1>5, <1>6, <1>7, <1>8, <1>9, <1>10, <1>11,
     <1>12, <1>13, <1>14, <1>15, <1>16, <1>17, <1>18, <1>19, <1>20,
     Zenon
  DEF Next, Operation, ReapStep

(* Locking the reaper remembers the item.                                  *)
LEMMA LockArg ==
    ASSUME TypeOK, ArgOK, ThreadInv, NEW t \in Actors, NEW i \in created,
           NEW label \in {"refresh", "cancel"}, LockReaper(t, i, label),
           t = ReapThread => rpc \in {"callback", "next"},
           UNCHANGED <<created, rpc, current, finish>>
    PROVE  (ArgOK /\ ThreadInv)'
<1>. /\ pc \in [Actors -> {"idle", "refresh", "cancel", "erase", "release",
                           "destroy", "join"}]
     /\ arg \in [Actors -> Items \cup {NoItem}]
  BY DEF TypeOK, CallTypes
<1>1. CASE ReaperAlive
  BY <1>1 DEF LockReaper, ArgOK, ThreadInv, Actors
<1>2. CASE ~ReaperAlive
  BY <1>2, Zenon DEF LockReaper, ArgOK, ThreadInv
<1>. QED
  BY <1>1, <1>2

(* Every step keeps ArgOK and ThreadInv.                                   *)
LEMMA ThreadStep ==
    ASSUME TypeOK, ArgOK, ThreadInv, [Next]_vars
    PROVE  (ArgOK /\ ThreadInv)'
<1>. /\ held \subseteq created /\ created \subseteq Items
     /\ pc \in [Actors -> {"idle", "refresh", "cancel", "erase", "release",
                           "destroy", "join"}]
     /\ arg \in [Actors -> Items \cup {NoItem}]
  BY DEF TypeOK, ItemTypes, CallTypes
<1>. USE DEF itemVars, reapVars, waitVars, passVars, callVars
<1>1. ASSUME NEW t \in Actors, NEW i \in Items,
             RefreshCall(t, i) \/ CancelCall(t, i) \/ DropItem(t, i)
      PROVE  (ArgOK /\ ThreadInv)'
  BY <1>1, LockArg
  DEF RefreshCall, CancelCall, DropItem, MayCall, TypeOK, ItemTypes, ArgOK,
      ThreadInv
<1>. USE DEF ArgOK, ThreadInv, Actors
<1>2. ASSUME NEW t \in Actors,
             Refresh(t) \/ CancelMark(t) \/ CancelErase(t) \/ Release(t)
      PROVE  (ArgOK /\ ThreadInv)'
  BY <1>2 DEF Refresh, CancelMark, CancelErase, Release
<1>3. ASSUME NEW t \in Actors,
             \/ DestroyCall(t) \/ Destroy(t) \/ Join(t) \/ SelfJoin(t)
             \/ OwnerRelease(t)
      PROVE  (ArgOK /\ ThreadInv)'
  BY <1>3
  DEF DestroyCall, MayCall, Destroy, StartToDestroy, Infinite, Join, SelfJoin,
      DestroyReturn, OwnerRelease
<1>4. CASE ReapScan /\ pc[ReapThread] = "idle"
  BY <1>4, ZombiesType DEF ReapScan, Awake
<1>5. CASE ReapUnref /\ pc[ReapThread] = "idle"
  BY <1>5 DEF ReapUnref, LockReaper
<1>6. CASE /\ pc[ReapThread] = "idle"
           /\ \/ ReapTop \/ ReapIgnore \/ ReapBegin \/ ReapSkip \/ ReapEnd
              \/ ReapCheck
  BY <1>6
  DEF ReapTop, ReapIgnore, ReapBegin, ReapSkip, ReapEnd, ReapCheck, EnterWait
<1>8. CASE /\ pc[ReapThread] = "idle"
           /\ ReapLock \/ ReapMark \/ ReapErase \/ CallbackReturn
  BY <1>8 DEF ReapLock, ReapMark, ReapErase, CallbackReturn
<1>7. CASE (\E t \in Actors, i \in Items : Add(t, i)) \/ Tick \/ UNCHANGED vars
  BY <1>7, ZenonT(30) DEF Add, Tick, vars
<1> QED
  BY <1>1, <1>2, <1>3, <1>4, <1>5, <1>6, <1>7, <1>8, Zenon
  DEF Next, Operation, ReapStep

-----------------------------------------------------------------------------
(* The list.                                                               *)

(* The entries of items that are not cancelled are on the list, and only   *)
(* one thread is about to erase the entry of a cancelled one.              *)
ListInv ==
    /\ \A i \in created : ~cancelled[i] => OnList(i)
    /\ \A i \in Items : OnList(i) => i \in created

Eraser(t, i) == pc[t] = "erase" /\ arg[t] = i

EraseInv ==
    /\ \A t \in Actors : \A i \in Items : Eraser(t, i) =>
          /\ cancelled[i]
          /\ OnList(i)
          /\ ~(rpc = "erase" /\ current = i)
    /\ \A i \in Items : \A t, u \in Actors :
          Eraser(t, i) /\ Eraser(u, i) => t = u
    /\ rpc = "erase" => cancelled[current] /\ OnList(current)

(* The list is in LRU order, and no entry is from the future.              *)
LruInv ==
    /\ LruOrder
    /\ \A i \in Items : OnList(i) => timestamp[i] <= now

(* A step that makes nobody an eraser, and leaves the list alone, keeps    *)
(* the invariant of the iterators.                                         *)
LEMMA EraserFrame ==
    ASSUME TypeOK, ArgOK, ListInv, EraseInv,
           \A u \in Actors, j \in Items : Eraser(u, j)' => Eraser(u, j),
           \A j \in Items : cancelled[j] => cancelled'[j],
           UNCHANGED <<list, created>>,
           rpc' # "erase" \/ UNCHANGED <<rpc, current>>
    PROVE  (ListInv /\ EraseInv)'
BY DEF OnList, ListInv, TypeOK, ItemTypes, EraseInv, ArgOK

(* Locking the reaper makes nobody an eraser.                              *)
LEMMA LockEraser ==
    ASSUME TypeOK, ArgOK, ListInv, EraseInv,
           NEW t \in Actors, NEW i \in Items,
           NEW label \in {"refresh", "cancel"}, LockReaper(t, i, label),
           UNCHANGED <<list, created>>,
           rpc' # "erase" \/ UNCHANGED <<rpc, current>>
    PROVE  (ListInv /\ EraseInv)'
BY EraserFrame, Zenon DEF LockReaper, TypeOK, ItemTypes, Eraser, CallTypes

(* Every step keeps the invariant of the iterators.                        *)
LEMMA IterStep ==
    ASSUME TypeOK, ArgOK, ThreadInv, ListInv, EraseInv, [Next]_vars
    PROVE  ListInv' /\ EraseInv'
<1>. /\ pc \in [Actors -> {"idle", "refresh", "cancel", "erase", "release",
                           "destroy", "join"}]
     /\ list \in Seq(Items) /\ created \subseteq Items
  BY DEF TypeOK, CallTypes, ItemTypes
<1>. USE DEF itemVars, reapVars, waitVars, passVars, callVars
<1>1. ASSUME NEW t \in Actors, NEW i \in Items, Add(t, i)
      PROVE  ListInv' /\ EraseInv'
  BY <1>1, ConsMember
  DEF Add, OnList, ListInv, EraseInv, Eraser, ArgOK
<1>2. ASSUME NEW t \in Actors, NEW i \in Items,
             RefreshCall(t, i) \/ CancelCall(t, i) \/ DropItem(t, i)
      PROVE  ListInv' /\ EraseInv'
  BY <1>2, EraserFrame, LockEraser
  DEF RefreshCall, CancelCall, DropItem, Eraser
<1>3. ASSUME NEW t \in Actors, Refresh(t) PROVE ListInv' /\ EraseInv'
  <2>1. arg[t] \in created /\ arg[t] \in Items
    BY <1>3 DEF Refresh, ArgOK, TypeOK, ItemTypes
  <2>2. Erase(list, arg[t]) \in Seq(Items)
    BY <2>1, EraseType
  <2>3. \A j \in Items : /\ OnList(j) => OnList(j)'
                         /\ OnList(j)' => j = arg[t] \/ OnList(j)
    <3>1. \A j \in Items : Member(MoveToFront(list, arg[t]), j)
                             <=> j = arg[t] \/ Member(Erase(list, arg[t]), j)
      BY <2>1, <2>2, ConsMember DEF MoveToFront
    <3>. QED
      BY <1>3, <2>1, <3>1, EraseMember DEF Refresh, OnList
  <2>4. UNCHANGED <<cancelled, created, arg, rpc, current>>
    BY <1>3 DEF Refresh
  <2>5. \A u \in Actors, j \in Items : Eraser(u, j)' => Eraser(u, j)
    BY <1>3 DEF Refresh, Eraser
  <2>6. ListInv'
    BY <2>1, <2>3, <2>4 DEF ListInv
  <2>7. EraseInv'
    BY <2>3, <2>4, <2>5 DEF EraseInv, ArgOK
  <2>. QED
    BY <2>6, <2>7
<1>4. ASSUME NEW t \in Actors, CancelMark(t) PROVE ListInv' /\ EraseInv'
  <2>. cancelled \in [Items -> BOOLEAN] /\ arg[t] \in created
    BY <1>4 DEF TypeOK, ItemTypes, ArgOK, CancelMark
  <2>1. CASE cancelled[arg[t]]
    BY <1>4, <2>1, EraserFrame DEF CancelMark, Eraser
  <2>2. CASE ~cancelled[arg[t]]
    BY <1>4, <2>2 DEF CancelMark, Eraser, ArgOK, ListInv, OnList, EraseInv
  <2>. QED
    BY <2>1, <2>2
<1>5. ASSUME NEW t \in Actors, CancelErase(t) PROVE ListInv' /\ EraseInv'
  BY <1>5, EraseMember
  DEF CancelErase, Eraser, ArgOK, OnList, ListInv, EraseInv
<1>6. ASSUME NEW t \in Actors, Release(t) PROVE ListInv' /\ EraseInv'
  BY <1>6, EraserFrame DEF Release, Eraser, TypeOK, CallTypes
<1>12. ASSUME NEW t \in Actors,
              OwnerRelease(t) \/ DestroyCall(t) \/ SelfJoin(t)
       PROVE  ListInv' /\ EraseInv'
  BY <1>12, EraserFrame DEF OwnerRelease, DestroyCall, SelfJoin, Eraser
<1>7. ASSUME NEW t \in Actors, Destroy(t) \/ Join(t)
      PROVE  ListInv' /\ EraseInv'
  BY <1>7, EraserFrame DEF Destroy, Join, DestroyReturn, Eraser
<1>8. CASE \/ ReapTop \/ ReapIgnore \/ ReapScan \/ ReapBegin \/ ReapSkip
           \/ ReapLock \/ CallbackReturn \/ ReapEnd \/ ReapCheck \/ Tick
           \/ UNCHANGED vars
  <2>1. UNCHANGED <<list, created, cancelled, pc, arg>>
    BY <1>8, ZenonT(30)
    DEF ReapTop, ReapIgnore, ReapScan, ReapBegin, ReapSkip, ReapLock,
        CallbackReturn, ReapEnd, ReapCheck, Tick, vars
  <2>2. rpc' # "erase" \/ UNCHANGED <<rpc, current>>
    BY <1>8, ZenonT(30)
    DEF ReapTop, ReapIgnore, ReapScan, ReapBegin, ReapSkip, ReapLock,
        CallbackReturn, ReapEnd, ReapCheck, EnterWait, Tick, vars
  <2>. QED
    BY <2>1, <2>2, EraserFrame DEF Eraser
<1>9. CASE ReapMark
  BY <1>9
  DEF ReapMark, ArgOK, TypeOK, ItemTypes, ListInv, OnList, EraseInv, Eraser
<1>10. CASE ReapErase
  BY <1>10, EraseMember
  DEF ReapErase, ArgOK, TypeOK, ItemTypes, OnList, ListInv, EraseInv, Eraser
<1>11. CASE ReapUnref
  BY <1>11, EraserFrame, LockEraser, Zenon
  DEF ReapUnref, Eraser, ArgOK, Actors, TypeOK, ItemTypes
<1>. QED
  BY <1>1, <1>2, <1>3, <1>4, <1>5, <1>6, <1>7, <1>8, <1>9, <1>10, <1>11,
     <1>12, Zenon
  DEF Next, Operation, ReapStep

(* Every step keeps the LRU order.                                         *)
LEMMA LruStep ==
    ASSUME TypeOK, ArgOK, ListInv, LruInv, [Next]_vars
    PROVE  LruInv'
<1>c. created \subseteq Items
  BY DEF TypeOK, ItemTypes
<1>0. /\ list \in Seq(Items) /\ timestamp \in [Items -> Nat] /\ now \in Nat
      /\ Ordered(list, timestamp)
      /\ \A j \in Items : Member(list, j) => timestamp[j] <= now
  BY DEF TypeOK, ItemTypes, WaitTypes, LruInv, LruOrder, OnList, Ordered
<1>1. SUFFICES /\ Ordered(list', timestamp')
               /\ \A j \in Items : Member(list', j) => timestamp'[j] <= now'
  BY DEF LruInv, LruOrder, OnList, Ordered
<1>2. ASSUME NEW t \in Actors, NEW i \in Items, Add(t, i)
      PROVE  /\ Ordered(list', timestamp')
             /\ \A j \in Items : Member(list', j) => timestamp'[j] <= now'
  <2>1. /\ ~Member(list, i)
        /\ list' = <<i>> \o list
        /\ timestamp' = [timestamp EXCEPT ![i] = now]
        /\ now' = now
    BY <1>2 DEF Add, ListInv, OnList
  <2>2. Ordered(list', timestamp')
    BY Zenon, <1>0, <2>1, ConsOrdered
  <2>3. \A j \in Items : Member(list', j) <=> j = i \/ Member(list, j)
    BY <1>0, <2>1, ConsMember
  <2> QED
    BY <1>0, <2>1, <2>2, <2>3
<1>3. ASSUME NEW t \in Actors, Refresh(t)
      PROVE  /\ Ordered(list', timestamp')
             /\ \A j \in Items : Member(list', j) => timestamp'[j] <= now'
  <2> DEFINE i == arg[t]
             e == Erase(list, i)
  <2>1. CASE cancelled[i]
    BY <1>0, <1>3, <2>1 DEF Refresh
  <2>2. CASE ~cancelled[i]
    <3>1. /\ i \in Items
          /\ list' = <<i>> \o e
          /\ timestamp' = [timestamp EXCEPT ![i] = now]
          /\ now' = now
      BY <1>3, <2>2 DEF Refresh, MoveToFront, ArgOK, TypeOK, ItemTypes
    <3> HIDE DEF i
    <3>2. e \in Seq(Items) /\ Ordered(e, timestamp) /\ ~Member(e, i)
      BY <1>0, <3>1, EraseType, EraseOrdered
    <3>3. \A j \in Items : Member(e, j) => timestamp[j] <= now
      BY <1>0, EraseMember
    <3> HIDE DEF e
    <3>4. Ordered(list', timestamp')
      BY Zenon, <1>0, <3>1, <3>2, <3>3, ConsOrdered
    <3>5. \A j \in Items : Member(list', j) <=> j = i \/ Member(e, j)
      BY <3>1, <3>2, ConsMember
    <3>6. \A j \in Items : Member(list', j) => timestamp'[j] <= now
      BY <1>0, <3>1, <3>3, <3>5
    <3> QED
      BY <3>1, <3>4, <3>6
  <2> QED
    BY <2>1, <2>2
<1>4. ASSUME NEW i \in Items, list' = Erase(list, i),
             UNCHANGED <<timestamp, now>>
      PROVE  /\ Ordered(list', timestamp')
             /\ \A j \in Items : Member(list', j) => timestamp'[j] <= now'
  BY <1>0, <1>4, EraseOrdered, EraseMember
<1>5. ASSUME NEW t \in Actors, CancelErase(t)
      PROVE  /\ Ordered(list', timestamp')
             /\ \A j \in Items : Member(list', j) => timestamp'[j] <= now'
  BY <1>c, <1>4, <1>5 DEF CancelErase, ArgOK
<1>6. ASSUME ReapErase
      PROVE  /\ Ordered(list', timestamp')
             /\ \A j \in Items : Member(list', j) => timestamp'[j] <= now'
  BY <1>c, <1>4, <1>6 DEF ReapErase, ArgOK
<1>7. ASSUME UNCHANGED <<list, timestamp>>, now' = now \/ now' = now + 1
      PROVE  /\ Ordered(list', timestamp')
             /\ \A j \in Items : Member(list', j) => timestamp'[j] <= now'
  BY <1>0, <1>7
<1>8. CASE \E t \in Actors :
             \/ \E i \in Items : \/ RefreshCall(t, i)
                                 \/ CancelCall(t, i)
                                 \/ DropItem(t, i)
             \/ CancelMark(t) \/ Release(t) \/ DestroyCall(t)
             \/ Destroy(t) \/ Join(t) \/ SelfJoin(t) \/ OwnerRelease(t)
  BY <1>8, <1>7, ZenonT(30)
  DEF RefreshCall, CancelCall, DropItem, CancelMark, Release, DestroyCall,
      Destroy, Join, SelfJoin, OwnerRelease, itemVars
<1>9. CASE \/ ReapTop \/ ReapIgnore \/ ReapScan \/ ReapBegin \/ ReapSkip
           \/ ReapLock \/ ReapMark \/ CallbackReturn \/ ReapUnref
           \/ ReapEnd \/ ReapCheck \/ Tick \/ UNCHANGED vars
  BY <1>9, <1>7, ZenonT(30)
  DEF ReapTop, ReapIgnore, ReapScan, ReapBegin, ReapSkip, ReapLock, ReapMark,
      CallbackReturn, ReapUnref, ReapEnd, ReapCheck, Tick, vars, itemVars
<1> QED
  BY <1>2, <1>3, <1>5, <1>6, <1>8, <1>9 DEF Next, Operation, ReapStep

-----------------------------------------------------------------------------
(* The theorems.                                                           *)

Inv == TypeOK /\ ArgOK /\ ThreadInv /\ ListInv /\ EraseInv /\ LruInv

(* The invariant holds initially.                                          *)
LEMMA InitInv == Init => Inv
BY InitType
DEF TypeInv, Init, ThreadInv, Actors, ListInv, LruInv, LruOrder, OnList,
    Member, EraseInv, Eraser, Inv

(* Every step keeps the invariant.                                         *)
LEMMA NextInv == Inv /\ [Next]_vars => Inv'
BY TypeStep, ThreadStep, IterStep, LruStep DEF Inv

(* The inductive invariant, for every use of the reaper.                   *)
LEMMA InductiveInvariant == Spec => []Inv
BY InitInv, NextInv, PTL DEF Spec

(* Every variable keeps its type, whatever the threads and callbacks do.   *)
THEOREM TypeCorrect == Spec => []TypeOK
BY InductiveInvariant, PTL DEF Inv

(* The assertions it_ != list_.end() of refresh(), cancel() and            *)
(* remove_zombies() hold: no thread erases an entry that has gone, however *)
(* many threads race and even if the reaper is dropped early.              *)
THEOREM IteratorsAreValid == Spec => []IteratorsValid
<1>1. Inv => IteratorsValid
  BY Zenon DEF Inv, ArgOK, ListInv, EraseInv, Eraser, TypeOK, ItemTypes,
         IteratorsValid
<1> QED
  BY <1>1, InductiveInvariant, PTL

(* The list is always in LRU order, which is what lets reap_func() stop    *)
(* its scan at the first entry that has not expired.                       *)
THEOREM ListIsLru == Spec => []LruOrder
<1>1. Inv => LruOrder
  BY DEF Inv, LruInv
<1> QED
  BY <1>1, InductiveInvariant, PTL

=============================================================================
