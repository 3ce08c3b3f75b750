------------------------- MODULE ReplyObjectProofs -------------------------
(***************************************************************************)
(* The theorem about the reply object, for any number of workers and of    *)
(* calls: ReplySound holds unless a stop or an expiry overtakes            *)
(* add_reply_object().                                                     *)
(***************************************************************************)
EXTENDS ReplyObject, TLAPS

(* The labels of finished() after the exchange: one thread gets there.     *)
Ending == Finishing \ {"exchange"}

(* The labels of push() and of info().                                     *)
Working == {"check", "push", "process", "done", "doneFinish", "checkInfo",
            "info", "infoListener"}

(* The labels of finished() after ReapItem::cancel().                      *)
Cancelled == {"wait", "listener", "disconnect", "remove"}

(* The workers whose push() is counted, and those whose push() has not got *)
(* to process_data() yet.                                                  *)
Pushing == {w \in Workers : pc[w] \in {"process", "done", "doneFinish"}}
Coming == {w \in Workers : pc[w] \in {"check", "push", "process"}}

(* The types, with the bounds on the counters left out.                    *)
PcType == pc \in [Threads -> Labels]
Flags ==
    /\ finished \in BOOLEAN /\ reapItem \in BOOLEAN /\ ctorLock \in BOOLEAN
    /\ hasDisconnect \in BOOLEAN /\ gone \in BOOLEAN /\ reaperUp \in BOOLEAN
    /\ adapterUp \in BOOLEAN /\ failedAssert \in BOOLEAN
Counters ==
    /\ numPush \in Nat /\ numResults \in Nat /\ results \in Nat
    /\ calls \in 0..MaxCalls /\ call \in [Workers -> 0..MaxCalls]
Containers ==
    /\ infoList \subseteq 1..MaxCalls /\ heard \subseteq 1..MaxCalls
    /\ refs \subseteq Workers \cup {Client, Adapter}
    /\ item \in {"none", "armed", "firing", "fired", "disarmed"}
    /\ counted \subseteq Workers
    /\ reported \in Seq(SUBSET (1..MaxCalls))

(* num_push_ counts the workers between its two updates; of the calls that *)
(* have arrived, each is counted as a result at most once.                 *)
PushCount == numPush = Cardinality(Pushing)
ResultCount ==
    /\ numResults + Cardinality(Coming) <= calls
    /\ results <= numResults
    /\ ResultsBounded

(* What the listener has heard of is in info_list_, and stays there.       *)
Infos ==
    /\ \A w \in Workers : pc[w] # "idle" => call[w] # 0
    /\ \A w \in Workers : pc[w] = "infoListener" => call[w] \in infoList
    /\ heard \subseteq infoList
    /\ InfosReported

(* One thread wins the exchange and reports, once.                         *)
Once ==
    /\ \A t, u \in Threads : pc[t] \in Ending /\ pc[u] \in Ending => t = u
    /\ \A t \in Threads : pc[t] \in Ending => finished
    /\ \A t \in Threads :
          pc[t] \in {"item", "cancel", "wait", "listener"} => reported = <<>>
    /\ reported # <<>> => finished
    /\ Len(reported) <= 1

(* The pushes that finished() knows of are counted until they are done.    *)
Counted == counted \subseteq Pushing /\ CountedPushesFirst

(* Until search() has the servant in the adapter, nobody else has the      *)
(* object, and the reaper leaves it alone.                                 *)
Connected ==
    /\ pc[Client] \in Connecting =>
          /\ ~hasDisconnect /\ ~finished /\ ~gone /\ adapterUp /\ reaperUp
          /\ pc[Stopper] = "idle" /\ pc[ReapThread] = "idle"
    /\ pc[Client] = "new" => refs = {} /\ item = "none" /\ ~reapItem
    /\ pc[Client] = "assign" => refs = {Client} /\ item = "armed"
    /\ pc[Client] = "add" => refs = {Client}
    /\ pc[Client] = "connect" => refs = {Client, Adapter}
    /\ pc[Client] \notin {"new", "assign"} => (reapItem <=> item # "none")
    /\ pc[Client] \notin Connecting => hasDisconnect
    /\ pc[Client] \in {"search", "release", "idle"}
                      \cup Connecting \cup Finishing

(* A call holds a reference while it lasts.                                *)
References ==
    /\ \A w \in Workers : w \in refs <=> pc[w] # "idle"
    /\ Client \in refs <=> pc[Client] \notin {"new", "idle"}
    /\ ~finished /\ pc[Client] \notin Connecting =>
          Adapter \in refs \/ pc[Stopper] = "exchange"

(* RuntimeImpl::destroy() first has the reaper to itself, then the         *)
(* adapter, and then the object.                                           *)
StopOrder ==
    /\ pc[Stopper] \in {"idle", "stopping", "joining", "cleanup", "stopped"}
                       \cup Finishing
    /\ pc[Stopper] \notin {"idle", "stopping"} =>
          ~reaperUp /\ pc[ReapThread] = "idle"
    /\ pc[Stopper] \notin {"idle", "stopping", "joining"} =>
          ~adapterUp /\ pc[Client] = "idle"
    /\ pc[Stopper] \in Finishing \cup {"stopped"} => refs = {}
    /\ pc[Stopper] \in Finishing => ~gone

(* The reaper is in the callback while the item is firing, and is kept out *)
(* by ReapItem::cancel() before the servant is removed.                    *)
Reaping ==
    /\ pc[ReapThread] \in {"idle"} \cup Finishing
    /\ pc[ReapThread] # "idle" <=> item = "firing"
    /\ \A t \in Threads \ {ReapThread} :
          pc[t] \in Cancelled => item \notin {"armed", "firing"}
    /\ Adapter \notin refs /\ pc[Client] \notin Connecting =>
          /\ pc[ReapThread] = "idle"
          /\ item # "armed" \/ ~reaperUp

(* When the destructor has run, nobody has a reference.                    *)
Freed == gone => refs = {} /\ pc[Client] \notin Connecting

Life == Connected /\ References /\ StopOrder /\ Reaping /\ Freed
Inv == /\ PcType /\ Flags /\ Counters /\ Containers
       /\ PushCount /\ ResultCount /\ Infos /\ Once /\ Counted
       /\ Life

-----------------------------------------------------------------------------
(* The threads are different from each other.                              *)
LEMMA Distinct ==
    /\ Client \in Threads /\ ReapThread \in Threads /\ Stopper \in Threads
    /\ Client \notin Workers /\ ReapThread \notin Workers
    /\ Stopper \notin Workers /\ Adapter \notin Workers
    /\ Client # ReapThread /\ Client # Stopper /\ Client # Adapter
    /\ ReapThread # Stopper /\ ReapThread # Adapter /\ Stopper # Adapter
    /\ Workers \subseteq Threads
    /\ \A t \in Threads : t \in Workers \/ t \in {Client, ReapThread, Stopper}
BY ConstantAssumption DEF Threads

(* A report is added to the reports.                                       *)
LEMMA AppendType ==
    ASSUME NEW S, NEW s \in Seq(S), NEW x \in S
    PROVE  Append(s, x) \in Seq(S)
OBVIOUS

(* The steps, in groups for the proofs: a call arrives; push() and info(); *)
(* and finished() between the exchange and the removal of the servant.     *)
Arrival(w) ==
    \E label \in {"check", "checkInfo", "exchange"} : Dispatch(w, label)
WorkStep(w) ==
    \/ IgnoreLate(w, "check", "push") \/ IgnoreLate(w, "checkInfo", "info")
    \/ CountPush(w) \/ ProcessResult(w) \/ ProcessOther(w) \/ UncountPush(w)
    \/ AddInfo(w) \/ ListenerInfo(w)
WaitStep(t) ==
    \/ ReadItem(t) \/ CancelItem(t) \/ WaitForPushes(t)
    \/ ListenerFinished(t) \/ Disconnect(t)

(* Every step is one of these.                                             *)
LEMMA Steps ==
    ASSUME [Next]_vars
    PROVE  \/ Construct \/ Assign \/ AddServant \/ SetDisconnectFunction
           \/ SendSearch
           \/ \E w \in Workers : Arrival(w) \/ WorkStep(w)
           \/ \E t \in Workers \cup {Client} : EndCall(t)
           \/ \E t \in Threads : Exchange(t) \/ WaitStep(t) \/ Remove(t)
           \/ Expire \/ Stop \/ JoinReaper \/ StopMiddleware \/ Cleanup
           \/ UNCHANGED vars
BY Zenon
DEF Next, ClientStep, WorkerStep, ReaperStep, StopperStep, FinishStep,
    Threads, Arrival, WorkStep, WaitStep

-----------------------------------------------------------------------------
(* What the steps have in common: thread t moves from one set of labels to *)
(* another, and the life of the object goes on as it was.                  *)
Moves(t, from, to) ==
    /\ pc[t] \in from /\ pc'[t] \in to
    /\ \A u \in Threads : u # t => pc'[u] = pc[u]
life == <<finished, reapItem, hasDisconnect, gone, reaperUp, adapterUp>>

(* A thread that goes to a label changes no other thread's.                *)
LEMMA GotoMoves ==
    ASSUME PcType, NEW t \in Threads, NEW l, Goto(t, l)
    PROVE  pc'[t] = l /\ \A u \in Threads : u # t => pc'[u] = pc[u]
BY DEF PcType, Goto

(* A call arrives for the servant, which is connected, and holds it.       *)
LEMMA Arrives ==
    ASSUME Inv, NEW w \in Workers, Arrival(w)
    PROVE  /\ Moves(w, {"idle"}, {"check", "checkInfo", "exchange"})
           /\ pc[Client] \notin Connecting /\ adapterUp /\ Adapter \in refs
           /\ refs' = refs \cup {w}
           /\ UNCHANGED <<life, item, reported>>
BY GotoMoves, Distinct
DEF Inv, Arrival, Dispatch, Moves, life, lifeVars, objectVars, worldVars,
    histVars

(* push() and info() leave the life of the object alone.                   *)
LEMMA Works ==
    ASSUME Inv, NEW w \in Workers, WorkStep(w)
    PROVE  /\ Moves(w, Working, Working \cup {"release", "exchange"})
           /\ UNCHANGED <<life, refs, item, reported>>
BY GotoMoves, Distinct
DEF Inv, WorkStep, IgnoreLate, CountPush, ProcessResult, ProcessOther,
    UncountPush, AddInfo, ListenerInfo, Working, Moves, life, lifeVars,
    objectVars, worldVars, histVars

(* finished() in the thread that won the exchange.                         *)
LEMMA Waits ==
    ASSUME Inv, NEW t \in Threads, WaitStep(t)
    PROVE  /\ Moves(t, Ending, Ending) /\ pc'[t] # "item"
           /\ UNCHANGED <<life, refs>>
BY GotoMoves, Distinct
DEF Inv, WaitStep, ReadItem, CancelItem, WaitForPushes, ListenerFinished,
    Disconnect, Ending, Finishing, Moves, life, lifeVars, objectVars,
    worldVars, histVars

(* Who is in finished() holds a reference, but for the reaper and for the  *)
(* destructor, which only RuntimeImpl::destroy() calls.                    *)
LEMMA Holders ==
    ASSUME Inv, NEW t \in Threads, pc[t] \in Finishing
    PROVE  /\ t \in refs <=> t \in Workers \cup {Client}
           /\ InDestructor(t) <=> t = Stopper
           /\ pc[Client] \notin Connecting
BY Distinct
DEF Inv, Life, Connected, References, Containers, Connecting, Finishing,
    InDestructor

(* Where finished() returns to.                                            *)
Home(t) == IF t = Stopper THEN "stopped"
           ELSE IF t = ReapThread THEN "idle" ELSE "release"
Returns(t) ==
    /\ Moves(t, Finishing, {Home(t)})
    /\ item' = IF t = ReapThread THEN "fired" ELSE item

(* finished() goes home.                                                   *)
LEMMA Returned ==
    ASSUME Inv, NEW t \in Threads, pc[t] \in Finishing, Return(t)
    PROVE  Returns(t)
BY GotoMoves, Holders, Distinct
DEF Inv, Return, Home, Returns, Moves

(* One thread finds finished_ unset, and every other one returns.          *)
LEMMA Exchanges ==
    ASSUME Inv, NEW t \in Threads, Exchange(t)
    PROVE  /\ pc[t] = "exchange" /\ finished' = TRUE
           /\ UNCHANGED <<reapItem, hasDisconnect, refs, reaperUp, adapterUp>>
           /\ UNCHANGED reported
           /\ ~finished => /\ Moves(t, Finishing, {"item"})
                           /\ UNCHANGED <<gone, item>>
           /\ finished => Returns(t) /\ (gone' <=> gone \/ t = Stopper)
BY Zenon, GotoMoves, Holders, Returned, Distinct
DEF Inv, Exchange, Finishing, Moves, life, lifeVars, objectVars, worldVars,
    histVars

(* The servant leaves the adapter, if that is still there.                 *)
LEMMA Removes ==
    ASSUME Inv, NEW t \in Threads, Remove(t)
    PROVE  /\ pc[t] = "remove" /\ Returns(t)
           /\ refs' = IF adapterUp THEN refs \ {Adapter} ELSE refs
           /\ gone' <=> gone \/ t = Stopper \/ refs' = {}
           /\ UNCHANGED <<finished, reapItem, hasDisconnect, reaperUp>>
           /\ UNCHANGED <<adapterUp, reported>>
BY Zenon, GotoMoves, Holders, Returned, Distinct
DEF Inv, Remove, Finishing, Moves, life, lifeVars, objectVars, worldVars,
    histVars

(* add_reply_object() finds the adapter.                                   *)
LEMMA Adds ==
    ASSUME Inv, AddServant
    PROVE  /\ Moves(Client, {"add"}, {"connect"}) /\ refs' = {Client, Adapter}
           /\ UNCHANGED <<life, item, reported>>
BY GotoMoves, Distinct
DEF Inv, Life, AddServant, Connected, Connecting, Moves, life, lifeVars,
    objectVars, worldVars, histVars

(* The end of a call is never that of the last reference, unless the       *)
(* object is finished.                                                     *)
LEMMA Ends ==
    ASSUME Inv, NEW t \in Workers \cup {Client}, EndCall(t)
    PROVE  /\ Moves(t, {"release"}, {"idle"}) /\ refs' = refs \ {t}
           /\ t \in refs /\ (refs = {t} => finished) /\ (gone' <=> refs = {t})
           /\ pc[Client] \notin Connecting
           /\ UNCHANGED <<finished, reapItem, hasDisconnect, reaperUp>>
           /\ UNCHANGED <<adapterUp, item, reported>>
<1>. t \in Threads /\ pc[t] = "release" /\ Life /\ PcType
  BY Zenon DEF Inv, EndCall, Threads
<1>1. t \in refs /\ pc[Client] \notin Connecting
  BY Distinct DEF Life, Connected, References, Connecting
<1>2. refs = {t} => finished
  BY <1>1, Distinct DEF Life, References, StopOrder, Finishing
<1>. QED
  BY Zenon, <1>1, <1>2, GotoMoves
  DEF EndCall, Drop, Moves, objectVars, worldVars, histVars

(* cleanup() finds the last reference, if there is one, and calls the      *)
(* destructor, which calls finished() if nobody has.                       *)
LEMMA Cleans ==
    ASSUME Inv, Cleanup
    PROVE  /\ pc[Client] = "idle" /\ \A w \in Workers : pc[w] = "idle"
           /\ ~reaperUp /\ pc[ReapThread] = "idle" /\ refs \subseteq {Adapter}
           /\ refs' = {}
           /\ Moves(Stopper, {"cleanup"}, {"exchange", "stopped"})
           /\ pc'[Stopper] = "exchange" => refs = {Adapter} /\ UNCHANGED gone
           /\ pc'[Stopper] = "stopped" => finished \/ Adapter \notin refs
           /\ UNCHANGED <<finished, reapItem, hasDisconnect, reaperUp>>
           /\ UNCHANGED <<adapterUp, item, reported>>
BY GotoMoves, Distinct
DEF Inv, Life, Cleanup, Drop, References, StopOrder, Containers, Moves, life,
    lifeVars, objectVars, worldVars, histVars

(* The constructor has the reaper's item armed, or does without.           *)
LEMMA Constructs ==
    ASSUME Inv, Construct
    PROVE  /\ Moves(Client, {"new"}, {"assign", "add"})
           /\ refs' = {Client} /\ reaperUp'
           /\ UNCHANGED <<finished, reapItem, hasDisconnect, gone, adapterUp>>
           /\ UNCHANGED reported
           /\ \/ pc'[Client] = "assign" /\ item' = "armed"
              \/ pc'[Client] = "add" /\ UNCHANGED item
BY Zenon, GotoMoves, Distinct
DEF Inv, Life, Construct, Connected, Connecting, Moves, life, lifeVars,
    objectVars, worldVars, histVars

(* The constructor has stored the item.                                    *)
LEMMA Assigns ==
    ASSUME Inv, Assign
    PROVE  /\ Moves(Client, {"assign"}, {"add"}) /\ reapItem'
           /\ UNCHANGED <<finished, hasDisconnect, gone, reaperUp, adapterUp>>
           /\ UNCHANGED <<refs, item, reported>>
BY GotoMoves, Distinct
DEF Inv, Assign, Moves, lifeVars, worldVars, histVars

(* add_reply_object() ends with the disconnect function in place.          *)
LEMMA Connects ==
    ASSUME Inv, SetDisconnectFunction
    PROVE  /\ Moves(Client, {"connect"}, {"search"}) /\ hasDisconnect'
           /\ UNCHANGED <<finished, reapItem, gone, reaperUp, adapterUp>>
           /\ UNCHANGED <<refs, item, reported>>
BY GotoMoves, Distinct
DEF Inv, SetDisconnectFunction, Moves, lifeVars, worldVars, histVars

(* The search is sent, or finished() is called because it cannot be.       *)
LEMMA Sends ==
    ASSUME Inv, SendSearch
    PROVE  /\ Moves(Client, {"search"}, {"release", "exchange"})
           /\ UNCHANGED <<life, refs, item, reported>>
BY GotoMoves, Distinct
DEF Inv, SendSearch, Moves, life, objectVars, lifeVars, worldVars, histVars

(* The reaper calls finished() of an object that is connected.             *)
LEMMA Expires ==
    ASSUME ~SlowAdd, Inv, Expire
    PROVE  /\ Moves(ReapThread, {"idle"}, {"exchange"})
           /\ reaperUp /\ hasDisconnect /\ item = "armed" /\ item' = "firing"
           /\ UNCHANGED <<life, refs, reported>>
BY GotoMoves, Distinct
DEF Inv, Expire, Moves, life, objectVars, lifeVars, histVars

(* destroy() begins after add_reply_object().                              *)
LEMMA Stops ==
    ASSUME ~SlowAdd, Inv, Stop
    PROVE  /\ Moves(Stopper, {"idle"}, {"stopping"})
           /\ pc[Client] \notin Connecting
           /\ UNCHANGED <<life, refs, item, reported>>
BY GotoMoves, Distinct
DEF Inv, Stop, Moves, life, objectVars, lifeVars, worldVars, histVars

(* The reaper has no callback when it is joined, and makes none later.     *)
LEMMA Joins ==
    ASSUME Inv, JoinReaper
    PROVE  /\ Moves(Stopper, {"stopping"}, {"joining"})
           /\ pc[ReapThread] = "idle" /\ ~reaperUp'
           /\ UNCHANGED <<finished, reapItem, hasDisconnect, gone, adapterUp>>
           /\ UNCHANGED <<refs, item, reported>>
BY GotoMoves, Distinct
DEF Inv, JoinReaper, Moves, objectVars, lifeVars, histVars

(* The middleware stops when the searches have been sent.                  *)
LEMMA Disconnects ==
    ASSUME Inv, StopMiddleware
    PROVE  /\ Moves(Stopper, {"joining"}, {"cleanup"})
           /\ pc[Client] \in Connecting \cup {"idle"} /\ ~adapterUp'
           /\ UNCHANGED <<finished, reapItem, hasDisconnect, gone, reaperUp>>
           /\ UNCHANGED <<refs, item, reported>>
BY GotoMoves, Distinct
DEF Inv, StopMiddleware, Moves, objectVars, lifeVars, histVars

(* finished() changes the item only by ReapItem::cancel().                 *)
LEMMA WaitsItem ==
    ASSUME NEW t \in Threads, WaitStep(t)
    PROVE  /\ pc[t] # "cancel" => UNCHANGED item
           /\ pc[t] = "cancel" =>
                 /\ t # ReapThread => item # "firing"
                 /\ item' = IF item = "armed" THEN "disarmed" ELSE item
           /\ pc[t] = "item" => pc' = [pc EXCEPT ![t] =
                                         IF reapItem THEN "cancel" ELSE "wait"]
BY DEF WaitStep, ReadItem, CancelItem, WaitForPushes, ListenerFinished,
       Disconnect, worldVars, Goto

(* Who uses the object holds it, and no step lets it go too early.         *)
LEMMA LifeKept ==
    ASSUME ~SlowAdd, Inv, [Next]_vars
    PROVE  Life'
<1>. Life /\ Once /\ PcType
  BY DEF Inv
<1>. USE Distinct
     DEF Life, Connected, References, StopOrder, Reaping, Freed, Once,
         Connecting, Finishing, Ending, Working, Cancelled, Moves, Returns,
         Home, life
<1>1. CASE Construct
  BY <1>1, Constructs
<1>2. CASE Assign \/ SetDisconnectFunction \/ SendSearch
  BY <1>2, Assigns, Connects, Sends
<1>3. CASE AddServant
  BY <1>3, Adds
<1>4. ASSUME NEW w \in Workers, Arrival(w) \/ WorkStep(w) PROVE Life'
  BY <1>4, Arrives, Works
<1>5. ASSUME NEW t \in Workers \cup {Client}, EndCall(t) PROVE Life'
  <2>1. Connected' /\ StopOrder' /\ Reaping'
    BY <1>5, Ends
  <2>2. References'
    BY <1>5, Ends
  <2>3. Freed'
    BY <1>5, Ends, Zenon
  <2>. QED BY <2>1, <2>2, <2>3
<1>6. ASSUME NEW t \in Threads, Exchange(t) PROVE Life'
  <2>1. /\ pc[t] = "exchange" /\ pc[Client] \notin Connecting
        /\ t \in refs <=> t \in Workers \cup {Client}
    BY <1>6, Exchanges, Holders, Zenon
  <2>2. CASE ~finished
    <3>1. /\ pc'[t] = "item" /\ \A u \in Threads : u # t => pc'[u] = pc[u]
          /\ UNCHANGED <<gone, item, refs, hasDisconnect, reaperUp, adapterUp>>
          /\ finished' /\ UNCHANGED reapItem
      BY <1>6, <2>2, Exchanges, Zenon
    <3>2. Connected' /\ References'
      BY <2>1, <2>2, <3>1
    <3>3. StopOrder' /\ Reaping' /\ Freed'
      BY <2>1, <2>2, <3>1
    <3>. QED BY <3>2, <3>3
  <2>3. CASE finished
    <3>1. /\ pc'[t] = Home(t) /\ \A u \in Threads : u # t => pc'[u] = pc[u]
          /\ item' = IF t = ReapThread THEN "fired" ELSE item
          /\ UNCHANGED <<refs, hasDisconnect, reaperUp, adapterUp>>
          /\ finished' /\ UNCHANGED reapItem
          /\ gone' => gone \/ t = Stopper
      BY <1>6, <2>3, Exchanges, Zenon
    <3>2. Connected' /\ References'
      BY <2>1, <2>3, <3>1
    <3>3. StopOrder' /\ Reaping' /\ Freed'
      BY <2>1, <2>3, <3>1
    <3>. QED BY <3>2, <3>3
  <2>. QED BY <2>2, <2>3
<1>7. ASSUME NEW t \in Threads, WaitStep(t) PROVE Life'
  <2>1. /\ pc[Client] \notin Connecting
        /\ t \in refs <=> t \in Workers \cup {Client}
    BY <1>7, Waits, Holders
  <2>2. /\ pc[t] \in Ending /\ pc'[t] \in Ending
        /\ \A u \in Threads : u # t => pc'[u] = pc[u]
        /\ UNCHANGED <<life, refs>>
        /\ item' # item =>
              pc[t] = "cancel" /\ item = "armed" /\ item' = "disarmed"
    BY <1>7, Waits, WaitsItem
  <2>3. Connected' /\ References'
    BY <2>1, <2>2
  <2>4. StopOrder' /\ Freed'
    BY <2>1, <2>2
  <2>5. pc'[t] \in Cancelled =>
           t = ReapThread \/ item' \notin {"armed", "firing"}
    <3>1. CASE pc[t] = "item"
      BY <1>7, <2>1, <2>2, <3>1, WaitsItem DEF PcType
    <3>2. CASE pc[t] = "cancel"
      BY <1>7, <3>2, WaitsItem
    <3>3. CASE pc[t] \in Cancelled
      BY <2>2, <3>3
    <3>. QED BY <2>2, <3>1, <3>2, <3>3
  <2>6. Reaping'
    BY <2>1, <2>2, <2>5
  <2>. QED BY <2>3, <2>4, <2>6
<1>8. ASSUME NEW t \in Threads, Remove(t) PROVE Life'
  <2>1. /\ pc[Client] \notin Connecting
        /\ t \in refs <=> t \in Workers \cup {Client}
    BY <1>8, Removes, Holders
  <2>2. Connected'
    BY <1>8, <2>1, Removes
  <2>3. References'
    BY <1>8, <2>1, Removes
  <2>4. StopOrder' /\ Reaping'
    BY <1>8, <2>1, Removes
  <2>5. Freed'
    BY <1>8, <2>1, Removes
  <2>. QED BY <2>2, <2>3, <2>4, <2>5
<1>9. CASE Expire \/ Stop \/ JoinReaper \/ StopMiddleware
  BY <1>9, Expires, Stops, Joins, Disconnects
<1>10. CASE Cleanup
  BY <1>10, Cleans
<1>11. CASE UNCHANGED vars
  BY <1>11 DEF vars, objectVars, lifeVars, worldVars, histVars
<1>. HIDE DEF Life
<1>. QED
  BY <1>1, <1>2, <1>3, <1>4, <1>5, <1>6, <1>7, <1>8, <1>9, <1>10, <1>11, Steps

(* No step lets a second thread past the exchange, or reports again.       *)
LEMMA OnceKept ==
    ASSUME ~SlowAdd, Inv, [Next]_vars
    PROVE  Once'
<1>. Once /\ PcType /\ Flags
  BY DEF Inv
<1>. USE Distinct
     DEF Moves, Returns, Home, Ending, Finishing, Working, Connecting, life
<1>s. ASSUME UNCHANGED <<finished, reported>>,
             \A u \in Threads : pc'[u] \in Ending => pc'[u] = pc[u]
      PROVE  Once'
  BY <1>s DEF Once
<1>1. CASE Construct \/ Assign \/ AddServant \/ SetDisconnectFunction
           \/ SendSearch
  BY <1>1, <1>s, Constructs, Assigns, Adds, Connects, Sends
<1>2. ASSUME NEW w \in Workers, Arrival(w) \/ WorkStep(w) PROVE Once'
  BY <1>2, <1>s, Arrives, Works
<1>3. ASSUME NEW t \in Workers \cup {Client}, EndCall(t) PROVE Once'
  BY <1>3, <1>s, Ends
<1>4. ASSUME NEW t \in Threads, Exchange(t) PROVE Once'
  <2>1. CASE finished
    BY <1>4, <1>s, <2>1, Exchanges, Zenon DEF Flags
  <2>2. CASE ~finished
    <3>1. reported = <<>> /\ \A u \in Threads : pc[u] \notin Ending
      BY <2>2 DEF Once
    <3>2. /\ \A u \in Threads : pc'[u] \in Ending => u = t
          /\ reported' = <<>> /\ finished'
      BY <1>4, <2>2, <3>1, Exchanges, Zenon
    <3>. QED BY <3>2 DEF Once
  <2>. QED BY <2>1, <2>2
<1>5. ASSUME NEW t \in Threads, WaitStep(t) PROVE Once'
  <2>1. \A u \in Threads : pc'[u] \in Ending => u = t
    BY <1>5, Waits DEF Once
  <2>2. CASE ListenerFinished(t)
    <3>1. /\ pc'[t] = "disconnect" /\ finished' /\ reported = <<>>
          /\ reported' = Append(reported, infoList)
      BY <1>5, <2>2, Waits, GotoMoves DEF ListenerFinished, Once
    <3>2. Len(reported') <= 1
      BY <3>1
    <3>. QED BY <2>1, <3>1, <3>2 DEF Once
  <2>3. CASE ~ListenerFinished(t)
    <3>1. /\ UNCHANGED <<reported, finished>>
          /\ pc'[t] \in {"item", "cancel", "wait", "listener"} =>
                pc[t] \in {"item", "cancel", "wait", "listener"}
      BY <1>5, <2>3, Waits, GotoMoves
      DEF WaitStep, ReadItem, CancelItem, WaitForPushes, Disconnect, histVars
    <3>. QED BY <1>5, <2>1, <3>1, Waits DEF Once
  <2>. QED BY <2>2, <2>3
<1>6. ASSUME NEW t \in Threads, Remove(t) PROVE Once'
  BY <1>6, <1>s, Removes
<1>7. CASE Expire \/ Stop \/ JoinReaper \/ StopMiddleware \/ Cleanup
  BY <1>7, <1>s, Expires, Stops, Joins, Disconnects, Cleans
<1>8. CASE UNCHANGED vars
  BY <1>8, <1>s DEF vars, objectVars, histVars
<1>. QED
  BY <1>1, <1>2, <1>3, <1>4, <1>5, <1>6, <1>7, <1>8, Steps

(* All other steps than those of push() and info() leave the counters, the *)
(* infos and the workers that are there alone.                             *)
Quiet ==
    /\ UNCHANGED <<numPush, numResults, infoList, call, calls, results, heard>>
    /\ \A w \in Workers :
          \/ pc'[w] = pc[w]
          \/ pc[w] \notin Working \cup {"idle"} /\ pc'[w] \notin Working

(* Every step is one of push(), of info() or a quiet one.                  *)
LEMMA QuietSteps ==
    ASSUME ~SlowAdd, Inv, [Next]_vars
    PROVE  \/ \E w \in Workers : Arrival(w) \/ WorkStep(w)
           \/ Quiet
<1>. USE Distinct
     DEF Quiet, objectVars, threadVars, histVars, Moves, Returns, Home,
         Ending, Finishing, Working
<1>1. CASE Construct \/ Assign \/ AddServant \/ SetDisconnectFunction
           \/ SendSearch
  BY Zenon, <1>1, Constructs, Assigns, Adds, Connects, Sends
  DEF Construct, Assign, AddServant, SetDisconnectFunction, SendSearch
<1>2. ASSUME NEW t \in Workers \cup {Client}, EndCall(t) PROVE Quiet
  BY Zenon, <1>2, Ends DEF EndCall
<1>3. ASSUME NEW t \in Threads, Exchange(t) PROVE Quiet
  BY <1>3, Exchanges DEF Exchange
<1>4. ASSUME NEW t \in Threads, WaitStep(t) PROVE Quiet
  BY <1>4, Waits
  DEF WaitStep, ReadItem, CancelItem, WaitForPushes, ListenerFinished,
      Disconnect
<1>5. ASSUME NEW t \in Threads, Remove(t) PROVE Quiet
  BY Zenon, <1>5, Removes DEF Remove
<1>6. CASE Expire \/ Stop \/ JoinReaper \/ StopMiddleware \/ Cleanup
  BY Zenon, <1>6, Expires, Stops, Joins, Disconnects, Cleans
  DEF Expire, Stop, JoinReaper, StopMiddleware, Cleanup
<1>7. CASE UNCHANGED vars
  BY Zenon, <1>7 DEF vars
<1>. QED BY Zenon, <1>1, <1>2, <1>3, <1>4, <1>5, <1>6, <1>7, Steps

(* Only finished() reports, and only after its wait.  Only the exchange    *)
(* and the end of push() change which pushes it waits for.                 *)
LEMMA Reports ==
    ASSUME ~SlowAdd, Inv, [Next]_vars
    PROVE  /\ UNCHANGED reported \/ \E t \in Threads : ListenerFinished(t)
           /\ \/ UNCHANGED counted
              \/ \E t \in Threads : Exchange(t) /\ ~finished
              \/ \E w \in Workers : UncountPush(w)
           /\ \A u \in Threads :
                 pc'[u] = "listener" => pc[u] = "listener" \/ WaitForPushes(u)
<1>. PcType
  BY DEF Inv
<1>. USE Distinct DEF histVars, Moves, Returns, Home, Working
<1>. DEFINE
       Same == /\ UNCHANGED <<reported, counted>>
               /\ \A u \in Threads : pc'[u] = "listener" => pc[u] = "listener"
<1>1. CASE Construct \/ Assign \/ AddServant \/ SetDisconnectFunction
           \/ SendSearch
  <2>1. Same
  BY Zenon, <1>1, Constructs, Assigns, Adds, Connects, Sends
  DEF Construct, Assign, AddServant, SetDisconnectFunction, SendSearch
  <2>. QED BY Zenon, <2>1
<1>2. ASSUME NEW w \in Workers, Arrival(w) PROVE Same
  BY Zenon, <1>2, Arrives DEF Arrival, Dispatch
<1>3. ASSUME NEW w \in Workers, WorkStep(w), ~UncountPush(w) PROVE Same
  BY Zenon, <1>3, Works
  DEF WorkStep, IgnoreLate, CountPush, ProcessResult, ProcessOther,
      AddInfo, ListenerInfo
<1>4. ASSUME NEW w \in Workers, UncountPush(w)
      PROVE  /\ UNCHANGED reported
             /\ \A u \in Threads : pc'[u] = "listener" => pc[u] = "listener"
  BY <1>4, Works DEF WorkStep
<1>5. ASSUME NEW t \in Workers \cup {Client}, EndCall(t) PROVE Same
  BY Zenon, <1>5, Ends DEF EndCall
<1>6. ASSUME NEW t \in Threads, Exchange(t)
      PROVE  /\ UNCHANGED reported /\ (finished => UNCHANGED counted)
             /\ \A u \in Threads : pc'[u] = "listener" => pc[u] = "listener"
  BY Zenon, <1>6, Exchanges DEF Exchange
<1>7. ASSUME NEW t \in Threads, Remove(t) PROVE Same
  BY Zenon, <1>7, Removes DEF Remove
<1>8. ASSUME NEW t \in Threads, WaitStep(t)
      PROVE  /\ UNCHANGED reported \/ ListenerFinished(t)
             /\ UNCHANGED counted
             /\ \A u \in Threads :
                 pc'[u] = "listener" => pc[u] = "listener" \/ WaitForPushes(u)
  BY ZenonT(30), <1>8, Waits, GotoMoves
  DEF WaitStep, ReadItem, CancelItem, ListenerFinished, Disconnect,
      WaitForPushes
<1>9. CASE Expire \/ Stop \/ JoinReaper \/ StopMiddleware \/ Cleanup
  <2>1. Same
  BY Zenon, <1>9, Expires, Stops, Joins, Disconnects, Cleans
  DEF Expire, Stop, JoinReaper, StopMiddleware, Cleanup
  <2>. QED BY <2>1
<1>10. CASE UNCHANGED vars
  BY Zenon, <1>10 DEF vars
<1>. QED
  BY <1>1, <1>2, <1>3, <1>4, <1>5, <1>6, <1>7, <1>8, <1>9, <1>10, Steps, Zenon

(* No step lets the listener hear of an info that finished() will not      *)
(* report.                                                                 *)
LEMMA InfosKept ==
    ASSUME ~SlowAdd, Inv, [Next]_vars
    PROVE  Infos'
<1>. Infos /\ Once /\ PcType /\ Counters /\ Containers
  BY DEF Inv
<1>. USE Distinct DEF Infos, InfosReported, Moves, Working
<1>1. CASE Quiet
  <2>1. /\ \A w \in Workers : pc'[w] # "idle" => call'[w] # 0
        /\ \A w \in Workers : pc'[w] = "infoListener" => call'[w] \in infoList'
        /\ heard' \subseteq infoList'
    BY Zenon, <1>1 DEF Quiet
  <2>2. CASE UNCHANGED reported
    BY <1>1, <2>1, <2>2 DEF Quiet
  <2>3. ASSUME NEW t \in Threads, ListenerFinished(t) PROVE InfosReported'
    <3>1. reported = <<>> /\ reported' = Append(reported, infoList)
      BY <2>3 DEF ListenerFinished, Once
    <3>2. reported' = <<infoList>>
      BY <3>1
    <3>. QED BY <1>1, <3>2 DEF Quiet
  <2>. QED BY <2>1, <2>2, <2>3, Reports
<1>2. ASSUME NEW w \in Workers, Arrival(w) PROVE Infos'
  <2>1. /\ call' = [call EXCEPT ![w] = calls + 1] /\ calls \in Nat
        /\ UNCHANGED <<infoList, heard>>
    BY <1>2 DEF Arrival, Dispatch, objectVars, histVars, Counters
  <2>. QED
    BY <1>2, <2>1, Arrives DEF Counters
<1>3. ASSUME NEW w \in Workers, WorkStep(w) PROVE Infos'
  <2>1. /\ \A v \in Workers : v # w => pc'[v] = pc[v]
        /\ pc[w] # "idle" /\ UNCHANGED reported
    BY <1>3, Works
  <2>2. CASE AddInfo(w)
    BY <2>1, <2>2 DEF AddInfo, threadVars, histVars
  <2>3. CASE ListenerInfo(w)
    <3>1. /\ pc[w] = "infoListener" /\ pc'[w] # "infoListener"
          /\ UNCHANGED <<infoList, call>>
          /\ heard' = IF reported = <<>> THEN heard \cup {call[w]} ELSE heard
      BY <2>3, GotoMoves DEF ListenerInfo, objectVars, threadVars
    <3>. QED BY <2>1, <3>1
  <2>4. CASE ~AddInfo(w) /\ ~ListenerInfo(w)
    <3>1. UNCHANGED <<infoList, call, heard>>
      BY Zenon, <1>3, <2>4
      DEF WorkStep, IgnoreLate, CountPush, ProcessResult, ProcessOther,
          UncountPush, objectVars, threadVars, histVars
    <3>2. pc'[w] # "infoListener"
      BY <1>3, <2>4, GotoMoves
      DEF WorkStep, IgnoreLate, CountPush, ProcessResult, ProcessOther,
          UncountPush
    <3>. QED BY <2>1, <3>1, <3>2
  <2>. QED BY <2>2, <2>3, <2>4
<1>. QED BY <1>1, <1>2, <1>3, QuietSteps

(* The three ways in which a step changes num_push_ and the calls that it  *)
(* counts.                                                                 *)
LEMMA Pushes ==
    ASSUME ~SlowAdd, Inv, [Next]_vars
    PROVE  \/ UNCHANGED numPush /\ Pushing' = Pushing
           \/ \E w \in Workers \ Pushing :
                 Pushing' = Pushing \cup {w} /\ numPush' = numPush + 1
           \/ \E w \in Pushing :
                 Pushing' = Pushing \ {w} /\ numPush' = numPush - 1
<1>. PcType
  BY DEF Inv
<1>. USE Distinct DEF Pushing
<1>1. CASE Quiet
  BY <1>1 DEF Quiet, Working
<1>2. ASSUME NEW w \in Workers, Arrival(w)
      PROVE  UNCHANGED numPush /\ Pushing' = Pushing
  BY Zenon, <1>2, Arrives DEF Arrival, Dispatch, objectVars, Moves
<1>3. ASSUME NEW w \in Workers, CountPush(w)
      PROVE  /\ w \notin Pushing /\ Pushing' = Pushing \cup {w}
             /\ numPush' = numPush + 1
  BY Zenon, <1>3, GotoMoves DEF CountPush
<1>4. ASSUME NEW w \in Workers, UncountPush(w)
      PROVE  /\ w \in Pushing /\ Pushing' = Pushing \ {w}
             /\ numPush' = numPush - 1
  BY <1>4, GotoMoves DEF UncountPush
<1>5. ASSUME NEW w \in Workers, WorkStep(w), ~CountPush(w), ~UncountPush(w)
      PROVE  UNCHANGED numPush /\ Pushing' = Pushing
  BY <1>5, GotoMoves
  DEF WorkStep, IgnoreLate, ProcessResult, ProcessOther, AddInfo,
      ListenerInfo, objectVars
<1>. QED BY <1>1, <1>2, <1>3, <1>4, <1>5, QuietSteps, Zenon

(* The three ways in which a step changes the number of the calls, of      *)
(* those that have not got to process_data(), and of their results.        *)
LEMMA Comes ==
    ASSUME ~SlowAdd, Inv, [Next]_vars
    PROVE  \/ /\ UNCHANGED <<numResults, results, calls>>
              /\ Coming' \subseteq Coming
           \/ \E w \in Workers \ Coming :
                 /\ Coming' \subseteq Coming \cup {w} /\ calls' = calls + 1
                 /\ UNCHANGED <<numResults, results>>
           \/ \E w \in Coming :
                 /\ Coming' = Coming \ {w} /\ numResults' = numResults + 1
                 /\ UNCHANGED calls
                 /\ \/ UNCHANGED results
                    \/ results' = results + 1 /\ ~OverLimit(numResults + 1)
<1>. PcType
  BY DEF Inv
<1>. USE Distinct DEF Coming
<1>1. CASE Quiet
  BY Zenon, <1>1 DEF Quiet, Working
<1>2. ASSUME NEW w \in Workers, Arrival(w)
      PROVE  /\ w \notin Coming /\ Coming' \subseteq Coming \cup {w}
             /\ UNCHANGED <<numResults, results>> /\ calls' = calls + 1
  BY Zenon, <1>2, Arrives DEF Moves, Arrival, Dispatch, objectVars, histVars
<1>3. ASSUME NEW w \in Workers, ProcessResult(w)
      PROVE  /\ w \in Coming /\ Coming' = Coming \ {w}
             /\ numResults' = numResults + 1 /\ UNCHANGED calls
             /\ \/ UNCHANGED results
                \/ results' = results + 1 /\ ~OverLimit(numResults + 1)
  BY <1>3, GotoMoves DEF ProcessResult, threadVars
<1>4. ASSUME NEW w \in Workers, WorkStep(w), ~ProcessResult(w)
      PROVE  /\ UNCHANGED <<numResults, results, calls>>
             /\ Coming' \subseteq Coming
  BY <1>4, GotoMoves
  DEF WorkStep, IgnoreLate, CountPush, ProcessOther, UncountPush, AddInfo,
      ListenerInfo, objectVars, threadVars, histVars
<1>5. CASE \E w \in Workers : Arrival(w) \/ ProcessResult(w)
  BY Zenon, <1>2, <1>3, <1>5
<1>6. CASE \E w \in Workers : WorkStep(w) /\ ~ProcessResult(w)
  BY Zenon, <1>4, <1>6
<1>. QED BY <1>1, <1>5, <1>6, QuietSteps, Zenon

(* No step forgets a push that finished() has to wait for.                 *)
LEMMA CountedKept ==
    ASSUME ~SlowAdd, Inv, [Next]_vars, numPush = 0 => Pushing = {}
    PROVE  Counted'
<1>. Counted /\ Once /\ PcType
  BY DEF Inv
<1>. USE Distinct DEF Counted, CountedPushesFirst
<1>1. ASSUME NEW u \in Threads, pc'[u] = "listener" PROVE counted = {}
  <2>1. CASE WaitForPushes(u)
    BY <2>1 DEF WaitForPushes
  <2>. QED BY Zenon, <1>1, <2>1, Reports
<1>2. CASE UNCHANGED counted
  <2>1. ASSUME NEW w \in counted
        PROVE  pc'[w] \in {"process", "done", "doneFinish"}
    <3>1. /\ w \in Workers /\ ~UncountPush(w)
          /\ pc[w] \in {"process", "done", "doneFinish"}
      BY <1>2, <2>1 DEF Pushing, UncountPush
    <3>2. CASE Quiet
      BY <3>1, <3>2 DEF Quiet, Working
    <3>3. CASE \E v \in Workers \ {w} : Arrival(v) \/ WorkStep(v)
      BY <3>1, <3>3, Arrives, Works DEF Moves
    <3>4. CASE Arrival(w)
      BY <3>1, <3>4, Arrives DEF Moves
    <3>5. CASE WorkStep(w)
      BY <3>1, <3>5, GotoMoves
      DEF WorkStep, IgnoreLate, CountPush, ProcessResult, ProcessOther,
          AddInfo, ListenerInfo
    <3>. QED BY <3>1, <3>2, <3>3, <3>4, <3>5, QuietSteps, Zenon
  <2>. QED BY <1>1, <1>2, <2>1 DEF Pushing
<1>3. ASSUME NEW w \in Workers, UncountPush(w) PROVE Counted'
  <2>1. WorkStep(w) /\ counted' = counted \ {w}
    BY <1>3 DEF WorkStep, UncountPush
  <2>. QED BY <1>1, <2>1, Works DEF Pushing, Moves
<1>4. ASSUME NEW t \in Threads, Exchange(t), ~finished PROVE Counted'
  <2>1. /\ counted' = Pushing /\ pc[t] = "exchange" /\ pc'[t] = "item"
        /\ \A u \in Threads : u # t => pc'[u] = pc[u]
    BY <1>4, Exchanges, Zenon DEF Exchange, Pushing, Moves
  <2>. QED BY <1>4, <2>1 DEF Pushing, Once, Ending, Finishing
<1>. QED BY Zenon, <1>2, <1>3, <1>4, Reports

(* Every thread stays at one of the labels, and the flags stay Boolean.    *)
LEMMA TypesKept ==
    ASSUME ~SlowAdd, Inv, [Next]_vars
    PROVE  PcType' /\ Flags'
<1>. PcType /\ Flags
  BY DEF Inv
<1>. USE Distinct DEF Flags, objectVars, lifeVars, worldVars, histVars
<1>1. ASSUME NEW t \in Threads, NEW l \in Labels, Goto(t, l) PROVE PcType'
  BY <1>1 DEF PcType, Goto
<1>2. CASE \/ Construct \/ Assign \/ SetDisconnectFunction \/ SendSearch
           \/ AddServant
  <2>1. \E l \in Labels : Goto(Client, l)
    BY Zenon, <1>2
    DEF Construct, Assign, SetDisconnectFunction, SendSearch, AddServant, Drop,
        Labels, Inside, Finishing, Connecting
  <2>2. Flags'
    BY <1>2, ZenonT(40)
    DEF Construct, Assign, AddServant, SetDisconnectFunction, SendSearch, Drop
  <2>. QED BY <1>1, <2>1, <2>2
<1>3. ASSUME NEW w \in Workers, Arrival(w) \/ WorkStep(w)
      PROVE  PcType' /\ Flags'
  <2>1. \E l \in Labels : Goto(w, l)
    BY Zenon, <1>3
    DEF Arrival, Dispatch, WorkStep, IgnoreLate, CountPush, ProcessResult,
        ProcessOther, UncountPush, AddInfo, ListenerInfo, Labels, Inside,
        Finishing, Connecting
  <2>2. Flags'
    BY <1>3, ZenonT(40)
    DEF Arrival, Dispatch, WorkStep, IgnoreLate, CountPush, ProcessResult,
        ProcessOther, UncountPush, AddInfo, ListenerInfo
  <2>. QED BY <1>1, <2>1, <2>2
<1>4. ASSUME NEW t \in Workers \cup {Client}, EndCall(t)
      PROVE  PcType' /\ Flags'
  <2>1. \E l \in Labels : Goto(t, l)
    BY <1>4 DEF EndCall, Drop, Labels, Inside, Finishing, Connecting
  <2>2. Flags'
    BY <1>4, ZenonT(40)
    DEF EndCall, Drop
  <2>. QED BY <1>1, <2>1, <2>2
<1>5. ASSUME NEW t \in Threads, Exchange(t) \/ WaitStep(t) \/ Remove(t)
      PROVE  PcType' /\ Flags'
  <2>1. \E l \in Labels : Goto(t, l)
    BY Zenon, <1>5
    DEF Exchange, WaitStep, ReadItem, CancelItem, WaitForPushes,
        ListenerFinished, Disconnect, Remove, Return, Labels, Inside,
        Finishing, Connecting
  <2>2. Flags'
    BY <1>5, ZenonT(40)
    DEF Exchange, WaitStep, ReadItem, CancelItem, WaitForPushes,
        ListenerFinished, Disconnect, Remove
  <2>. QED BY <1>1, <2>1, <2>2
<1>6. CASE \/ Expire \/ Stop \/ JoinReaper \/ StopMiddleware \/ Cleanup
  <2>1. \E t \in Threads, l \in Labels : Goto(t, l)
    BY Zenon, <1>6
    DEF Expire, Stop, JoinReaper, StopMiddleware, Cleanup, Drop, Labels,
        Inside, Finishing, Connecting
  <2>2. Flags'
    BY <1>6, ZenonT(40)
    DEF Expire, Stop, JoinReaper, StopMiddleware, Cleanup, Drop
  <2>. QED BY <1>1, <2>1, <2>2
<1>7. CASE UNCHANGED vars
  BY <1>7 DEF vars, PcType
<1>. QED
  BY <1>2, <1>3, <1>4, <1>5, <1>6, <1>7, Steps, Zenon

(* The counters stay natural numbers.                                      *)
LEMMA CountersKept ==
    ASSUME ~SlowAdd, Inv, [Next]_vars, numPush' \in Nat
    PROVE  Counters'
<1>. Counters
  BY DEF Inv
<1>2. CASE Quiet
  BY <1>2 DEF Counters, Quiet
<1>3. ASSUME NEW w \in Workers, Arrival(w) PROVE Counters'
  BY <1>3, ConstantAssumption
  DEF Counters, Arrival, Dispatch, objectVars, histVars
<1>4. ASSUME NEW w \in Workers, WorkStep(w) PROVE Counters'
  BY <1>4
    DEF Counters, WorkStep, IgnoreLate, CountPush, ProcessResult, ProcessOther,
        UncountPush, AddInfo, ListenerInfo, objectVars, threadVars, histVars
<1>. QED BY <1>2, <1>3, <1>4, QuietSteps

(* The sets, the item and the report keep their types.                     *)
LEMMA ContainersKept ==
    ASSUME ~SlowAdd, Inv, [Next]_vars
    PROVE  Containers'
<1>. Containers /\ Counters /\ Infos
  BY DEF Inv
<1>. USE Distinct
<1>1. infoList' \subseteq 1..MaxCalls /\ heard' \subseteq 1..MaxCalls
  <2>1. CASE Quiet
    BY Zenon, <2>1 DEF Containers, Quiet
  <2>2. ASSUME NEW w \in Workers, Arrival(w)
        PROVE  UNCHANGED <<infoList, heard>>
    BY Zenon, <2>2 DEF Arrival, Dispatch, objectVars, histVars
  <2>3. ASSUME NEW w \in Workers, WorkStep(w)
        PROVE  /\ infoList' \subseteq infoList \cup {call[w]}
               /\ heard' \subseteq heard \cup {call[w]}
               /\ call[w] \in 1..MaxCalls
    <3>1. pc[w] # "idle"
      BY Zenon, <2>3, Works DEF Moves, Working
    <3>2. call[w] \in 1..MaxCalls
      BY <3>1, ConstantAssumption DEF Infos, Counters
    <3>. QED
      BY Zenon, <2>3, <3>2
      DEF WorkStep, IgnoreLate, CountPush, ProcessResult, ProcessOther,
          UncountPush, AddInfo, ListenerInfo, objectVars, histVars
  <2>. QED BY Zenon, <2>1, <2>2, <2>3, QuietSteps DEF Containers
<1>2. /\ refs' \subseteq Workers \cup {Client, Adapter}
      /\ item' \in {"none", "armed", "firing", "fired", "disarmed"}
  <2>. USE DEF Containers, Returns
  <2>1. CASE Construct \/ Assign \/ AddServant \/ SetDisconnectFunction
             \/ SendSearch
    BY Zenon, <2>1, Constructs, Assigns, Adds, Connects, Sends
  <2>2. CASE \E w \in Workers : Arrival(w) \/ WorkStep(w)
    BY Zenon, <2>2, Arrives, Works
  <2>3. CASE \E t \in Workers \cup {Client} : EndCall(t)
    BY Zenon, <2>3, Ends
  <2>4. CASE \E t \in Threads : Exchange(t) \/ WaitStep(t) \/ Remove(t)
    BY Zenon, <2>4, Exchanges, Waits, WaitsItem, Removes
  <2>5. CASE Expire \/ Stop \/ JoinReaper \/ StopMiddleware \/ Cleanup
    BY Zenon, <2>5, Expires, Stops, Joins, Disconnects, Cleans
  <2>6. CASE UNCHANGED vars
    BY <2>6 DEF vars, lifeVars, worldVars
  <2>. QED BY <2>1, <2>2, <2>3, <2>4, <2>5, <2>6, Steps, Zenon
<1>3. counted' \subseteq Workers
  BY Reports, Zenon DEF Containers, UncountPush, Exchange
<1>4. reported' \in Seq(SUBSET (1..MaxCalls))
  <2>1. /\ reported \in Seq(SUBSET (1..MaxCalls))
        /\ infoList \in SUBSET (1..MaxCalls)
    BY Zenon DEF Containers
  <2>2. UNCHANGED reported \/ reported' = Append(reported, infoList)
    BY Zenon, Reports DEF ListenerFinished
  <2>3. Append(reported, infoList) \in Seq(SUBSET (1..MaxCalls))
    BY Zenon, <2>1, AppendType
  <2>. QED BY Zenon, <2>1, <2>2, <2>3
<1>. QED BY <1>1, <1>2, <1>3, <1>4 DEF Containers

-----------------------------------------------------------------------------
(* The counters: num_push_ and the calls, by the sizes of finite sets.     *)
INSTANCE FiniteSetTheorems

(* num_push_ counts a finite set of calls, so that it is 0 only when there *)
(* is none.                                                                *)
LEMMA CallsFinite ==
    /\ IsFiniteSet(Pushing) /\ (Cardinality(Pushing) = 0 <=> Pushing = {})
    /\ Cardinality(Pushing) \in 0..Cardinality(Workers)
    /\ IsFiniteSet(Coming) /\ Cardinality(Coming) \in Nat
<1>1. Pushing \subseteq Workers /\ Coming \subseteq Workers
  BY DEF Pushing, Coming
<1>2. IsFiniteSet(Workers)
  BY ConstantAssumption
<1>. QED BY <1>1, <1>2, FS_Subset, FS_EmptySet, FS_CardinalityType

(* num_push_ goes up and down with the calls that it counts.               *)
LEMMA PushCountKept ==
    ASSUME ~SlowAdd, Inv, [Next]_vars
    PROVE  PushCount' /\ numPush' \in Nat
<1>1. numPush = Cardinality(Pushing)
  BY DEF Inv, PushCount
<1>2. numPush' = Cardinality(Pushing')
  BY <1>1, Pushes, CallsFinite, FS_AddElement, FS_RemoveElement
<1>3. Pushing' \subseteq Workers
  BY DEF Pushing
<1>. QED
  BY <1>2, <1>3, ConstantAssumption, FS_Subset, FS_CardinalityType
  DEF PushCount

(* Every call is counted as a result once at most.                         *)
LEMMA ResultCountKept ==
    ASSUME ~SlowAdd, Inv, [Next]_vars
    PROVE  ResultCount'
<1>. ResultCount /\ Counters
  BY DEF Inv
<1>. USE CallsFinite DEF ResultCount, ResultsBounded, Counters
<1>1. CASE /\ UNCHANGED <<numResults, results, calls>>
           /\ Coming' \subseteq Coming
  <2>1. /\ Cardinality(Coming') <= Cardinality(Coming)
        /\ Cardinality(Coming') \in Nat
    BY <1>1, FS_Subset, FS_CardinalityType
  <2>. QED BY <1>1, <2>1
<1>2. ASSUME NEW w \in Workers \ Coming, Coming' \subseteq Coming \cup {w},
             calls' = calls + 1, UNCHANGED <<numResults, results>>
      PROVE  ResultCount'
  <2>1. /\ IsFiniteSet(Coming \cup {w})
        /\ Cardinality(Coming \cup {w}) = Cardinality(Coming) + 1
    BY <1>2, FS_AddElement
  <2>2. /\ Cardinality(Coming') <= Cardinality(Coming) + 1
        /\ Cardinality(Coming') \in Nat
    BY <1>2, <2>1, FS_Subset, FS_CardinalityType
  <2>. QED BY <1>2, <2>2
<1>3. ASSUME NEW w \in Coming, Coming' = Coming \ {w},
             numResults' = numResults + 1, UNCHANGED calls,
             \/ UNCHANGED results
             \/ results' = results + 1 /\ ~OverLimit(numResults + 1)
      PROVE  ResultCount'
  <2>1. Cardinality(Coming') = Cardinality(Coming) - 1
    BY <1>3, FS_RemoveElement, Zenon
  <2>. QED BY <1>3, <2>1, ConstantAssumption DEF OverLimit
<1>. HIDE DEF ResultCount
<1>. QED BY <1>1, <1>2, <1>3, Comes, Zenon

-----------------------------------------------------------------------------
(* The object starts before search(), unknown to anybody.                  *)
LEMMA InvInit == ASSUME Init PROVE Inv
<1>. USE Distinct DEF Init
<1>1. Pushing = {} /\ Coming = {} /\ Cardinality({}) = 0
  BY FS_EmptySet DEF Pushing, Coming
<1>2. PcType
  BY DEF PcType, Labels, Connecting
<1>3. Flags
  BY Zenon DEF Flags
<1>4. Counters /\ Containers
  BY ConstantAssumption DEF Counters, Containers
<1>5. PushCount /\ ResultCount
  BY <1>1, ConstantAssumption DEF PushCount, ResultCount, ResultsBounded
<1>6. \A t \in Threads : pc[t] \in {"new", "idle"}
  OBVIOUS
<1>7. Infos /\ Once /\ Counted
  BY <1>6
  DEF Infos, InfosReported, Once, Ending, Finishing, Counted,
      CountedPushesFirst
<1>8. /\ pc[Client] = "new" /\ pc[Stopper] = "idle" /\ pc[ReapThread] = "idle"
      /\ \A w \in Workers : pc[w] = "idle"
  OBVIOUS
<1>9. Life
  BY <1>6, <1>8
  DEF Life, Connected, References, Freed, StopOrder, Reaping, Connecting,
      Cancelled, Finishing
<1>. QED
  BY <1>2, <1>3, <1>4, <1>5, <1>7, <1>9 DEF Inv

(* Every step keeps the invariant, if add_reply_object() is not overtaken. *)
LEMMA InvStep == ASSUME ~SlowAdd, Inv, [Next]_vars PROVE Inv'
<1>1. PcType' /\ Flags' /\ Counters' /\ Containers'
  BY TypesKept, PushCountKept, CountersKept, ContainersKept
<1>2. PushCount' /\ ResultCount' /\ Infos' /\ Once' /\ Counted'
  <2>1. numPush = 0 => Pushing = {}
    BY CallsFinite DEF Inv, PushCount
  <2>. QED
    BY <2>1, PushCountKept, ResultCountKept, InfosKept, OnceKept, CountedKept
<1>. QED BY <1>1, <1>2, LifeKept DEF Inv

(* The counters stay within their bounds, and when the destructor has run  *)
(* every thread is out of the object.                                      *)
LEMMA InvSound == ASSUME Inv PROVE ReplySound
<1>. USE Distinct
<1>1. /\ PcType /\ Flags /\ Counters /\ Containers /\ PushCount
      /\ ResultCount
  BY DEF Inv
<1>2. numPush \in 0..Cardinality(Workers)
  BY <1>1, CallsFinite DEF PushCount
<1>3. numResults \in 0..MaxCalls /\ results \in 0..MaxCalls
  BY <1>1, CallsFinite, ConstantAssumption DEF ResultCount, Counters
<1>4. TypeOK
  BY <1>1, <1>2, <1>3, Zenon
  DEF PcType, Flags, Counters, Containers, TypeOK
<1>5. NoUseAfterFree
  <2>. SUFFICES ASSUME gone, NEW t \in Threads PROVE pc[t] \notin Inside
    BY DEF NoUseAfterFree
  <2>1. /\ refs = {} /\ pc[Client] \notin Connecting
        /\ References /\ Reaping /\ StopOrder
    BY DEF Inv, Life, Freed
  <2>. QED BY <2>1 DEF References, Reaping, StopOrder, Inside, Finishing
<1>6. FinishedOnce /\ CountedPushesFirst /\ InfosReported /\ ResultsBounded
  BY DEF Inv, Once, FinishedOnce, Counted, Infos, ResultCount
<1>. QED BY <1>4, <1>5, <1>6 DEF ReplySound

(* ReplySound, for any number of workers and of calls: the listener hears  *)
(* finished() once, after the pushes that finished() could know of, with   *)
(* all infos and no more results than it asked for, and nobody uses the    *)
(* object after its end (ReplyObject, ResultReplyObject), provided that no *)
(* expiry and no stop overtakes add_reply_object().                        *)
THEOREM AlwaysSound ==
    ASSUME ~SlowAdd
    PROVE  Spec => []ReplySound
<1>1. Init => Inv
  BY InvInit
<1>2. Inv /\ [Next]_vars => Inv'
  BY InvStep
<1>3. Inv => ReplySound
  BY InvSound
<1>. QED
  BY <1>1, <1>2, <1>3, PTL DEF Spec
=============================================================================
