----------------------------- MODULE Forwarder ------------------------------
(***************************************************************************)
(* A chain of BufferedResultForwarders, with which an aggregator forwards  *)
(* the results of its child scopes in a given order: forwarder 1 first,    *)
(* then 2, and so on.  Each buffers its results (BufferedSearchReplyImpl)  *)
(* until all before it are ready.  The chain is complete before the first  *)
(* search is sent.  The results arrive in the one thread of the reply      *)
(* adapter; a finished() may also come from the thread that sent the       *)
(* search, or from the reaper.                                             *)
(*                                                                         *)
(* The results of one child scope are not told apart: they are counted.    *)
(***************************************************************************)
EXTENDS Integers, WellFoundedInduction, TLAPS

CONSTANTS
    Length,       \* the number of forwarders
    ReplyThread,  \* the thread that results arrive in
    OtherThreads, \* the threads that may call finished()
    MaxResults    \* bound: results per child scope

VARIABLES
    ready,        \* BufferedResultForwarderImpl::ready_
    previousReady,\* BufferedResultForwarderImpl::previous_ready_
    buffering,    \* BufferedSearchReplyImpl::buffer_
    results,      \* the size of BufferedSearchReplyImpl::results_
    forwarded,    \* how many results of each child were pushed upstream
    received,     \* how many results each child has sent
    finished,     \* the forwarders whose query has finished
    pc,           \* what each thread is doing
    at,           \* at which forwarder
    flushed       \* how many results its flush() has still to push

vars == <<ready, previousReady, buffering, results, forwarded, received,
          finished, pc, at, flushed>>
state == <<ready, previousReady, buffering, results, forwarded>>
input == <<received, finished>>

Forwarders == 1..Length
Threads == {ReplyThread} \cup OtherThreads
HasPrevious(i) == i > 1

Init ==
    /\ ready = [i \in Forwarders |-> FALSE]
    /\ previousReady = [i \in Forwarders |-> FALSE]
    /\ buffering = [i \in Forwarders |-> TRUE]
    /\ results = [i \in Forwarders |-> 0]
    /\ forwarded = [i \in Forwarders |-> 0]
    /\ received = [i \in Forwarders |-> 0]
    /\ finished = {}
    /\ pc = [t \in Threads |-> "idle"]
    /\ at = [t \in Threads |-> 1]
    /\ flushed = [t \in Threads |-> 0]

Goto(t, label) == pc' = [pc EXCEPT ![t] = label]
Enter(t, label, i) == Goto(t, label) /\ at' = [at EXCEPT ![t] = i]

(* push(result): buffered, or pushed upstream at once.                     *)
Push(i) ==
    /\ pc[ReplyThread] = "idle"
    /\ i \notin finished
    /\ received[i] < MaxResults
    /\ received' = [received EXCEPT ![i] = @ + 1]
    /\ IF buffering[i]
       THEN /\ results' = [results EXCEPT ![i] = @ + 1]
            /\ UNCHANGED forwarded
       ELSE /\ forwarded' = [forwarded EXCEPT ![i] = @ + 1]
            /\ UNCHANGED results
    /\ Enter(ReplyThread, "ready", i)
    /\ UNCHANGED <<ready, previousReady, buffering, finished, flushed>>

(* finished().                                                             *)
Finished(t, i) ==
    /\ pc[t] = "idle"
    /\ i \notin finished
    /\ finished' = finished \cup {i}
    /\ Enter(t, "ready", i)
    /\ UNCHANGED <<state, received, flushed>>

(* set_ready(): the exchange of ready_, and then the test of the others.   *)
SetReady(t) ==
    /\ pc[t] = "ready"
    /\ ready' = [ready EXCEPT ![at[t]] = TRUE]
    /\ Goto(t, IF ready[at[t]] THEN "idle" ELSE "test")
    /\ UNCHANGED <<previousReady, buffering, results, forwarded, input, at, flushed>>

TestPrevious(t) ==
    /\ pc[t] = "test"
    /\ Goto(t, IF previousReady[at[t]] \/ ~HasPrevious(at[t]) THEN "flush" ELSE "idle")
    /\ UNCHANGED <<state, input, at, flushed>>

(* flush(), under mutex_, and then the loop of it without the mutex.       *)
Flush(t) ==
    /\ pc[t] = "flush"
    /\ flushed' = [flushed EXCEPT ![t] = IF buffering[at[t]] THEN results[at[t]] ELSE 0]
    /\ results' = [results EXCEPT ![at[t]] = IF buffering[at[t]] THEN 0 ELSE @]
    /\ buffering' = [buffering EXCEPT ![at[t]] = FALSE]
    /\ Goto(t, "push")
    /\ UNCHANGED <<ready, previousReady, forwarded, input, at>>

FlushPush(t) ==
    /\ pc[t] = "push"
    /\ IF flushed[t] = 0
       THEN /\ IF at[t] < Length THEN Enter(t, "notify", at[t] + 1)
               ELSE Enter(t, "idle", at[t])
            /\ UNCHANGED <<forwarded, flushed>>
       ELSE /\ forwarded' = [forwarded EXCEPT ![at[t]] = @ + 1]
            /\ flushed' = [flushed EXCEPT ![t] = @ - 1]
            /\ UNCHANGED <<pc, at>>
    /\ UNCHANGED <<ready, previousReady, buffering, results, input>>

(* Mutant: notify_ready() looks at ready_ before it sets previous_ready_.  *)
NotifyTestsFirst(t) ==
    /\ \/ /\ pc[t] = "notify"
          /\ Goto(t, IF ready[at[t]] THEN "notifyFlush" ELSE "notifyOnly")
          /\ UNCHANGED previousReady
       \/ /\ pc[t] \in {"notifyFlush", "notifyOnly"}
          /\ previousReady' = [previousReady EXCEPT ![at[t]] = TRUE]
          /\ Goto(t, IF pc[t] = "notifyFlush" THEN "flush" ELSE "idle")
    /\ UNCHANGED <<ready, buffering, results, forwarded, input, at, flushed>>

(* notify_ready() of the next forwarder: the store of previous_ready_, and *)
(* the test of ready_.                                                     *)
Notify(t) ==
    /\ \/ /\ pc[t] = "notify"
          /\ previousReady' = [previousReady EXCEPT ![at[t]] = TRUE]
          /\ Goto(t, "notified")
       \/ /\ pc[t] = "notified"
          /\ Goto(t, IF ready[at[t]] THEN "flush" ELSE "idle")
          /\ UNCHANGED previousReady
    /\ UNCHANGED <<ready, buffering, results, forwarded, input, at, flushed>>

Step(t) ==
    SetReady(t) \/ TestPrevious(t) \/ Flush(t) \/ FlushPush(t) \/ Notify(t)

Next ==
    \/ \E i \in Forwarders : Push(i) \/ \E t \in Threads : Finished(t, i)
    \/ \E t \in Threads : Step(t)

Spec == Init /\ [][Next]_vars

-----------------------------------------------------------------------------
(* No result is forwarded before all the forwarders before its own have    *)
(* declared themselves ready, and none stays in a buffer for ever: when    *)
(* all children have finished and all calls have returned, every result    *)
(* has been forwarded, whichever of set_ready() and notify_ready() won.    *)
ForwardedInTurn ==
    /\ \A i \in Forwarders : forwarded[i] > 0 => \A j \in 1..(i - 1) : ready[j]
    /\ finished = Forwarders /\ (\A t \in Threads : pc[t] = "idle") =>
          forwarded = received

(* BufferedResultForwarder.cpp: "if each child produces results for a      *)
(* single category, the chaining insures the correct order (results from   *)
(* child A followed by results from child B ...)": the results that were   *)
(* buffered are forwarded before those of the next forwarder.              *)
FirstResultsInOrder ==
    \A t \in Threads : \A i \in Forwarders :
       flushed[t] > 0 /\ forwarded[i] > 0 => i <= at[t]

-----------------------------------------------------------------------------
(* The proof of ForwardedInTurn.                                           *)
Labels == {"idle", "ready", "test", "flush", "push", "notify", "notified"}

(* The types, and that only a thread in flush() has results to push.       *)
TypeOK ==
    /\ ready \in [Forwarders -> BOOLEAN]
    /\ previousReady \in [Forwarders -> BOOLEAN]
    /\ buffering \in [Forwarders -> BOOLEAN]
    /\ results \in [Forwarders -> Nat]
    /\ forwarded \in [Forwarders -> Nat]
    /\ received \in [Forwarders -> Nat]
    /\ finished \subseteq Forwarders
    /\ pc \in [Threads -> Labels]
    /\ at \in [Threads -> Nat]
    /\ flushed \in [Threads -> Nat]
    /\ \A t \in Threads : pc[t] # "idle" => at[t] \in Forwarders
    /\ \A t \in Threads : flushed[t] > 0 => pc[t] = "push"

(* All the forwarders before i are ready and have stopped to buffer.       *)
Before(i) == \A j \in Forwarders : j < i => ready[j] /\ ~buffering[j]

(* What a forwarder or a thread has found out about the ones before it is  *)
(* so: buffers end in the order of the chain.                              *)
Turns ==
    /\ \A i \in Forwarders : previousReady[i] => Before(i)
    /\ \A i \in Forwarders : ~buffering[i] => ready[i] /\ Before(i)
    /\ \A i \in Forwarders : forwarded[i] > 0 => ~buffering[i]
    /\ \A t \in Threads : pc[t] = "test" => ready[at[t]]
    /\ \A t \in Threads : pc[t] = "flush" => ready[at[t]] /\ Before(at[t])
    /\ \A t \in Threads : pc[t] = "push" => ~buffering[at[t]]
    /\ \A t \in Threads : pc[t] \in {"notify", "notified"} => Before(at[t])

(* Thread t still has results of forwarder i to push.                      *)
Flushing(t, i) == flushed[t] > 0 /\ at[t] = i

(* Every result received is in the buffer, with the one thread that took   *)
(* it from there, or forwarded.                                            *)
Counted ==
    /\ \A i \in Forwarders : ~buffering[i] => results[i] = 0
    /\ \A i \in Forwarders : \A t, u \in Threads :
          Flushing(t, i) /\ Flushing(u, i) => t = u
    /\ \A i \in Forwarders :
          (\A t \in Threads : ~Flushing(t, i)) => received[i] = results[i] + forwarded[i]
    /\ \A i \in Forwarders : \A t \in Threads :
          Flushing(t, i) => received[i] = results[i] + forwarded[i] + flushed[t]

(* Who still has to see to it that forwarder i stops to buffer.            *)
Seen(i) == \E t \in Threads : at[t] = i /\ pc[t] \in {"test", "flush", "notified"}

(* Who still has to tell the forwarder after i.                            *)
Told(i) == \E t \in Threads : \/ at[t] = i /\ pc[t] = "push"
                              \/ at[t] = i + 1 /\ pc[t] = "notify"

(* No forwarder is left to buffer for ever: a thread is on its way to set, *)
(* test or tell what is missing.                                           *)
NoneForgotten ==
    /\ \A i \in finished : ready[i] \/ \E t \in Threads : at[t] = i /\ pc[t] = "ready"
    /\ \A i \in Forwarders :
          ready[i] /\ (i = 1 \/ previousReady[i]) => ~buffering[i] \/ Seen(i)
    /\ \A i \in Forwarders :
          ~buffering[i] /\ i < Length => previousReady[i + 1] \/ Told(i)

-----------------------------------------------------------------------------
(* < on the natural numbers is well-founded: the library states it of an   *)
(* operator, WFMin asks for a set of pairs.                                *)
LEMMA NatWellFounded == IsWellFoundedOn({p \in Nat \X Nat : p[1] < p[2]}, Nat)
  BY NatLessThanWellFounded, Zenon DEF OpToRel

(* A nonempty set of numbers has a least element: the first forwarder that *)
(* still buffers.                                                          *)
LEMMA LeastElement ==
    ASSUME NEW T, T \subseteq Nat, T # {}
    PROVE  \E x \in T : \A y \in T : x <= y
<1> DEFINE R == {p \in Nat \X Nat : p[1] < p[2]}
<1>1. IsWellFoundedOn(R, Nat)
  BY NatWellFounded
<1>2. \A x, y \in Nat : y < x => <<y, x>> \in R
  OBVIOUS
<1> HIDE DEF R
<1>3. PICK x \in T : \A y \in T : ~(<<y, x>> \in R)
  BY <1>1, WFMin
<1>4. ASSUME NEW y \in T
      PROVE  x <= y
  <2>1. x \in Nat /\ y \in Nat
    OBVIOUS
  <2>2. ~(y < x)
    BY <1>2, <1>3, <2>1
  <2>3. QED
    BY <2>1, <2>2
<1>5. QED
  BY <1>4

(* Forwarders without arithmetic: the neighbours of a forwarder are        *)
(* forwarders (BufferedResultForwarder's next and previous).               *)
LEMMA ForwarderFacts ==
    ASSUME Length \in Nat
    PROVE  /\ Forwarders \subseteq Nat
           /\ \A i \in Forwarders : i < Length => i + 1 \in Forwarders
           /\ \A i \in Forwarders : i # 1 => i - 1 \in Forwarders
           /\ \A i \in Forwarders : 1..(i - 1) \subseteq Forwarders
  BY DEF Forwarders

(* The variables have their types in every reachable state.                *)
LEMMA Typing ==
    ASSUME Length \in Nat
    PROVE  Spec => []TypeOK
<1> USE ForwarderFacts DEF TypeOK, Labels
<1>1. Init => TypeOK
  BY DEF Init
<1>2. TypeOK /\ [Next]_vars => TypeOK'
  <2> SUFFICES ASSUME TypeOK, [Next]_vars
               PROVE  TypeOK'
    OBVIOUS
  <2> USE DEF Enter, Goto, state, input
  <2>1. ASSUME NEW i \in Forwarders, Push(i)
        PROVE  TypeOK'
    <3>1. ReplyThread \in Threads
      BY DEF Threads
    <3>2. QED
      BY <2>1, <3>1 DEF Push
  <2>2. ASSUME NEW i \in Forwarders, NEW t \in Threads, Finished(t, i)
        PROVE  TypeOK'
    BY <2>2 DEF Finished
  <2>3. ASSUME NEW t \in Threads, SetReady(t)
        PROVE  TypeOK'
    BY <2>3 DEF SetReady
  <2>4. ASSUME NEW t \in Threads, TestPrevious(t)
        PROVE  TypeOK'
    BY <2>4 DEF TestPrevious
  <2>5. ASSUME NEW t \in Threads, Flush(t)
        PROVE  TypeOK'
    BY <2>5 DEF Flush
  <2>6. ASSUME NEW t \in Threads, FlushPush(t)
        PROVE  TypeOK'
    <3>1. CASE flushed[t] = 0 /\ at[t] < Length
      BY <2>6, <3>1 DEF FlushPush
    <3>2. CASE flushed[t] = 0 /\ ~(at[t] < Length)
      BY <2>6, <3>2 DEF FlushPush
    <3>3. CASE flushed[t] # 0
      <4>1. at[t] \in Forwarders /\ flushed[t] - 1 \in Nat
        BY <2>6, <3>3 DEF FlushPush
      <4>2. /\ forwarded' \in [Forwarders -> Nat]
            /\ flushed' \in [Threads -> Nat]
            /\ \A u \in Threads : flushed'[u] > 0 => pc[u] = "push"
        BY <2>6, <3>3, <4>1 DEF FlushPush
      <4>3. QED
        BY <2>6, <3>3, <4>2 DEF FlushPush
    <3>4. QED
      BY <3>1, <3>2, <3>3
  <2>7. ASSUME NEW t \in Threads, Notify(t)
        PROVE  TypeOK'
    BY <2>7 DEF Notify
  <2>8. CASE UNCHANGED vars
    BY <2>8 DEF vars
  <2>9. QED
    BY <2>1, <2>2, <2>3, <2>4, <2>5, <2>6, <2>7, <2>8 DEF Next, Step
<1>3. QED
  BY <1>1, <1>2, PTL DEF Spec

(* Every step keeps the order in which forwarders stop to buffer.          *)
LEMMA TurnsKept ==
    ASSUME Length \in Nat
    PROVE  TypeOK /\ TypeOK' /\ Turns /\ [Next]_vars => Turns'
<1> SUFFICES ASSUME TypeOK, TypeOK', Turns, [Next]_vars
             PROVE  Turns'
  OBVIOUS
<1> USE ForwarderFacts DEF TypeOK, Labels, Enter, Goto, state, input, Turns, Before
<1>1. ASSUME NEW i \in Forwarders, Push(i)
      PROVE  Turns'
  <2>1. ReplyThread \in Threads
    BY DEF Threads
  <2>2. CASE buffering[i]
    BY <1>1, <2>1, <2>2 DEF Push
  <2>3. CASE ~buffering[i]
    BY <1>1, <2>1, <2>3 DEF Push
  <2>4. QED
    BY <2>2, <2>3
<1>2. ASSUME NEW i \in Forwarders, NEW t \in Threads, Finished(t, i)
      PROVE  Turns'
  BY <1>2 DEF Finished
<1>3. ASSUME NEW t \in Threads, SetReady(t)
      PROVE  Turns'
  BY <1>3 DEF SetReady
<1>4. ASSUME NEW t \in Threads, TestPrevious(t)
      PROVE  Turns'
  BY <1>4 DEF TestPrevious, HasPrevious
<1>5. ASSUME NEW t \in Threads, Flush(t)
      PROVE  Turns'
  BY <1>5 DEF Flush
<1>6. ASSUME NEW t \in Threads, FlushPush(t)
      PROVE  Turns'
  <2>1. CASE flushed[t] = 0 /\ at[t] < Length
    <3>1. /\ at[t] \in Forwarders /\ ready[at[t]] /\ ~buffering[at[t]]
          /\ Before(at[t])
      BY <1>6 DEF FlushPush
    <3>2. ASSUME NEW j \in Forwarders, j < at[t] + 1
          PROVE  ready[j] /\ ~buffering[j]
      <4>1. j < at[t] \/ j = at[t]
        BY <3>1, <3>2
      <4>2. QED
        BY <3>1, <4>1
    <3>3. /\ at' = [at EXCEPT ![t] = at[t] + 1] /\ pc' = [pc EXCEPT ![t] = "notify"]
          /\ UNCHANGED <<ready, previousReady, buffering, forwarded>>
      BY <1>6, <2>1 DEF FlushPush
    <3>4. QED
      BY <3>2, <3>3
  <2>2. CASE flushed[t] = 0 /\ ~(at[t] < Length)
    BY <1>6, <2>2 DEF FlushPush
  <2>3. CASE flushed[t] # 0
    <3>1. at[t] \in Forwarders /\ ~buffering[at[t]]
      BY <1>6 DEF FlushPush
    <3>2. \A i \in Forwarders : forwarded'[i] > 0 => ~buffering[i]
      BY <1>6, <2>3, <3>1 DEF FlushPush
    <3>3. QED
      BY <1>6, <2>3, <3>2 DEF FlushPush
  <2>4. QED
    BY <2>1, <2>2, <2>3
<1>7. ASSUME NEW t \in Threads, Notify(t)
      PROVE  Turns'
  BY <1>7 DEF Notify
<1>8. CASE UNCHANGED vars
  BY <1>8 DEF vars
<1>9. QED
  BY <1>1, <1>2, <1>3, <1>4, <1>5, <1>6, <1>7, <1>8 DEF Next, Step

(* Every step keeps the account of the results, the ones that a thread is  *)
(* pushing from its copy of the buffer (flush()) included.                 *)
LEMMA CountedKept ==
    ASSUME Length \in Nat
    PROVE  TypeOK /\ TypeOK' /\ Turns /\ Counted /\ [Next]_vars => Counted'
<1> SUFFICES ASSUME TypeOK, TypeOK', Turns, Counted, [Next]_vars
             PROVE  Counted'
  OBVIOUS
<1> USE ForwarderFacts DEF TypeOK, Labels, Enter, Goto, state, input, Turns, Counted, Flushing
<1>1. ASSUME NEW i \in Forwarders, Push(i)
      PROVE  Counted'
  <2>1. ReplyThread \in Threads
    BY DEF Threads
  <2>2. QED
    BY <1>1, <2>1 DEF Push
<1>2. ASSUME NEW i \in Forwarders, NEW t \in Threads, Finished(t, i)
      PROVE  Counted'
  BY <1>2 DEF Finished
<1>3. ASSUME NEW t \in Threads, SetReady(t)
      PROVE  Counted'
  BY <1>3 DEF SetReady
<1>4. ASSUME NEW t \in Threads, TestPrevious(t)
      PROVE  Counted'
  BY <1>4 DEF TestPrevious, HasPrevious
<1>5. ASSUME NEW t \in Threads, Flush(t)
      PROVE  Counted'
  BY <1>5 DEF Flush
<1>6. ASSUME NEW t \in Threads, FlushPush(t)
      PROVE  Counted'
  <2>1. CASE flushed[t] = 0 /\ at[t] < Length
    BY <1>6, <2>1 DEF FlushPush
  <2>2. CASE flushed[t] = 0 /\ ~(at[t] < Length)
    BY <1>6, <2>2 DEF FlushPush
  <2>3. CASE flushed[t] # 0
    <3>1. /\ at[t] \in Forwarders /\ flushed[t] \in Nat /\ flushed[t] > 0
          /\ Flushing(t, at[t])
      BY <1>6, <2>3 DEF FlushPush
    <3>2. /\ forwarded' = [forwarded EXCEPT ![at[t]] = @ + 1]
          /\ flushed' = [flushed EXCEPT ![t] = @ - 1]
          /\ UNCHANGED <<at, results, received, buffering>>
      BY <1>6, <2>3 DEF FlushPush
    <3>3. ASSUME NEW i \in Forwarders, i # at[t], NEW u \in Threads
          PROVE  Flushing(u, i)' <=> Flushing(u, i)
      BY <3>1, <3>2, <3>3
    <3>4. ASSUME NEW u \in Threads, u # t
          PROVE  ~Flushing(u, at[t])'
      BY <3>1, <3>2, <3>4
    <3>5. received[at[t]] = results[at[t]] + forwarded'[at[t]] + flushed'[t]
      BY <3>1, <3>2
    <3>6. QED
      BY <3>1, <3>2, <3>3, <3>4, <3>5
  <2>4. QED
    BY <2>1, <2>2, <2>3
<1>7. ASSUME NEW t \in Threads, Notify(t)
      PROVE  Counted'
  BY <1>7 DEF Notify
<1>8. CASE UNCHANGED vars
  BY <1>8 DEF vars
<1>9. QED
  BY <1>1, <1>2, <1>3, <1>4, <1>5, <1>6, <1>7, <1>8 DEF Next, Step

(* Every step leaves someone to flush each buffer that may be flushed,     *)
(* whichever of set_ready() and notify_ready() comes first.                *)
LEMMA NoneForgottenKept ==
    ASSUME Length \in Nat
    PROVE  TypeOK /\ TypeOK' /\ NoneForgotten /\ [Next]_vars => NoneForgotten'
<1> SUFFICES ASSUME TypeOK, TypeOK', NoneForgotten, [Next]_vars
             PROVE  NoneForgotten'
  OBVIOUS
<1> USE ForwarderFacts DEF TypeOK, Labels, Enter, Goto, state, input, NoneForgotten, Seen, Told
<1>1. ASSUME NEW i \in Forwarders, Push(i)
      PROVE  NoneForgotten'
  <2>1. ReplyThread \in Threads
    BY DEF Threads
  <2>2. at' = [at EXCEPT ![ReplyThread] = i] /\ pc' = [pc EXCEPT ![ReplyThread] = "ready"]
    BY <1>1 DEF Push
  <2>3. UNCHANGED <<ready, previousReady, buffering, finished>> /\ pc[ReplyThread] = "idle"
    BY <1>1 DEF Push
  <2>4. \A u \in Threads : pc[u] # "idle" => pc'[u] = pc[u] /\ at'[u] = at[u]
    BY <2>1, <2>2, <2>3
  <2>5. ASSUME NEW j \in Forwarders, Seen(j)
        PROVE  Seen(j)'
    <3>1. PICK t \in Threads : at[t] = j /\ pc[t] \in {"test", "flush", "notified"}
      BY <2>5
    <3>2. QED
      BY <2>4, <3>1
  <2>6. ASSUME NEW j \in Forwarders, Told(j)
        PROVE  Told(j)'
    <3>1. PICK t \in Threads : \/ at[t] = j /\ pc[t] = "push"
                               \/ at[t] = j + 1 /\ pc[t] = "notify"
      BY <2>6
    <3>2. QED
      BY <2>4, <3>1
  <2>7. ASSUME NEW j \in finished, ~ready[j]
        PROVE  \E t \in Threads : at'[t] = j /\ pc'[t] = "ready"
    <3>1. PICK t \in Threads : at[t] = j /\ pc[t] = "ready"
      BY <2>7
    <3>2. QED
      BY <2>4, <3>1
  <2> HIDE DEF Seen, Told
  <2>8. QED
    BY <2>3, <2>5, <2>6, <2>7 DEF NoneForgotten
<1>2. ASSUME NEW i \in Forwarders, NEW t \in Threads, Finished(t, i)
      PROVE  NoneForgotten'
  BY <1>2 DEF Finished
<1>3. ASSUME NEW t \in Threads, SetReady(t)
      PROVE  NoneForgotten'
  BY <1>3 DEF SetReady
<1>4. ASSUME NEW t \in Threads, TestPrevious(t)
      PROVE  NoneForgotten'
  BY <1>4 DEF TestPrevious, HasPrevious
<1>5. ASSUME NEW t \in Threads, Flush(t)
      PROVE  NoneForgotten'
  BY <1>5 DEF Flush
<1>6. ASSUME NEW t \in Threads, FlushPush(t)
      PROVE  NoneForgotten'
  <2>1. CASE flushed[t] = 0 /\ at[t] < Length
    BY <1>6, <2>1 DEF FlushPush
  <2>2. CASE flushed[t] = 0 /\ ~(at[t] < Length)
    BY <1>6, <2>2 DEF FlushPush
  <2>3. CASE flushed[t] # 0
    BY <1>6, <2>3 DEF FlushPush
  <2>4. QED
    BY <2>1, <2>2, <2>3
<1>7. ASSUME NEW t \in Threads, Notify(t)
      PROVE  NoneForgotten'
  <2>1. CASE pc[t] = "notify"
    BY <1>7, <2>1 DEF Notify
  <2>2. CASE pc[t] = "notified"
    BY <1>7, <2>2 DEF Notify
  <2>3. QED
    BY <1>7, <2>1, <2>2 DEF Notify
<1>8. CASE UNCHANGED vars
  BY <1>8 DEF vars
<1>9. QED
  BY <1>1, <1>2, <1>3, <1>4, <1>5, <1>6, <1>7, <1>8 DEF Next, Step

(* ForwardedInTurn for any number of forwarders, threads and results: the  *)
(* stores and tests of ready_ and previous_ready_ lose no flush and let no *)
(* forwarder go ahead of its turn.                                         *)
THEOREM InTurn ==
    ASSUME Length \in Nat
    PROVE  Spec => []ForwardedInTurn
<1> DEFINE IInv == Turns /\ Counted /\ NoneForgotten
<1>1. Init => IInv
  BY ForwarderFacts DEF Init, Turns, Before, Counted, Flushing, NoneForgotten
<1>2. TypeOK /\ TypeOK' /\ IInv /\ [Next]_vars => IInv'
  BY TurnsKept, CountedKept, NoneForgottenKept
<1>3. TypeOK /\ IInv => ForwardedInTurn
  <2> SUFFICES ASSUME TypeOK, IInv
               PROVE  ForwardedInTurn
    OBVIOUS
  <2>1. ASSUME NEW i \in Forwarders, forwarded[i] > 0, NEW j \in 1..(i - 1)
        PROVE  ready[j]
    <3>1. j \in Forwarders /\ j < i
      BY ForwarderFacts
    <3>2. QED
      BY <2>1, <3>1 DEF Turns, Before
  <2>2. ASSUME finished = Forwarders, \A t \in Threads : pc[t] = "idle"
        PROVE  forwarded = received
    <3>1. \A i \in Forwarders : ready[i]
      BY <2>2 DEF NoneForgotten
    <3>2. {i \in Forwarders : buffering[i]} = {}
      <4> DEFINE B == {i \in Forwarders : buffering[i]}
      <4>1. SUFFICES ASSUME B # {}
                     PROVE  FALSE
        OBVIOUS
      <4>2. PICK i \in B : \A j \in B : i <= j
        BY <4>1, LeastElement, ForwarderFacts
      <4>3. i # 1 /\ ~previousReady[i]
        BY <2>2, <3>1 DEF NoneForgotten, Seen
      <4>4. i - 1 \in Forwarders /\ i - 1 < i /\ i - 1 < Length
        BY <4>3, ForwarderFacts DEF Forwarders
      <4>5. ~buffering[i - 1]
        BY <4>2, <4>4, ForwarderFacts
      <4>6. previousReady[(i - 1) + 1]
        BY <2>2, <4>4, <4>5 DEF NoneForgotten, Told
      <4>7. QED
        BY <4>3, <4>6, ForwarderFacts
    <3>3. \A i \in Forwarders : received[i] = results[i] + forwarded[i] /\ results[i] = 0
      BY <2>2, <3>2 DEF Counted, Flushing, TypeOK
    <3>4. \A i \in Forwarders : received[i] = forwarded[i]
      BY <3>3 DEF TypeOK
    <3>5. QED
      BY <3>4 DEF TypeOK
  <2>3. QED
    BY <2>1, <2>2 DEF ForwardedInTurn
<1>4. QED
  BY <1>1, <1>2, <1>3, Typing, PTL DEF Spec

=============================================================================
