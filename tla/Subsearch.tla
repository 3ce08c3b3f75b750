----------------------------- MODULE Subsearch ------------------------------
(***************************************************************************)
(* SearchQueryBaseImpl: the queries that aggregating scopes send on to     *)
(* other scopes, the history by which a query that comes round to the same *)
(* aggregator is recognised, the forwarding of cancel(), and the           *)
(* permission to pass the location on.                                     *)
(*                                                                         *)
(* A query is a number; query 1 comes from the client.  Every scope is an  *)
(* aggregator that may ask any scope.  A query string, with department,    *)
(* filters, user data and metadata, is a member of Details.                *)
(***************************************************************************)
EXTENDS Integers, FiniteSets, FiniteSetTheorems, TLAPS

CONSTANTS
    Scopes,       \* the scopes
    Client,       \* the client of query 1
    Details,      \* what makes two queries to the same scope different
    MaxQueries,   \* bound: queries
    MaxEdits      \* bound: changes of the settings file

VARIABLES
    queries,      \* the SearchQueryBaseImpl of each query
    calls,        \* the subsearch() that a thread of a query is in
    toCancel,     \* the queries that a cancel message is on its way to
    settings,     \* the settings.ini of the children
    perms,        \* filter_metadata()::perms
    past          \* history: the children remembered after a cancel()

vars == <<queries, calls, toCancel, settings, perms, past>>

(* A query: its scope and its client, history_, valid_ and subqueries_,    *)
(* the query that sent it, all the queries on the way to it, as which      *)
(* tuple it was sent, and whether it got a location.                       *)
NewQuery(scope, client, history, parent, line, asked, location) ==
    [scope |-> scope, client |-> client, history |-> history, valid |-> TRUE,
     subqueries |-> {}, parent |-> parent, line |-> line, asked |-> asked,
     location |-> location]

NoCall == [pc |-> "idle", child |-> Client, details |-> Client,
           permitted |-> TRUE, query |-> 0]
NoEntry == [time |-> 0, perm |-> FALSE]

Queries == DOMAIN queries
Add(q) == [i \in 1..(Cardinality(Queries) + 1) |->
              IF i \in Queries THEN queries[i] ELSE q]

Init ==
    /\ \E s \in Scopes : queries = [i \in {1} |-> NewQuery(s, Client, {}, 0, {}, <<>>, TRUE)]
    /\ calls = [i \in 1..MaxQueries |-> NoCall]
    /\ toCancel = {}
    /\ \E p \in BOOLEAN : settings = [time |-> 1, perm |-> p]
    /\ perms = NoEntry
    /\ past = {}

At(q, label) == q \in Queries /\ calls[q].pc = label
Goto(q, label) == calls' = [calls EXCEPT ![q].pc = label]

-----------------------------------------------------------------------------
(* The tuple that check_for_query_loop() looks for: the client, the        *)
(* aggregator, the receiver and the details.                               *)
Tuple(q, s, d) == <<queries[q].client, queries[q].scope, s, d>>

(* Mutant: the tuple is only looked for, never remembered.                 *)
CheckOnly(q) ==
    /\ At(q, "idle")
    /\ \E s \in Scopes, d \in Details :
          /\ Tuple(q, s, d) \notin queries[q].history
          /\ calls' = [calls EXCEPT ![q] =
                [NoCall EXCEPT !.pc = "filter", !.child = s, !.details = d]]
          /\ UNCHANGED queries
    /\ UNCHANGED <<toCancel, settings, perms, past>>

(* subsearch(), with check_for_query_loop() under mutex_.  When the query  *)
(* has been here before, the listener is told that it has finished, and    *)
(* nothing is sent.                                                        *)
CheckForQueryLoop(q) ==
    /\ At(q, "idle")
    /\ \E s \in Scopes, d \in Details :
          IF Tuple(q, s, d) \in queries[q].history
          THEN UNCHANGED <<queries, calls>>
          ELSE /\ queries' = [queries EXCEPT ![q].history = @ \cup {Tuple(q, s, d)}]
               /\ calls' = [calls EXCEPT ![q] =
                     [NoCall EXCEPT !.pc = "filter", !.child = s, !.details = d]]
    /\ UNCHANGED <<toCancel, settings, perms, past>>

(* filter_metadata(): no location, a hit in the cache, or the file is read.*)
FilterMetadata(q) ==
    /\ At(q, "filter")
    /\ LET hit == perms.time = settings.time
           permitted == IF hit THEN perms.perm ELSE settings.perm
       IN  IF queries[q].location /\ ~hit
           THEN calls' = [calls EXCEPT ![q].pc = "store", ![q].permitted = permitted]
           ELSE calls' = [calls EXCEPT ![q].pc = "search", ![q].permitted = permitted]
    /\ UNCHANGED <<queries, toCancel, settings, perms, past>>

(* filter_metadata(): the write time of the file is read (again), and      *)
(* perms.insert(), which leaves an entry that is already there alone.      *)
StorePermission(q) ==
    /\ At(q, "store")
    /\ perms' = IF perms = NoEntry
                THEN [time |-> settings.time, perm |-> calls[q].permitted]
                ELSE perms
    /\ Goto(q, "search")
    /\ UNCHANGED <<queries, toCancel, settings, past>>

(* scope_impl->search() with a copy of the history.                        *)
Search(q) ==
    /\ At(q, "search")
    /\ Cardinality(Queries) < MaxQueries
    /\ queries' = Add(NewQuery(calls[q].child, queries[q].scope,
                               queries[q].history, q, queries[q].line \cup {q},
                               Tuple(q, calls[q].child, calls[q].details),
                               queries[q].location /\ calls[q].permitted))
    /\ calls' = [calls EXCEPT ![q].pc = "remember",
                              ![q].query = Cardinality(Queries) + 1]
    /\ UNCHANGED <<toCancel, settings, perms, past>>

(* subqueries_.push_back(), under mutex_.                                  *)
Remember(q) ==
    /\ At(q, "remember")
    /\ queries' = [queries EXCEPT ![q].subqueries = @ \cup {calls[q].query}]
    /\ past' = IF queries[q].valid THEN past ELSE past \cup {calls[q].query}
    /\ calls' = [calls EXCEPT ![q] = NoCall]
    /\ UNCHANGED <<toCancel, settings, perms>>

-----------------------------------------------------------------------------
(* The client cancels query 1.                                             *)
ClientCancels ==
    /\ queries[1].valid
    /\ toCancel' = toCancel \cup {1}
    /\ UNCHANGED <<queries, calls, settings, perms, past>>

(* Mutant: a cancel() leaves the subqueries to their own devices.          *)
CancelAlone(q) ==
    /\ q \in toCancel
    /\ queries' = [queries EXCEPT ![q].valid = FALSE, ![q].subqueries = {}]
    /\ toCancel' = toCancel \ {q}
    /\ UNCHANGED <<calls, settings, perms, past>>

(* cancel(): the first one is forwarded to the subqueries, under mutex_.   *)
Cancel(q) ==
    /\ q \in toCancel
    /\ IF queries[q].valid
       THEN /\ queries' = [queries EXCEPT ![q].valid = FALSE, ![q].subqueries = {}]
            /\ toCancel' = (toCancel \ {q}) \cup queries[q].subqueries
       ELSE /\ toCancel' = toCancel \ {q}
            /\ UNCHANGED queries
    /\ UNCHANGED <<calls, settings, perms, past>>

(* The user changes the permission of the child scopes.                    *)
Edit ==
    /\ settings.time <= MaxEdits
    /\ settings' = [time |-> settings.time + 1, perm |-> ~settings.perm]
    /\ UNCHANGED <<queries, calls, toCancel, perms, past>>

Next ==
    \/ \E q \in Queries :
          \/ CheckForQueryLoop(q) \/ FilterMetadata(q) \/ StorePermission(q)
          \/ Search(q) \/ Remember(q) \/ Cancel(q)
    \/ ClientCancels
    \/ Edit

Spec == Init /\ [][Next]_vars

-----------------------------------------------------------------------------
Children(q) == {c \in Queries : queries[c].parent = q}

(* On the way from the client to any query, no aggregator is asked twice   *)
(* by the same client to ask the same scope the same question, so that     *)
(* queries do not go round for ever (check_for_query_loop()).              *)
NoQueryLoop ==
    \A q \in Queries : \A a \in queries[q].line : queries[a].asked # queries[q].asked

(* A cancelled query has cancelled all its subqueries but those whose      *)
(* subsearch() was under way when cancel() came, or came after it.         *)
CancelForwarded ==
    \A q \in Queries : ~queries[q].valid =>
       \A c \in Children(q) :
          \/ c \in toCancel \/ ~queries[c].valid
          \/ c \in past \/ calls[q].query = c

(* SearchQueryBase.h: "subsearch() takes care of automatically forwarding  *)
(* query cancellation to child scopes."                                    *)
CancelReachesChildren ==
    \A q \in Queries : ~queries[q].valid /\ calls[q] = NoCall =>
       \A c \in Children(q) : c \in toCancel \/ ~queries[c].valid

(* SearchQueryBaseImpl.cpp: filter_metadata() returns "a copy of the       *)
(* metadata without location information if the scope isn't alloweed to    *)
(* get location data": what the cache says of a file that has not changed  *)
(* since is what the file says.                                            *)
PermissionIsCurrent ==
    perms.time = settings.time => perms.perm = settings.perm

-----------------------------------------------------------------------------
(* Proofs, for any scopes and details and any number of queries.           *)

(***************************************************************************)
(* The proofs of NoQueryLoop and CancelForwarded, for any scopes, details  *)
(* and number of queries.                                                  *)
(***************************************************************************)
Labels == {"idle", "filter", "store", "search", "remember"}
Askers == Scopes \cup {Client}
Tuples == Askers \X Scopes \X Scopes \X Details
Query == [scope : Scopes, client : Askers, history : SUBSET Tuples, valid : BOOLEAN,
          subqueries : SUBSET Nat, parent : Nat, line : SUBSET Nat,
          asked : Tuples \cup {<<>>}, location : BOOLEAN]
Call == [pc : Labels, child : Askers, details : Details \cup {Client},
         permitted : BOOLEAN, query : Nat]

(* Query q is in subsearch() and has not yet sent its question.            *)
Busy(q) == calls[q].pc \in {"filter", "store", "search"}

(* The types; queries are numbered from 1, and a number without a query    *)
(* has no call.                                                            *)
TypeOK ==
    /\ \E n \in 1..MaxQueries : queries \in [1..n -> Query]
    /\ calls \in [1..MaxQueries -> Call]
    /\ settings \in [time : Nat, perm : BOOLEAN]
    /\ perms \in [time : Nat, perm : BOOLEAN]
    /\ \A q \in 1..MaxQueries : Busy(q) =>
          calls[q].child \in Scopes /\ calls[q].details \in Details
    /\ \A q \in (1..MaxQueries) \ Queries : calls[q] = NoCall

(* What query q is about to ask.                                           *)
Asking(q) == Tuple(q, calls[q].child, calls[q].details)

(* The inductive invariant of NoQueryLoop: history_ holds all that was     *)
(* asked on the way to a query, and what is about to be asked was not.     *)
Remembered ==
    /\ queries[1].asked = <<>>
    /\ \A q \in Queries : queries[q].line \subseteq Queries
    /\ \A q \in Queries : \A a \in queries[q].line \cup {q} :
          a # 1 => queries[a].asked \in queries[q].history
    /\ \A q \in Queries : Busy(q) =>
          /\ Asking(q) \in queries[q].history
          /\ \A a \in queries[q].line \cup {q} : queries[a].asked # Asking(q)
    /\ NoQueryLoop

(* The inductive invariant of CancelForwarded: a valid query knows its     *)
(* subqueries, but for the one that subsearch() is about to push_back().   *)
Known ==
    /\ \A q \in Queries : calls[q].query \in Queries \cup {0}
    /\ \A q \in Queries : calls[q].pc # "remember" => calls[q].query = 0
    /\ \A q, c \in Queries : queries[c].parent = q /\ queries[q].valid =>
          c \in queries[q].subqueries \/ calls[q].query = c
    /\ \A c \in Queries : queries[c].parent \in Queries \cup {0}
    /\ CancelForwarded

-----------------------------------------------------------------------------
(* A new query (the SearchQueryBaseImpl of a search()) has the type of     *)
(* queries, and the fields it was given.                                   *)
LEMMA NewQueryType ==
    ASSUME NEW s \in Scopes, NEW c \in Askers, NEW h \in SUBSET Tuples, NEW p \in Nat,
           NEW l \in SUBSET Nat, NEW a \in Tuples \cup {<<>>}, NEW loc \in BOOLEAN
    PROVE  /\ NewQuery(s, c, h, p, l, a, loc) \in Query
           /\ NewQuery(s, c, h, p, l, a, loc).history = h
           /\ NewQuery(s, c, h, p, l, a, loc).valid
           /\ NewQuery(s, c, h, p, l, a, loc).subqueries = {}
           /\ NewQuery(s, c, h, p, l, a, loc).parent = p
           /\ NewQuery(s, c, h, p, l, a, loc).line = l
           /\ NewQuery(s, c, h, p, l, a, loc).asked = a
  BY DEF NewQuery, Query

(* The changes that subsearch() and cancel() make to a query keep its type.*)
LEMMA QueryUpdates ==
    ASSUME NEW r \in Query, NEW h \in SUBSET Tuples, NEW v \in BOOLEAN,
           NEW n \in SUBSET Nat
    PROVE  /\ [r EXCEPT !.history = h] \in Query
           /\ [r EXCEPT !.subqueries = n] \in Query
           /\ [r EXCEPT !.valid = v, !.subqueries = n] \in Query
  BY DEF Query

(* The changes that subsearch() makes on its way keep the type of a call:  *)
(* to the next line, ...                                                   *)
LEMMA CallMoves ==
    ASSUME NEW c \in Call, NEW l \in Labels
    PROVE  /\ [c EXCEPT !.pc = l] \in Call
           /\ [c EXCEPT !.pc = l].child = c.child
           /\ [c EXCEPT !.pc = l].details = c.details
           /\ [c EXCEPT !.pc = l].query = c.query
           /\ [c EXCEPT !.pc = l].pc = l
  BY DEF Call

(* ... with the permission that filter_metadata() found, ...               *)
LEMMA CallPermits ==
    ASSUME NEW c \in Call, NEW l \in Labels, NEW p \in BOOLEAN
    PROVE  /\ [c EXCEPT !.pc = l, !.permitted = p] \in Call
           /\ [c EXCEPT !.pc = l, !.permitted = p].child = c.child
           /\ [c EXCEPT !.pc = l, !.permitted = p].details = c.details
           /\ [c EXCEPT !.pc = l, !.permitted = p].query = c.query
           /\ [c EXCEPT !.pc = l, !.permitted = p].pc = l
  BY DEF Call

(* ... and with the query that search() returned.                          *)
LEMMA CallAsks ==
    ASSUME NEW c \in Call, NEW l \in Labels, NEW n \in Nat
    PROVE  /\ [c EXCEPT !.pc = l, !.query = n] \in Call
           /\ [c EXCEPT !.pc = l, !.query = n].query = n
           /\ [c EXCEPT !.pc = l, !.query = n].pc = l
  BY DEF Call

(* No call is a call, and asks nothing.                                    *)
LEMMA NoCallType == NoCall \in Call /\ NoCall.pc = "idle" /\ NoCall.query = 0
  BY DEF NoCall, Call, Labels, Askers

(* The queries are numbered from 1, and Add() gives the next number.       *)
LEMMA Numbered ==
    ASSUME NEW n \in Nat, queries \in [1..n -> Query]
    PROVE  /\ Queries = 1..n /\ Cardinality(Queries) = n
           /\ \A q \in Query : /\ Add(q) \in [1..(n + 1) -> Query]
                               /\ Add(q)[n + 1] = q
                               /\ \A i \in 1..n : Add(q)[i] = queries[i]
<1>1. Queries = 1..n
  BY DEF Queries
<1>2. Cardinality(Queries) = n
  BY <1>1, FS_Interval
<1>3. QED
  BY <1>1, <1>2 DEF Add

(* The variables have their types in every reachable state.                *)
LEMMA Typing ==
    ASSUME MaxQueries \in Nat \ {0}
    PROVE  Spec => []TypeOK
<1>1. Init => TypeOK
  <2> SUFFICES ASSUME Init
               PROVE  TypeOK
    OBVIOUS
  <2>1. PICK s \in Scopes : queries = [i \in {1} |-> NewQuery(s, Client, {}, 0, {}, <<>>, TRUE)]
    BY DEF Init
  <2>2. NewQuery(s, Client, {}, 0, {}, <<>>, TRUE) \in Query
    BY NewQueryType, ZenonT(30) DEF Askers
  <2> DEFINE first == NewQuery(s, Client, {}, 0, {}, <<>>, TRUE)
  <2> HIDE DEF first
  <2>3. /\ queries \in [1..1 -> Query] /\ 1 \in 1..MaxQueries
        /\ Queries = {1}
    <3>1. 1..1 = {1} /\ 1 \in 1..MaxQueries
      OBVIOUS
    <3>2. queries = [i \in {1} |-> first] /\ first \in Query
      BY <2>1, <2>2 DEF first
    <3>3. QED
      BY <3>1, <3>2 DEF Queries
  <2>4. calls \in [1..MaxQueries -> Call] /\ \A q \in 1..MaxQueries : calls[q].pc = "idle"
    BY DEF Init, NoCall, Call, Labels, Askers
  <2>5. QED
    <3>1. settings \in [time : Nat, perm : BOOLEAN] /\ perms \in [time : Nat, perm : BOOLEAN]
      BY DEF Init, NoEntry
    <3>2. QED
      BY <2>3, <2>4, <3>1 DEF TypeOK, Busy, Init
<1>2. TypeOK /\ [Next]_vars => TypeOK'
  <2> SUFFICES ASSUME TypeOK, [Next]_vars
               PROVE  TypeOK'
    OBVIOUS
  <2>0. PICK n \in 1..MaxQueries : queries \in [1..n -> Query]
    BY DEF TypeOK
  <2>n. n \in Nat /\ Queries = 1..n /\ Queries \subseteq 1..MaxQueries
    <3>1. n \in Nat /\ 1..n \subseteq 1..MaxQueries
      OBVIOUS
    <3>2. QED
      BY <2>0, <3>1, Numbered, SMTT(60)
  <2>c. \A q \in 1..MaxQueries : calls[q] \in Call
    BY DEF TypeOK
  <2>l. {"store", "search", "remember"} \subseteq Labels
    BY DEF Labels
  <2> USE DEF At, Goto
  <2>1. ASSUME NEW q \in Queries, CheckForQueryLoop(q)
        PROVE  TypeOK'
    <3>1. PICK s \in Scopes, d \in Details :
             IF Tuple(q, s, d) \in queries[q].history
             THEN UNCHANGED <<queries, calls>>
             ELSE /\ queries' = [queries EXCEPT ![q].history = @ \cup {Tuple(q, s, d)}]
                  /\ calls' = [calls EXCEPT ![q] =
                        [NoCall EXCEPT !.pc = "filter", !.child = s, !.details = d]]
      BY <2>1 DEF CheckForQueryLoop
    <3>2. Tuple(q, s, d) \in Tuples
      BY <2>0, <2>n DEF Tuple, Tuples, Query
    <3>3. queries' \in [1..n -> Query]
      <4>1. [queries[q] EXCEPT !.history = queries[q].history \cup {Tuple(q, s, d)}] \in Query
        <5>1. queries[q] \in Query /\ queries[q].history \in SUBSET Tuples
          BY <2>0, <2>n DEF Query
        <5>2. QED
          BY <3>2, <5>1, QueryUpdates
      <4>2. QED
        BY <2>0, <2>n, <3>1, <4>1
    <3>4. [NoCall EXCEPT !.pc = "filter", !.child = s, !.details = d] \in Call
      BY DEF NoCall, Call, Labels, Askers
    <3>5. calls' \in [1..MaxQueries -> Call]
      BY <2>n, <3>1, <3>4, SMTT(30) DEF TypeOK
    <3>7. Queries' = Queries
      BY <2>0, <3>3 DEF Queries
    <3>6. /\ \A i \in 1..MaxQueries : Busy(i)' =>
                calls'[i].child \in Scopes /\ calls'[i].details \in Details
          /\ \A i \in (1..MaxQueries) \ Queries : calls'[i] = NoCall
      <4>1. CASE Tuple(q, s, d) \in queries[q].history
        BY <3>1, <3>7, <4>1 DEF TypeOK, Busy
      <4>2. CASE Tuple(q, s, d) \notin queries[q].history
        <5>1. calls' = [calls EXCEPT ![q] =
                  [NoCall EXCEPT !.pc = "filter", !.child = s, !.details = d]]
          BY <3>1, <4>2
        <5>2. /\ calls'[q].child \in Scopes /\ calls'[q].details \in Details
              /\ \A i \in (1..MaxQueries) \ {q} : calls'[i] = calls[i]
          BY <2>n, <5>1 DEF TypeOK, NoCall
        <5>3. QED
          BY <5>2, <3>7 DEF TypeOK, Busy
      <4>3. QED
        BY <4>1, <4>2
    <3>8. QED
      BY <2>1, <3>3, <3>5, <3>6, <3>7 DEF TypeOK, CheckForQueryLoop
  <2>2. ASSUME NEW q \in Queries, FilterMetadata(q)
        PROVE  TypeOK'
    <3>1. PICK p \in BOOLEAN, l \in {"store", "search"} :
             calls' = [calls EXCEPT ![q] = [calls[q] EXCEPT !.pc = l, !.permitted = p]]
      <4>1. perms.perm \in BOOLEAN /\ settings.perm \in BOOLEAN
        BY DEF TypeOK
      <4>2. QED
        BY <2>2, <4>1, ZenonT(30) DEF FilterMetadata
    <3>2. /\ [calls[q] EXCEPT !.pc = l, !.permitted = p] \in Call
          /\ [calls[q] EXCEPT !.pc = l, !.permitted = p].child = calls[q].child
          /\ [calls[q] EXCEPT !.pc = l, !.permitted = p].details = calls[q].details
      <4>1. calls[q] \in Call /\ l \in Labels
        BY <2>n, <2>c, <2>l
      <4>2. [calls[q] EXCEPT !.pc = l, !.permitted = p] \in Call
        BY <4>1, CallPermits, Zenon
      <4>3. QED
        BY <4>1, <4>2 DEF Call
    <3>3. /\ calls' \in [1..MaxQueries -> Call]
          /\ calls'[q].child = calls[q].child /\ calls'[q].details = calls[q].details
          /\ \A i \in (1..MaxQueries) \ {q} : calls'[i] = calls[i]
      BY <2>n, <3>1, <3>2 DEF TypeOK
    <3>4. QED
      BY <2>2, <3>3, ZenonT(30) DEF FilterMetadata, TypeOK, Queries, Busy
  <2>3. ASSUME NEW q \in Queries, StorePermission(q)
        PROVE  TypeOK'
    <3>1. calls' = [calls EXCEPT ![q] = [calls[q] EXCEPT !.pc = "search"]]
      BY <2>3 DEF StorePermission
    <3>2. /\ [calls[q] EXCEPT !.pc = "search"] \in Call
          /\ [calls[q] EXCEPT !.pc = "search"].child = calls[q].child
          /\ [calls[q] EXCEPT !.pc = "search"].details = calls[q].details
      BY <2>n, <2>c, <2>l, CallMoves
    <3>3. /\ calls' \in [1..MaxQueries -> Call]
          /\ calls'[q].child = calls[q].child /\ calls'[q].details = calls[q].details
          /\ \A i \in (1..MaxQueries) \ {q} : calls'[i] = calls[i]
      BY <2>n, <3>1, <3>2 DEF TypeOK
    <3>4. perms' \in [time : Nat, perm : BOOLEAN]
      BY <2>3, <2>n, SMTT(30) DEF StorePermission, TypeOK, Call
    <3>5. QED
      BY <2>3, <3>3, <3>4 DEF StorePermission, TypeOK, Queries, Busy
  <2>4. ASSUME NEW q \in Queries, Search(q)
        PROVE  TypeOK'
    <3> DEFINE new == NewQuery(calls[q].child, queries[q].scope, queries[q].history, q,
                               queries[q].line \cup {q},
                               Tuple(q, calls[q].child, calls[q].details),
                               queries[q].location /\ calls[q].permitted)
    <3>1. queries[q] \in Query /\ calls[q] \in Call /\ q \in Nat
      BY <2>0, <2>n DEF TypeOK
    <3>2. calls[q].child \in Scopes /\ calls[q].details \in Details
      BY <2>4, <2>n DEF TypeOK, Search, Busy
    <3>3. new \in Query
      <4>1. Tuple(q, calls[q].child, calls[q].details) \in Tuples
        BY <3>1, <3>2 DEF Tuple, Tuples, Query
      <4>2. /\ queries[q].scope \in Askers /\ queries[q].history \in SUBSET Tuples
            /\ queries[q].line \cup {q} \in SUBSET Nat
            /\ (queries[q].location /\ calls[q].permitted) \in BOOLEAN
        BY <3>1 DEF Query, Askers
      <4>3. QED
        BY <3>1, <3>2, <4>1, <4>2, NewQueryType
    <3> HIDE DEF new
    <3>4. /\ queries' = Add(new) /\ n < MaxQueries
          /\ calls' = [calls EXCEPT ![q] = [calls[q] EXCEPT !.pc = "remember", !.query = n + 1]]
      BY <2>0, <2>4, <2>n, Numbered, ZenonT(30) DEF Search, new
    <3>5. queries' \in [1..(n + 1) -> Query] /\ n + 1 \in 1..MaxQueries
      BY <2>0, <2>n, <3>3, <3>4, Numbered
    <3>n. n + 1 \in Nat
      OBVIOUS
    <3>6. Queries' = 1..(n + 1)
      BY <3>5 DEF Queries
    <3>7. calls' \in [1..MaxQueries -> Call]
      <4>1. [calls[q] EXCEPT !.pc = "remember", !.query = n + 1] \in Call
        <5>1. "remember" \in Labels
          BY <2>l
        <5>2. QED
          BY <3>1, <3>n, <5>1, CallAsks, Zenon
      <4>2. QED
        BY <2>n, <3>4, <4>1 DEF TypeOK
    <3>8. /\ calls'[q].pc = "remember"
          /\ \A i \in (1..MaxQueries) \ {q} : calls'[i] = calls[i]
      <4>1. [calls[q] EXCEPT !.pc = "remember", !.query = n + 1].pc = "remember"
        BY <3>1, <3>n DEF Call
      <4>2. QED
        BY <2>n, <3>4, <4>1 DEF TypeOK
    <3>9. /\ \A i \in 1..MaxQueries : Busy(i)' =>
                calls'[i].child \in Scopes /\ calls'[i].details \in Details
          /\ \A i \in (1..MaxQueries) \ Queries' : calls'[i] = NoCall
      <4>1. (1..MaxQueries) \ Queries' \subseteq ((1..MaxQueries) \ Queries) \ {q}
        BY <2>n, <3>6
      <4>2. QED
        BY <3>8, <4>1, SMTT(60) DEF TypeOK, Busy
    <3>10. QED
      BY <2>4, <3>5, <3>7, <3>9 DEF Search, TypeOK
  <2>5. ASSUME NEW q \in Queries, Remember(q)
        PROVE  TypeOK'
    <3>1. queries[q] \in Query /\ calls[q] \in Call
      BY <2>0, <2>n DEF TypeOK
    <3>2. queries' = [queries EXCEPT ![q] = [queries[q] EXCEPT !.subqueries =
                         queries[q].subqueries \cup {calls[q].query}]]
      BY <2>5 DEF Remember
    <3>3. queries[q].subqueries \cup {calls[q].query} \in SUBSET Nat
      BY <3>1, SMTT(30) DEF Query, Call
    <3>4. queries' \in [1..n -> Query]
      BY <2>0, <2>n, <3>1, <3>2, <3>3, QueryUpdates DEF Query
    <3>6. calls' = [calls EXCEPT ![q] = NoCall] /\ UNCHANGED <<settings, perms>>
      BY <2>5 DEF Remember
    <3>7. Queries' = Queries
      BY <2>0, <3>4 DEF Queries
    <3>8. QED
      BY <2>n, <3>4, <3>6, <3>7, NoCallType DEF TypeOK, Busy
  <2>6. ASSUME NEW q \in Queries, Cancel(q)
        PROVE  TypeOK'
    <3>1. queries' \in [1..n -> Query]
      <4>1. queries[q] \in Query
        BY <2>0, <2>n
      <4>2. [queries[q] EXCEPT !.valid = FALSE, !.subqueries = {}] \in Query
        BY <4>1, QueryUpdates
      <4>3. QED
        BY <2>0, <2>6, <2>n, <4>2 DEF Cancel
    <3>2. Queries' = Queries
      BY <2>0, <3>1 DEF Queries
    <3>3. QED
      BY <2>6, <3>1, <3>2 DEF Cancel, TypeOK, Busy
  <2>7. CASE ClientCancels
    BY <2>7 DEF ClientCancels, TypeOK, Queries, Busy
  <2>8. CASE Edit
    BY <2>8 DEF Edit, TypeOK, Queries, Busy
  <2>9. CASE UNCHANGED vars
    BY <2>9 DEF vars, TypeOK, Queries, Busy
  <2>10. QED
    BY <2>1, <2>2, <2>3, <2>4, <2>5, <2>6, <2>7, <2>8, <2>9 DEF Next
<1>3. QED
  BY <1>1, <1>2, PTL DEF Spec

(* What no step changes: who asked a query what, and on which way it came. *)
Identity(q) == <<queries[q].scope, queries[q].client, queries[q].asked, queries[q].line,
                 queries[q].parent>>

(* A step that changes query q in history_, valid_ and subqueries_ only.   *)
Updated(q, h, v, u) ==
    /\ Queries' = Queries
    /\ \A i \in Queries : Identity(i)' = Identity(i)
    /\ \A i \in Queries \ {q} : queries'[i] = queries[i]
    /\ queries'[q].history = h
    /\ queries'[q].valid = v
    /\ queries'[q].subqueries = u

(* subsearch() and cancel() change queries in no other way.                *)
LEMMA Updates ==
    ASSUME TypeOK, NEW q \in Queries, NEW h, NEW v, NEW u
    PROVE  /\ queries' = [queries EXCEPT ![q].history = h] =>
                Updated(q, h, queries[q].valid, queries[q].subqueries)
           /\ queries' = [queries EXCEPT ![q].subqueries = u] =>
                Updated(q, queries[q].history, queries[q].valid, u)
           /\ queries' = [queries EXCEPT ![q].valid = v, ![q].subqueries = u] =>
                Updated(q, queries[q].history, v, u)
<1>1. PICK n \in 1..MaxQueries : queries \in [1..n -> Query]
  BY DEF TypeOK
<1>2. Queries = 1..n /\ queries \in [Queries -> Query]
  BY <1>1 DEF Queries
<1>3. ASSUME queries' = [queries EXCEPT ![q].history = h]
      PROVE  Updated(q, h, queries[q].valid, queries[q].subqueries)
  BY <1>2, <1>3 DEF Queries, Identity, Query, Updated
<1>4. ASSUME queries' = [queries EXCEPT ![q].subqueries = u]
      PROVE  Updated(q, queries[q].history, queries[q].valid, u)
  BY <1>2, <1>4 DEF Queries, Identity, Query, Updated
<1>5. ASSUME queries' = [queries EXCEPT ![q].valid = v, ![q].subqueries = u]
      PROVE  Updated(q, queries[q].history, v, u)
  BY <1>2, <1>5 DEF Queries, Identity, Query, Updated
<1>6. QED
  BY <1>3, <1>4, <1>5

(* search() adds one query, with a copy of the history of the query that   *)
(* sent it, and leaves the others as they are.                             *)
LEMMA Added ==
    ASSUME MaxQueries \in Nat \ {0}, TypeOK, NEW q \in Queries, Search(q)
    PROVE  \E new \in (1..MaxQueries) \ Queries :
           /\ new # 1
           /\ Queries' = Queries \cup {new}
           /\ \A i \in Queries : queries'[i] = queries[i]
           /\ queries'[new].history = queries[q].history
           /\ queries'[new].line = queries[q].line \cup {q}
           /\ queries'[new].asked = Asking(q)
           /\ queries'[new].parent = q
           /\ queries'[new].valid
           /\ queries'[new].subqueries = {}
           /\ calls'[new] = NoCall
           /\ calls'[q].pc = "remember" /\ calls'[q].query = new
           /\ \A i \in (1..MaxQueries) \ {q} : calls'[i] = calls[i]
<1>1. PICK n \in 1..MaxQueries : queries \in [1..n -> Query]
  BY DEF TypeOK
<1>2. n \in Nat /\ Queries = 1..n /\ Queries \subseteq 1..MaxQueries /\ Cardinality(Queries) = n
  <2>1. n \in Nat /\ 1..n \subseteq 1..MaxQueries
    OBVIOUS
  <2>2. QED
    BY <1>1, <2>1, Numbered
<1>3. n < MaxQueries
  BY <1>2 DEF Search
<1>4. n + 1 \notin Queries /\ n + 1 \in 1..MaxQueries /\ n + 1 # 1 /\ 1..(n + 1) = Queries \cup {n + 1}
  BY <1>2, <1>3
<1> DEFINE r == NewQuery(calls[q].child, queries[q].scope, queries[q].history, q,
                         queries[q].line \cup {q},
                         Tuple(q, calls[q].child, calls[q].details),
                         queries[q].location /\ calls[q].permitted)
<1>5. queries' = [i \in 1..(n + 1) |-> IF i \in Queries THEN queries[i] ELSE r]
  BY <1>2 DEF Search, Add
<1>6. /\ r.history = queries[q].history
      /\ r.line = queries[q].line \cup {q}
      /\ r.asked = Asking(q)
      /\ r.parent = q
      /\ r.valid
      /\ r.subqueries = {}
  BY DEF NewQuery, Asking
<1> HIDE DEF r
<1>7. /\ Queries' = Queries \cup {n + 1}
      /\ \A i \in Queries : queries'[i] = queries[i]
      /\ queries'[n + 1] = r
  BY <1>4, <1>5 DEF Queries
<1>8. calls[n + 1] = NoCall
  BY <1>4 DEF TypeOK
<1>9. /\ calls'[q].pc = "remember" /\ calls'[q].query = n + 1
      /\ \A i \in (1..MaxQueries) \ {q} : calls'[i] = calls[i]
  <2>1. calls[q] \in Call /\ q \in 1..MaxQueries
    BY <1>2 DEF TypeOK
  <2>2. calls' = [calls EXCEPT ![q] = [calls[q] EXCEPT !.pc = "remember", !.query = n + 1]]
    BY <1>2 DEF Search
  <2>3. QED
    BY <2>1, <2>2 DEF TypeOK, Call
<1>10. calls'[n + 1] = NoCall
  BY <1>4, <1>8, <1>9
<1>11. QED
  BY <1>4, <1>6, <1>7, <1>9, <1>10


(* Every step keeps the history complete: check_for_query_loop() puts what *)
(* it lets pass into history_ before anything is sent.                     *)
LEMMA RememberedKept ==
    ASSUME MaxQueries \in Nat \ {0}, TypeOK, Remembered, [Next]_vars
    PROVE  Remembered'
<1>0. Queries \subseteq 1..MaxQueries /\ 1 \in Queries
  <2>1. PICK n \in 1..MaxQueries : queries \in [1..n -> Query]
    BY DEF TypeOK
  <2>2. Queries = 1..n /\ n \in 1..MaxQueries /\ n \in Nat
    BY <2>1 DEF Queries
  <2>3. QED
    BY <2>2
<1>t. \A q \in Queries, s \in Scopes, d \in Details : Tuple(q, s, d) # <<>>
  BY DEF Tuple
<1>q. ASSUME Queries' = Queries,
             \A i \in Queries : Identity(i)' = Identity(i) /\ queries'[i].history = queries[i].history,
             \A i \in Queries : Busy(i)' =>
                Busy(i) /\ calls'[i].child = calls[i].child /\ calls'[i].details = calls[i].details
      PROVE  Remembered'
  <2>1. \A i \in Queries : /\ queries'[i].asked = queries[i].asked
                           /\ queries'[i].line = queries[i].line
                           /\ queries'[i].scope = queries[i].scope
                           /\ queries'[i].client = queries[i].client
    BY <1>q DEF Identity
  <2>2. \A i \in Queries : Busy(i)' => Busy(i) /\ Asking(i)' = Asking(i)
    BY <1>q, <2>1 DEF Asking, Tuple
  <2>3. \A i \in Queries : queries[i].line \subseteq Queries
    BY DEF Remembered
  <2>4. /\ queries'[1].asked = <<>>
        /\ \A i \in Queries' : queries'[i].line \subseteq Queries'
    BY <1>0, <1>q, <2>1 DEF Remembered
  <2>5. \A i \in Queries : \A a \in queries'[i].line \cup {i} :
           a # 1 => queries'[a].asked \in queries'[i].history
    BY <1>q, <2>1, <2>3 DEF Remembered
  <2>6. \A i \in Queries : Busy(i)' =>
           /\ Asking(i)' \in queries'[i].history
           /\ \A a \in queries'[i].line \cup {i} : queries'[a].asked # Asking(i)'
    BY <1>q, <2>1, <2>2, <2>3 DEF Remembered
  <2>7. \A i \in Queries : \A a \in queries'[i].line : queries'[a].asked # queries'[i].asked
    BY <2>1, <2>3 DEF Remembered, NoQueryLoop
  <2>8. QED
    BY <1>q, <2>4, <2>5, <2>6, <2>7 DEF Remembered, NoQueryLoop
<1>1. ASSUME NEW q \in Queries, CheckForQueryLoop(q)
      PROVE  Remembered'
  <2>1. PICK s \in Scopes, d \in Details :
           IF Tuple(q, s, d) \in queries[q].history
           THEN UNCHANGED <<queries, calls>>
           ELSE /\ queries' = [queries EXCEPT ![q].history = @ \cup {Tuple(q, s, d)}]
                /\ calls' = [calls EXCEPT ![q] =
                      [NoCall EXCEPT !.pc = "filter", !.child = s, !.details = d]]
    BY <1>1 DEF CheckForQueryLoop
  <2>2. CASE Tuple(q, s, d) \in queries[q].history
    <3>1. UNCHANGED <<queries, calls>>
      BY <2>1, <2>2
    <3>2. QED
      BY <3>1, <1>q DEF Queries, Identity, Busy
  <2>3. CASE Tuple(q, s, d) \notin queries[q].history
    <3>1. Updated(q, queries[q].history \cup {Tuple(q, s, d)}, queries[q].valid,
                  queries[q].subqueries)
      BY <2>1, <2>3, Updates
    <3>2. /\ calls'[q].child = s /\ calls'[q].details = d
          /\ \A i \in (1..MaxQueries) \ {q} : calls'[i] = calls[i]
      <4>1. calls' = [calls EXCEPT ![q] =
                [NoCall EXCEPT !.pc = "filter", !.child = s, !.details = d]]
        BY <2>1, <2>3
      <4>2. QED
        BY <1>0, <4>1 DEF TypeOK, NoCall
    <3>3. /\ Queries' = Queries
          /\ \A i \in Queries : /\ queries'[i].asked = queries[i].asked
                                /\ queries'[i].line = queries[i].line
                                /\ queries'[i].scope = queries[i].scope
                                /\ queries'[i].client = queries[i].client
                                /\ queries[i].history \subseteq queries'[i].history
          /\ Tuple(q, s, d) \in queries'[q].history
      BY <3>1 DEF Identity, Updated
    <3>4. Asking(q)' = Tuple(q, s, d)
      BY <3>2, <3>3 DEF Asking, Tuple
    <3>5. \A i \in Queries \ {q} : Busy(i)' => Busy(i) /\ Asking(i)' = Asking(i)
      BY <1>0, <3>2, <3>3 DEF Asking, Tuple, Busy
    <3>6. \A a \in queries[q].line \cup {q} : queries[a].asked # Tuple(q, s, d)
      BY <1>t, <2>3 DEF Remembered
    <3>7. \A i \in Queries : queries[i].line \subseteq Queries
      BY DEF Remembered
    <3>8. /\ queries'[1].asked = <<>>
          /\ \A i \in Queries' : queries'[i].line \subseteq Queries'
      BY <1>0, <3>3 DEF Remembered
    <3>9. \A i \in Queries : \A a \in queries'[i].line \cup {i} :
             a # 1 => queries'[a].asked \in queries'[i].history
      BY <3>3, <3>7 DEF Remembered
    <3>10. \A i \in Queries : Busy(i)' =>
              /\ Asking(i)' \in queries'[i].history
              /\ \A a \in queries'[i].line \cup {i} : queries'[a].asked # Asking(i)'
      <4>1. ASSUME NEW i \in Queries \ {q}, Busy(i)'
            PROVE  /\ Asking(i)' \in queries'[i].history
                   /\ \A a \in queries'[i].line \cup {i} : queries'[a].asked # Asking(i)'
        BY <3>3, <3>5, <3>7, <4>1 DEF Remembered
      <4>2. /\ Asking(q)' \in queries'[q].history
            /\ \A a \in queries'[q].line \cup {q} : queries'[a].asked # Asking(q)'
        BY <3>3, <3>4, <3>6, <3>7
      <4>3. QED
        BY <4>1, <4>2
    <3>11. \A i \in Queries : \A a \in queries'[i].line : queries'[a].asked # queries'[i].asked
      BY <3>3, <3>7 DEF Remembered, NoQueryLoop
    <3>12. QED
      BY <3>3, <3>8, <3>9, <3>10, <3>11 DEF Remembered, NoQueryLoop
  <2>4. QED
    BY <2>2, <2>3, SMTT(40)
<1>2. ASSUME NEW q \in Queries, FilterMetadata(q) \/ StorePermission(q)
      PROVE  Remembered'
  <2>1. calls[q] \in Call /\ calls \in [1..MaxQueries -> Call] /\ q \in 1..MaxQueries
    BY <1>0 DEF TypeOK
  <2>2. /\ calls'[q].child = calls[q].child /\ calls'[q].details = calls[q].details
        /\ \A i \in (1..MaxQueries) \ {q} : calls'[i] = calls[i]
    BY <1>2, <2>1 DEF FilterMetadata, StorePermission, Goto, Call
  <2>3. Busy(q) /\ UNCHANGED queries
    BY <1>2 DEF FilterMetadata, StorePermission, At, Busy
  <2>4. QED
    BY <1>0, <1>q, <2>2, <2>3 DEF Identity, Queries, Busy
<1>3. ASSUME NEW q \in Queries, Search(q)
      PROVE  Remembered'
  <2>1. PICK new \in (1..MaxQueries) \ Queries :
           /\ new # 1
           /\ Queries' = Queries \cup {new}
           /\ \A i \in Queries : queries'[i] = queries[i]
           /\ queries'[new].history = queries[q].history
           /\ queries'[new].line = queries[q].line \cup {q}
           /\ queries'[new].asked = Asking(q)
           /\ calls'[new] = NoCall
           /\ calls'[q].pc = "remember"
           /\ \A i \in (1..MaxQueries) \ {q} : calls'[i] = calls[i]
    BY <1>3, Added
  <2>2. Busy(q)
    BY <1>3 DEF Search, At, Busy
  <2>3. ~Busy(new)' /\ ~Busy(q)'
    BY <2>1, NoCallType DEF Busy
  <2>4. \A i \in Queries \ {q} : Busy(i)' => Busy(i) /\ Asking(i)' = Asking(i)
    BY <1>0, <2>1 DEF Busy, Asking, Tuple
  <2>5. /\ Asking(q) \in queries[q].history
        /\ \A a \in queries[q].line \cup {q} : queries[a].asked # Asking(q)
    BY <2>2 DEF Remembered
  <2>6. \A i \in Queries : \A a \in queries[i].line : a \in Queries
    BY DEF Remembered
  <2>7. /\ queries'[1].asked = <<>>
        /\ \A i \in Queries' : queries'[i].line \subseteq Queries'
    BY <1>0, <2>1, <2>6 DEF Remembered
  <2>8. \A i \in Queries' : \A a \in queries'[i].line \cup {i} :
           a # 1 => queries'[a].asked \in queries'[i].history
    <3>1. ASSUME NEW i \in Queries, NEW a \in queries[i].line \cup {i}, a # 1
          PROVE  queries'[a].asked \in queries'[i].history
      BY <2>1, <2>6, <3>1 DEF Remembered
    <3>2. ASSUME NEW a \in queries[q].line \cup {q}, a # 1
          PROVE  queries'[a].asked \in queries'[new].history
      BY <2>1, <2>6, <3>2 DEF Remembered
    <3>3. queries'[new].asked \in queries'[new].history
      BY <2>1, <2>5
    <3>4. QED
      BY <2>1, <3>1, <3>2, <3>3
  <2>9. \A i \in Queries' : Busy(i)' =>
           /\ Asking(i)' \in queries'[i].history
           /\ \A a \in queries'[i].line \cup {i} : queries'[a].asked # Asking(i)'
    <3>1. ASSUME NEW i \in Queries, Busy(i)'
          PROVE  /\ Asking(i)' \in queries'[i].history
                 /\ \A a \in queries'[i].line \cup {i} : queries'[a].asked # Asking(i)'
      BY <2>1, <2>3, <2>4, <2>6, <3>1 DEF Remembered
    <3>2. QED
      BY <2>1, <2>3, <3>1
  <2>10. \A i \in Queries' : \A a \in queries'[i].line : queries'[a].asked # queries'[i].asked
    <3>1. ASSUME NEW i \in Queries, NEW a \in queries[i].line
          PROVE  queries'[a].asked # queries'[i].asked
      BY <2>1, <2>6 DEF Remembered, NoQueryLoop
    <3>2. ASSUME NEW a \in queries[q].line \cup {q}
          PROVE  queries'[a].asked # queries'[new].asked
      BY <2>1, <2>5, <2>6
    <3>3. QED
      BY <2>1, <3>1, <3>2
  <2>11. QED
    BY <2>7, <2>8, <2>9, <2>10 DEF Remembered, NoQueryLoop
<1>4. ASSUME NEW q \in Queries, Remember(q)
      PROVE  Remembered'
  <2>1. Updated(q, queries[q].history, queries[q].valid,
                queries[q].subqueries \cup {calls[q].query})
    BY <1>4, Updates DEF Remember
  <2>2. calls'[q] = NoCall /\ \A i \in (1..MaxQueries) \ {q} : calls'[i] = calls[i]
    BY <1>0, <1>4 DEF Remember, TypeOK
  <2>3. QED
    BY <1>0, <1>q, <2>1, <2>2, NoCallType DEF Updated, Busy
<1>5. ASSUME NEW q \in Queries, Cancel(q)
      PROVE  Remembered'
  <2>1. CASE queries[q].valid
    <3>1. Updated(q, queries[q].history, FALSE, {})
      BY <1>5, <2>1, Updates DEF Cancel
    <3>2. UNCHANGED calls
      BY <1>5 DEF Cancel
    <3>3. QED
      BY <1>q, <3>1, <3>2 DEF Updated, Busy
  <2>2. CASE ~queries[q].valid
    <3>1. UNCHANGED <<queries, calls>>
      BY <1>5, <2>2 DEF Cancel
    <3>2. QED
      BY <1>q, <3>1 DEF Queries, Identity, Busy
  <2>3. QED
    BY <2>1, <2>2
<1>6. CASE ClientCancels \/ Edit \/ UNCHANGED vars
  <2>1. UNCHANGED <<queries, calls>>
    BY <1>6 DEF ClientCancels, Edit, vars
  <2>2. QED
    BY <1>q, <2>1 DEF Queries, Identity, Busy
<1>7. QED
  BY <1>1, <1>2, <1>3, <1>4, <1>5, <1>6 DEF Next


(* Every step keeps the children of a valid query known; a cancel() then   *)
(* passes them all on.                                                     *)
LEMMA KnownKept ==
    ASSUME MaxQueries \in Nat \ {0}, TypeOK, Known, [Next]_vars
    PROVE  Known'
<1>0. Queries \subseteq 1..MaxQueries
  <2>1. PICK n \in 1..MaxQueries : queries \in [1..n -> Query]
    BY DEF TypeOK
  <2>2. Queries = 1..n /\ n \in 1..MaxQueries /\ n \in Nat
    BY <2>1 DEF Queries
  <2>3. QED
    BY <2>2
<1> DEFINE Calm ==
      /\ Queries' = Queries /\ past' = past /\ toCancel \subseteq toCancel'
      /\ \A i \in Queries :
            /\ queries'[i].parent = queries[i].parent
            /\ queries'[i].valid = queries[i].valid
            /\ queries'[i].subqueries = queries[i].subqueries
            /\ calls'[i].query = calls[i].query
            /\ calls'[i].pc # "remember" => calls[i].pc # "remember"
<1>q. ASSUME Calm
      PROVE  Known'
  <2>1. /\ \A i \in Queries : calls'[i].query \in Queries \cup {0}
        /\ \A i \in Queries : calls'[i].pc # "remember" => calls'[i].query = 0
    BY <1>q DEF Known
  <2>2. \A i, c \in Queries : queries'[c].parent = i /\ queries'[i].valid =>
           c \in queries'[i].subqueries \/ calls'[i].query = c
    BY <1>q DEF Known
  <2>3. CancelForwarded'
    BY <1>q, SMTT(30) DEF Known, CancelForwarded, Children
  <2>4. QED
    BY <1>q, <2>1, <2>2, <2>3 DEF Known
<1>1. ASSUME NEW q \in Queries, CheckForQueryLoop(q)
      PROVE  Known'
  <2>1. PICK s \in Scopes, d \in Details :
           IF Tuple(q, s, d) \in queries[q].history
           THEN UNCHANGED <<queries, calls>>
           ELSE /\ queries' = [queries EXCEPT ![q].history = @ \cup {Tuple(q, s, d)}]
                /\ calls' = [calls EXCEPT ![q] =
                      [NoCall EXCEPT !.pc = "filter", !.child = s, !.details = d]]
    BY <1>1 DEF CheckForQueryLoop
  <2>2. UNCHANGED <<toCancel, past>>
    BY <1>1 DEF CheckForQueryLoop
  <2>3. CASE Tuple(q, s, d) \in queries[q].history
    <3>1. UNCHANGED <<queries, calls>>
      BY <2>1, <2>3
    <3>2. Calm
      BY <2>2, <3>1 DEF Queries
    <3>3. QED
      BY <1>q, <3>2
  <2>4. CASE Tuple(q, s, d) \notin queries[q].history
    <3>1. Updated(q, queries[q].history \cup {Tuple(q, s, d)}, queries[q].valid,
                  queries[q].subqueries)
      BY <2>1, <2>4, Updates
    <3>2. /\ Queries' = Queries
          /\ \A i \in Queries : /\ queries'[i].parent = queries[i].parent
                                /\ queries'[i].valid = queries[i].valid
                                /\ queries'[i].subqueries = queries[i].subqueries
      BY <3>1 DEF Identity, Updated
    <3>3. /\ calls'[q].pc = "filter" /\ calls'[q].query = 0
          /\ \A i \in (1..MaxQueries) \ {q} : calls'[i] = calls[i]
      <4>1. calls' = [calls EXCEPT ![q] =
                [NoCall EXCEPT !.pc = "filter", !.child = s, !.details = d]]
        BY <2>1, <2>4
      <4>2. QED
        BY <1>0, <4>1 DEF TypeOK, NoCall
    <3>4. calls[q].pc = "idle" /\ calls[q].query = 0
      BY <1>1 DEF CheckForQueryLoop, At, Known
    <3>5. Calm
      BY <1>0, <2>2, <3>2, <3>3, <3>4
    <3>6. QED
      BY <1>q, <3>5
  <2>5. QED
    BY <2>3, <2>4, SMTT(30)
<1>2. ASSUME NEW q \in Queries, FilterMetadata(q) \/ StorePermission(q)
      PROVE  Known'
  <2>1. calls[q] \in Call /\ calls \in [1..MaxQueries -> Call] /\ q \in 1..MaxQueries
    BY <1>0 DEF TypeOK
  <2>2. /\ calls'[q].query = calls[q].query /\ calls'[q].pc # "remember"
        /\ calls[q].pc # "remember"
        /\ \A i \in (1..MaxQueries) \ {q} : calls'[i] = calls[i]
    BY <1>2, <2>1 DEF FilterMetadata, StorePermission, Goto, At, Call
  <2>3. UNCHANGED <<queries, toCancel, past>>
    BY <1>2 DEF FilterMetadata, StorePermission
  <2>4. Calm
    BY <1>0, <2>2, <2>3 DEF Queries
  <2>5. QED
    BY <1>q, <2>4
<1>3. ASSUME NEW q \in Queries, Search(q)
      PROVE  Known'
  <2>1. PICK new \in (1..MaxQueries) \ Queries :
           /\ Queries' = Queries \cup {new}
           /\ \A i \in Queries : queries'[i] = queries[i]
           /\ queries'[new].parent = q
           /\ queries'[new].valid
           /\ calls'[new] = NoCall
           /\ calls'[q].pc = "remember" /\ calls'[q].query = new
           /\ \A i \in (1..MaxQueries) \ {q} : calls'[i] = calls[i]
    BY <1>3, Added
  <2>2. calls[q].query = 0 /\ 0 \notin Queries /\ UNCHANGED <<toCancel, past>>
    BY <1>0, <1>3 DEF Search, At, Known
  <2>3. \A i \in Queries \ {q} : calls'[i] = calls[i]
    BY <1>0, <2>1
  <2>4. new # 0 /\ calls'[new].query = 0 /\ calls'[new].pc = "idle"
    BY <2>1, NoCallType
  <2>5. /\ \A i \in Queries' : calls'[i].query \in Queries' \cup {0}
        /\ \A i \in Queries' : calls'[i].pc # "remember" => calls'[i].query = 0
        /\ \A i \in Queries' : queries'[i].parent \in Queries' \cup {0}
    BY <2>1, <2>3, <2>4 DEF Known
  <2>p. \A c \in Queries : queries[c].parent # new
    BY DEF Known
  <2>6. \A i, c \in Queries' : queries'[c].parent = i /\ queries'[i].valid =>
           c \in queries'[i].subqueries \/ calls'[i].query = c
    BY <2>1, <2>2, <2>3, <2>p DEF Known
  <2>7. CancelForwarded'
    BY <2>1, <2>2, <2>3, <2>p DEF Known, CancelForwarded, Children
  <2>8. QED
    BY <2>5, <2>6, <2>7 DEF Known
<1>4. ASSUME NEW q \in Queries, Remember(q)
      PROVE  Known'
  <2>1. Updated(q, queries[q].history, queries[q].valid,
                queries[q].subqueries \cup {calls[q].query})
    BY <1>4, Updates DEF Remember
  <2>2. /\ calls'[q] = NoCall /\ \A i \in Queries \ {q} : calls'[i] = calls[i]
        /\ toCancel' = toCancel
        /\ past' = IF queries[q].valid THEN past ELSE past \cup {calls[q].query}
    BY <1>0, <1>4 DEF Remember, TypeOK
  <2>3. /\ Queries' = Queries
        /\ \A i \in Queries : /\ queries'[i].parent = queries[i].parent
                              /\ queries'[i].valid = queries[i].valid
                              /\ queries[i].subqueries \subseteq queries'[i].subqueries
        /\ calls[q].query \in queries'[q].subqueries
    BY <2>1 DEF Identity, Updated
  <2>4. /\ \A i \in Queries : calls'[i].query \in Queries \cup {0}
        /\ \A i \in Queries : calls'[i].pc # "remember" => calls'[i].query = 0
    BY <2>2, NoCallType DEF Known
  <2>5. \A i, c \in Queries : queries'[c].parent = i /\ queries'[i].valid =>
           c \in queries'[i].subqueries \/ calls'[i].query = c
    BY <2>2, <2>3 DEF Known
  <2>6. CancelForwarded'
    BY <2>2, <2>3 DEF Known, CancelForwarded, Children
  <2>7. QED
    BY <2>3, <2>4, <2>5, <2>6 DEF Known
<1>5. ASSUME NEW q \in Queries, Cancel(q)
      PROVE  Known'
  <2>1. CASE queries[q].valid
    <3>1. Updated(q, queries[q].history, FALSE, {})
      BY <1>5, <2>1, Updates DEF Cancel
    <3>2. /\ UNCHANGED <<calls, past>>
          /\ toCancel' = (toCancel \ {q}) \cup queries[q].subqueries
      BY <1>5, <2>1 DEF Cancel
    <3>3. /\ Queries' = Queries
          /\ \A i \in Queries : queries'[i].parent = queries[i].parent
          /\ \A i \in Queries \ {q} : /\ queries'[i].valid = queries[i].valid
                                      /\ queries[i].subqueries = queries'[i].subqueries
          /\ ~queries'[q].valid
      BY <3>1 DEF Identity, Updated
    <3>4. \A i, c \in Queries : queries'[c].parent = i /\ queries'[i].valid =>
             c \in queries'[i].subqueries \/ calls'[i].query = c
      BY <3>2, <3>3 DEF Known
    <3>5. CancelForwarded'
      BY <3>2, <3>3 DEF Known, CancelForwarded, Children
    <3>6. QED
      BY <3>2, <3>3, <3>4, <3>5 DEF Known
  <2>2. CASE ~queries[q].valid
    <3>1. UNCHANGED <<queries, calls, past>> /\ toCancel' = toCancel \ {q}
      BY <1>5, <2>2 DEF Cancel
    <3>2. CancelForwarded'
      BY <2>2, <3>1 DEF Known, CancelForwarded, Children, Queries
    <3>3. QED
      BY <3>1, <3>2 DEF Known, Queries
  <2>3. QED
    BY <2>1, <2>2
<1>6. CASE ClientCancels \/ Edit \/ UNCHANGED vars
  <2>1. UNCHANGED <<queries, calls, past>> /\ toCancel \subseteq toCancel'
    BY <1>6 DEF ClientCancels, Edit, vars
  <2>2. Calm
    BY <2>1 DEF Queries
  <2>3. QED
    BY <1>q, <2>2
<1>7. QED
  BY <1>1, <1>2, <1>3, <1>4, <1>5, <1>6 DEF Next

(* NoQueryLoop for any number of queries: with any interleaving of         *)
(* subsearch() calls, check_for_query_loop() lets no question be asked     *)
(* twice on one way.                                                       *)
THEOREM NoLoop ==
    ASSUME MaxQueries \in Nat \ {0}
    PROVE  Spec => []NoQueryLoop
<1>1. Init => Remembered
  <2> SUFFICES ASSUME Init
               PROVE  Remembered
    OBVIOUS
  <2>1. PICK s \in Scopes : queries = [i \in {1} |-> NewQuery(s, Client, {}, 0, {}, <<>>, TRUE)]
    BY DEF Init
  <2>2. Queries = {1} /\ queries[1].asked = <<>> /\ queries[1].line = {}
    BY <2>1 DEF Queries, NewQuery
  <2>3. ~Busy(1)
    <3>1. calls[1] = NoCall
      BY DEF Init
    <3>2. QED
      BY <3>1, NoCallType DEF Busy
  <2>4. QED
    BY <2>2, <2>3 DEF Remembered, NoQueryLoop
<1>2. TypeOK /\ Remembered /\ [Next]_vars => Remembered'
  BY RememberedKept
<1>3. Remembered => NoQueryLoop
  BY DEF Remembered
<1>4. QED
  BY <1>1, <1>2, <1>3, Typing, PTL DEF Spec

(* CancelForwarded for any number of queries: cancel() misses none but the *)
(* subqueries whose subsearch() had not come to its push_back().           *)
THEOREM CancelReaches ==
    ASSUME MaxQueries \in Nat \ {0}
    PROVE  Spec => []CancelForwarded
<1>1. Init => Known
  <2> SUFFICES ASSUME Init
               PROVE  Known
    OBVIOUS
  <2>1. PICK s \in Scopes : queries = [i \in {1} |-> NewQuery(s, Client, {}, 0, {}, <<>>, TRUE)]
    BY DEF Init
  <2>2. Queries = {1} /\ queries[1].valid /\ queries[1].parent = 0
    BY <2>1 DEF Queries, NewQuery
  <2>3. calls[1] = NoCall
    BY DEF Init
  <2>4. QED
    BY <2>2, <2>3, NoCallType DEF Known, CancelForwarded
<1>2. TypeOK /\ Known /\ [Next]_vars => Known'
  BY KnownKept
<1>3. Known => CancelForwarded
  BY DEF Known
<1>4. QED
  BY <1>1, <1>2, <1>3, Typing, PTL DEF Spec

=============================================================================
