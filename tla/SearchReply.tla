---------------------------- MODULE SearchReply -----------------------------
(***************************************************************************)
(* SearchReplyImpl, the reply object that a scope pushes the results of a  *)
(* search into, with its CategoryRegistry and the cache of the results of  *)
(* surfacing queries (queries with an empty query string).  The scope may  *)
(* use the reply from several threads.  One query runs at a time; the      *)
(* cache file survives the query, and the death of the scope's process.    *)
(*                                                                         *)
(* A result is its number and its category.  Departments, filters and      *)
(* annotations are told apart only by their kind.  ReplyImpl::push() is    *)
(* one step here; module Query has the steps of it.                        *)
(***************************************************************************)
EXTENDS Integers, Sequences, FiniteSets

CONSTANTS
    Threads,      \* the threads of the scope that hold the reply proxy
    Categories,   \* the ids of the categories
    Limits,       \* the cardinalities of the queries, 0 is no limit
    MaxCalls,     \* bound: calls that push or register, per query
    MaxQueries    \* bound: queries

VARIABLES
    reply,        \* the SearchReplyImpl of the running query
    pc,           \* what each thread is doing
    arg,          \* the result (or the category) it is doing it with
    calls,        \* the number of calls so far
    image,        \* what write_cached_results() has serialized, or what the
                  \* replay has read and not pushed yet
    sent,         \* the categories and the results sent to the client
    file,         \* the cache file
    torn,         \* temporary files that nobody will remove
    query,        \* the number of the running query
    past          \* history: what happened to it

vars == <<reply, pc, arg, calls, image, sent, file, torn, query, past>>

NoFile == [cats |-> {}, results |-> {}, extras |-> FALSE, by |-> 0, whole |-> TRUE]
NoCategory == "none"
NoResult == [n |-> 0, cat |-> NoCategory]
Garbage == [n |-> -1, cat |-> NoCategory]
Nothing == [cats |-> {}, results |-> {}]
Nobody == "nobody"

NewReply(surfacing, limit) ==
    [surfacing |-> surfacing,  \* query_string_.empty()
     limit     |-> limit,      \* cardinality_
     cats      |-> {},         \* cat_registry_
     results   |-> {},         \* cached_results_
     extras    |-> FALSE,      \* cached_departments_, cached_filters_
     pushes    |-> 0,          \* num_pushes_
     finished  |-> FALSE,      \* SearchReplyImpl::finished_
     ended     |-> FALSE,      \* ReplyImpl::finished_
     pushable  |-> TRUE,       \* QueryObjectBase::pushable()
     replayer  |-> Nobody]     \* who is in push_surfacing_results_from_cache()

StartQuery ==
    /\ \E surfacing \in BOOLEAN, limit \in Limits :
          reply' = NewReply(surfacing, limit)
    /\ pc' = [t \in Threads |-> "idle"]
    /\ arg' = [t \in Threads |-> NoResult]
    /\ calls' = 0
    /\ image' = NoFile
    /\ sent' = Nothing
    /\ query' = query + 1
    /\ past' = {}

Init ==
    /\ \E surfacing \in BOOLEAN, limit \in Limits :
          reply = NewReply(surfacing, limit)
    /\ pc = [t \in Threads |-> "idle"]
    /\ arg = [t \in Threads |-> NoResult]
    /\ calls = 0
    /\ image = NoFile
    /\ sent = Nothing
    /\ file = NoFile
    /\ torn = 0
    /\ query = 1
    /\ past = {}

Goto(t, label) == pc' = [pc EXCEPT ![t] = label]
Happened(e) == past' = past \cup {e}
Forget(t) == arg' = [arg EXCEPT ![t] = NoResult]
Accepts == reply.pushable /\ ~reply.ended

(* Where a call that pushes was made: in the scope, or in the replay.      *)
Back(t, there) == IF reply.replayer = t THEN there ELSE "idle"

-----------------------------------------------------------------------------
(* Categories and results.                                                 *)

(* push(result) up to lookup_category(), or a call of register_category(). *)
Push(t) ==
    /\ pc[t] = "idle"
    /\ calls < MaxCalls
    /\ calls' = calls + 1
    /\ \E c \in Categories :
          \/ /\ arg' = [arg EXCEPT ![t] = [n |-> calls', cat |-> c]]
             /\ Goto(t, IF c \in reply.cats THEN "result" ELSE "register")
          \/ /\ arg' = [arg EXCEPT ![t] = [n |-> 0, cat |-> c]]
             /\ Goto(t, "register")
    /\ UNCHANGED <<reply, image, sent, file, torn, query, past>>

(* CategoryRegistry::register_category(), which throws for an id it knows. *)
Register(t) ==
    /\ pc[t] = "register"
    /\ IF arg[t].cat \in reply.cats
       THEN /\ Goto(t, "idle")
            /\ Forget(t)
            /\ IF arg[t].n > 0 THEN Happened("pushThrew") ELSE UNCHANGED past
            /\ UNCHANGED reply
       ELSE /\ reply' = [reply EXCEPT !.cats = @ \cup {arg[t].cat}]
            /\ Goto(t, "category")
            /\ UNCHANGED <<arg, past>>
    /\ UNCHANGED <<calls, image, sent, file, torn, query>>

(* push(category) in register_category(); its outcome is not looked at.    *)
PushCategory(t) ==
    /\ pc[t] = "category"
    /\ sent' = IF Accepts THEN [sent EXCEPT !.cats = @ \cup {arg[t].cat}]
               ELSE sent
    /\ IF arg[t].n = 0
       THEN Goto(t, Back(t, "replayCats")) /\ Forget(t)
       ELSE Goto(t, "result") /\ UNCHANGED arg
    /\ UNCHANGED <<reply, calls, image, file, torn, query, past>>

(* ReplyImpl::push() of the result; when the message cannot be sent, it    *)
(* reports an error and ends the reply.                                    *)
PushResult(t) ==
    /\ pc[t] = "result"
    /\ \/ /\ Accepts
          /\ sent' = [sent EXCEPT !.results = @ \cup {arg[t]}]
          /\ IF arg[t].cat \in sent.cats THEN UNCHANGED past
             ELSE Happened("noCategory")
          /\ Goto(t, "count")
          /\ UNCHANGED <<reply, arg>>
       \/ /\ Accepts
          /\ reply' = [reply EXCEPT !.ended = TRUE]
          /\ Happened("failed")
          /\ Goto(t, Back(t, "replayResults"))
          /\ Forget(t)
          /\ UNCHANGED sent
       \/ /\ ~Accepts
          /\ Goto(t, Back(t, "replayResults"))
          /\ Forget(t)
          /\ UNCHANGED <<reply, sent, past>>
    /\ UNCHANGED <<calls, image, file, torn, query>>

(* The rest of push(): the result is remembered for the cache, and the     *)
(* push that reaches the limit finishes the query (finished() does nothing *)
(* in a replay).  A thread that serializes the results meanwhile, without  *)
(* a lock, has a data race with this one.                                  *)
Count(t) ==
    /\ pc[t] = "count"
    /\ reply' = [reply EXCEPT
          !.results = IF reply.surfacing THEN @ \cup {arg[t]} ELSE @,
          !.pushes  = @ + 1]
    /\ Goto(t, IF reply'.pushes = reply.limit /\ reply.replayer # t THEN "finish"
               ELSE Back(t, "replayResults"))
    /\ Forget(t)
    /\ IF reply.surfacing /\ \E u \in Threads : pc[u] = "reading"
       THEN Happened("raced") ELSE UNCHANGED past
    /\ UNCHANGED <<calls, image, sent, file, torn, query>>

(* register_departments() and push(filters).                               *)
PushExtra(t) ==
    /\ pc[t] = "idle"
    /\ calls < MaxCalls
    /\ calls' = calls + 1
    /\ reply' = [reply EXCEPT !.extras = @ \/ reply.surfacing]
    /\ UNCHANGED <<pc, arg, image, sent, file, torn, query, past>>

-----------------------------------------------------------------------------
(* The end of the query.                                                   *)

(* The scope calls finished(), or lets go of its reply proxy; the last     *)
(* thread to do so runs ~SearchReplyImpl, which calls finished() as well.  *)
CallFinished(t) ==
    /\ pc[t] = "idle"
    /\ Goto(t, "finish")
    /\ UNCHANGED <<reply, arg, calls, image, sent, file, torn, query, past>>

Drop(t) ==
    /\ pc[t] = "idle"
    /\ Goto(t, IF \E u \in Threads \ {t} : pc[u] # "gone" THEN "gone" ELSE "destroy")
    /\ UNCHANGED <<reply, arg, calls, image, sent, file, torn, query, past>>

(* The scope calls error(), or its run() threw.                            *)
Error(t) ==
    /\ pc[t] = "idle"
    /\ ~reply.ended
    /\ reply' = [reply EXCEPT !.ended = TRUE]
    /\ Happened("failed")
    /\ UNCHANGED <<pc, arg, calls, image, sent, file, torn, query>>

(* The client cancels the query.                                           *)
Cancel ==
    /\ reply.pushable
    /\ reply' = [reply EXCEPT !.pushable = FALSE]
    /\ Happened("failed")
    /\ UNCHANGED <<pc, arg, calls, image, sent, file, torn, query>>

Destroying(t) == \A u \in Threads \ {t} : pc[u] = "gone"
Leave(t) == Goto(t, IF Destroying(t) THEN "gone" ELSE "idle")

(* finished(), up to the test of the query string in                       *)
(* write_cached_results().                                                 *)
Finish(t) ==
    /\ pc[t] \in {"finish", "destroy"}
    /\ reply' = [reply EXCEPT !.finished = TRUE]
    /\ IF reply.finished THEN Leave(t)
       ELSE Goto(t, IF reply.surfacing THEN "open" ELSE "end")
    /\ UNCHANGED <<arg, calls, image, sent, file, torn, query, past>>

(* The temporary file is opened, or cannot be.                             *)
OpenTmp(t) ==
    /\ pc[t] = "open"
    /\ \/ /\ Goto(t, "categories")
          /\ torn' = torn + 1
       \/ /\ Goto(t, "end")
          /\ UNCHANGED torn
    /\ UNCHANGED <<reply, arg, calls, image, sent, file, query, past>>

(* The data are serialized: the categories under the mutex of the          *)
(* registry, the results without a lock.                                   *)
SerializeCategories(t) ==
    /\ pc[t] = "categories"
    /\ image' = [NoFile EXCEPT !.extras = reply.extras, !.cats = reply.cats,
                               !.by = query]
    /\ Goto(t, "results")
    /\ UNCHANGED <<reply, arg, calls, sent, file, torn, query, past>>

SerializeResults(t) ==
    /\ pc[t] = "results"
    /\ image' = [image EXCEPT !.results = reply.results]
    /\ Goto(t, "reading")
    /\ UNCHANGED <<reply, arg, calls, sent, file, torn, query, past>>

(* The loop over the results ends.  After a push_back() during the loop it *)
(* may have read anything, freed memory included.                          *)
ResultsSerialized(t) ==
    /\ pc[t] = "reading"
    /\ IF "raced" \in past
       THEN \E read \in {reply.results, {Garbage}} :
               image' = [image EXCEPT !.results = read]
       ELSE UNCHANGED image
    /\ Goto(t, "write")
    /\ UNCHANGED <<reply, arg, calls, sent, file, torn, query, past>>

(* Mutant: the data go straight into the cache file, which is opened       *)
(* before they are written.                                                *)
WriteInPlace(t) ==
    /\ pc[t] = "write"
    /\ IF file = [image EXCEPT !.whole = FALSE]
       THEN /\ file' = image
            /\ Goto(t, "end")
       ELSE /\ file' = [image EXCEPT !.whole = FALSE]
            /\ UNCHANGED pc
    /\ UNCHANGED <<reply, arg, calls, image, sent, torn, query, past>>

(* write() and close(); a failure unlinks the temporary file.              *)
WriteTmp(t) ==
    /\ pc[t] = "write"
    /\ \/ /\ Goto(t, "rename")
          /\ UNCHANGED <<torn, image>>
       \/ /\ Goto(t, "end")
          /\ torn' = torn - 1
          /\ image' = NoFile
    /\ UNCHANGED <<reply, arg, calls, sent, file, query, past>>

(* rename() of the temporary file to the cache file.                       *)
Rename(t) ==
    /\ pc[t] = "rename"
    /\ torn' = torn - 1
    /\ \/ file' = image
       \/ UNCHANGED file
    /\ image' = NoFile
    /\ Goto(t, "end")
    /\ UNCHANGED <<reply, arg, calls, sent, query, past>>

(* ReplyImpl::finished().                                                  *)
End(t) ==
    /\ pc[t] = "end"
    /\ reply' = [reply EXCEPT !.ended = TRUE, !.replayer = Nobody]
    /\ Leave(t)
    /\ UNCHANGED <<arg, calls, image, sent, file, torn, query, past>>

-----------------------------------------------------------------------------
(* push_surfacing_results_from_cache().                                    *)

(* Mutant: the replay does not mark the reply as finished.                 *)
ReplayUnmarked(t) ==
    /\ pc[t] = "idle"
    /\ reply.surfacing
    /\ ~reply.finished
    /\ reply' = [reply EXCEPT !.replayer = t]
    /\ Goto(t, "read")
    /\ Happened("replayed")
    /\ UNCHANGED <<arg, calls, image, sent, file, torn, query>>

(* The replay marks the reply as finished, so nothing writes the cache for *)
(* this query any more.                                                    *)
Replay(t) ==
    /\ pc[t] = "idle"
    /\ reply.surfacing
    /\ ~reply.finished
    /\ reply' = [reply EXCEPT !.finished = TRUE, !.replayer = t]
    /\ Goto(t, "read")
    /\ Happened("replayed")
    /\ UNCHANGED <<arg, calls, image, sent, file, torn, query>>

(* The file is read, and its departments are registered; or there is none, *)
(* or it cannot be read.                                                   *)
ReplayRead(t) ==
    /\ pc[t] = "read"
    /\ \/ /\ file # NoFile
          /\ image' = file
          /\ reply' = [reply EXCEPT !.extras = @ \/ file.extras]
          /\ Goto(t, "replayCats")
       \/ /\ Goto(t, "end")
          /\ UNCHANGED <<image, reply>>
    /\ UNCHANGED <<arg, calls, sent, file, torn, query, past>>

(* The categories are registered one by one.  One that the scope has       *)
(* registered already throws, and ends the replay.  The filters come next. *)
ReplayCategories(t) ==
    /\ pc[t] = "replayCats"
    /\ \/ \E c \in image.cats :
             IF c \in reply.cats
             THEN image' = NoFile /\ Goto(t, "end") /\ UNCHANGED <<reply, arg>>
             ELSE /\ image' = [image EXCEPT !.cats = @ \ {c}]
                  /\ reply' = [reply EXCEPT !.cats = @ \cup {c}]
                  /\ arg' = [arg EXCEPT ![t] = [n |-> 0, cat |-> c]]
                  /\ Goto(t, "category")
       \/ /\ image.cats = {}
          /\ reply' = [reply EXCEPT !.extras = TRUE]
          /\ Goto(t, "replayResults")
          /\ UNCHANGED <<image, arg>>
    /\ UNCHANGED <<calls, sent, file, torn, query, past>>

(* A result whose category is not registered throws; the others are pushed *)
(* one by one, like any result.                                            *)
Readable(r) == r.cat \in reply.cats

ReplayResults(t) ==
    /\ pc[t] = "replayResults"
    /\ \/ \E r \in image.results :
             IF ~Readable(r)
             THEN image' = NoFile /\ Goto(t, "end") /\ UNCHANGED arg
             ELSE /\ image' = [image EXCEPT !.results = @ \ {r}]
                  /\ arg' = [arg EXCEPT ![t] = r]
                  /\ Goto(t, "result")
       \/ /\ image.results = {}
          /\ image' = NoFile
          /\ Goto(t, "end")
          /\ UNCHANGED arg
    /\ UNCHANGED <<reply, calls, sent, file, torn, query, past>>

-----------------------------------------------------------------------------
(* The next query, and the death of the process in the middle of a query.  *)
NextQuery ==
    /\ \A t \in Threads : pc[t] = "gone"
    /\ query < MaxQueries
    /\ StartQuery
    /\ UNCHANGED <<file, torn>>

Crash ==
    /\ query < MaxQueries
    /\ StartQuery
    /\ UNCHANGED <<file, torn>>

Next ==
    \/ \E t \in Threads :
          \/ Push(t) \/ Register(t) \/ PushCategory(t) \/ PushResult(t)
          \/ Count(t) \/ PushExtra(t) \/ CallFinished(t) \/ Drop(t) \/ Error(t)
          \/ Finish(t) \/ OpenTmp(t) \/ SerializeCategories(t)
          \/ SerializeResults(t) \/ ResultsSerialized(t) \/ WriteTmp(t)
          \/ Rename(t) \/ End(t) \/ Replay(t) \/ ReplayRead(t)
          \/ ReplayCategories(t) \/ ReplayResults(t)
    \/ Cancel \/ NextQuery \/ Crash

Spec == Init /\ [][Next]_vars

-----------------------------------------------------------------------------
(* Whatever step the process dies in, the cache file is missing or the     *)
(* whole image of one surfacing query, and holds nothing but what that     *)
(* query pushed to its client (the temporary file and the rename of        *)
(* write_cached_results()); unless a push raced with the serialization.    *)
CacheWhole ==
    /\ file.whole
    /\ file.by = query /\ "raced" \notin past =>
          file.results \subseteq sent.results

(* A query that replayed the cache does not replace it, not even from its  *)
(* destructor (finished_ in push_surfacing_results_from_cache()).          *)
ReplayKeepsCache == file' # file => "replayed" \notin past

(* SearchQueryBase.h: "It is safe to call push() from multiple threads     *)
(* without synchronization": no push throws because another thread has     *)
(* registered the category, none writes to what another thread reads, and  *)
(* the client gets a category before the results in it (ResultReplyObject  *)
(* throws otherwise).                                                      *)
PushIsSafe == past \cap {"pushThrew", "noCategory", "raced"} = {}

(* SearchReply.h: the cache has "the results that were produced by the     *)
(* most recent successful surfacing query", so no query that was cancelled *)
(* or had an error before its end leaves its results there.                *)
CacheOfSuccess == [][file' # file => "failed" \notin past]_vars

=============================================================================
