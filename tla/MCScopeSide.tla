---------------------------- MODULE MCScopeSide -----------------------------
(* Small instances of three parts of the run time that run inside a scope: *)
(* the search reply with its cache, the subsearches of an aggregator and   *)
(* the forwarders that put their results in order.  A behaviour is one of  *)
(* one of the parts, which has the variables x1, x2, ... for its own, in   *)
(* the order of its module.                                                *)
EXTENDS Integers, TLC

CONSTANTS ScopeThreads, Categories, Scopes, Client, Details, ReplyThread, OtherThreads

VARIABLES part, x1, x2, x3, x4, x5, x6, x7, x8, x9, x10

Reply == INSTANCE SearchReply
    WITH Threads <- ScopeThreads, Limits <- {2}, MaxCalls <- 2, MaxQueries <- 2,
         reply <- x1, pc <- x2, arg <- x3, calls <- x4, image <- x5, sent <- x6,
         file <- x7, torn <- x8, query <- x9, past <- x10
Sub == INSTANCE Subsearch
    WITH MaxQueries <- 4, MaxEdits <- 1,
         queries <- x1, calls <- x2, toCancel <- x3, settings <- x4, perms <- x5,
         past <- x6
Forward == INSTANCE Forwarder
    WITH Length <- 3, MaxResults <- 2,
         ready <- x1, previousReady <- x2, buffering <- x3, results <- x4,
         forwarded <- x5, received <- x6, finished <- x7, pc <- x8, at <- x9,
         flushed <- x10

vars == <<part, x1, x2, x3, x4, x5, x6, x7, x8, x9, x10>>

Init ==
    \/ part = "reply" /\ Reply!Init
    \/ part = "sub" /\ Sub!Init /\ x7 = 0 /\ x8 = 0 /\ x9 = 0 /\ x10 = 0
    \/ part = "forward" /\ Forward!Init

Next ==
    /\ UNCHANGED part
    /\ \/ part = "reply" /\ Reply!Next
       \/ part = "sub" /\ Sub!Next /\ UNCHANGED <<x7, x8, x9, x10>>
       \/ part = "forward" /\ Forward!Next

Spec == Init /\ [][Next]_vars

Symmetry == Permutations(ScopeThreads) \cup Permutations(Categories)
            \cup Permutations(Scopes)

(* Whatever step the process dies in, the cache of surfacing results is    *)
(* missing or the whole image of one query, and a query that replayed it   *)
(* does not replace it (SearchReplyImpl::write_cached_results,             *)
(* push_surfacing_results_from_cache; CacheWhole and ReplayKeepsCache in   *)
(* SearchReply).                                                           *)
CacheKept ==
    /\ [](part = "reply" => Reply!CacheWhole)
    /\ [][part = "reply" => Reply!ReplayKeepsCache]_vars

(* Aggregators that ask each other do not pass the same question round for *)
(* ever (SearchQueryBaseImpl::check_for_query_loop; see Subsearch).        *)
NoQueryLoop == part = "sub" => Sub!NoQueryLoop

(* A cancelled query has cancelled all its subqueries but those whose      *)
(* subsearch() was under way or came later (SearchQueryBaseImpl::cancel,   *)
(* subsearch; see Subsearch).                                              *)
CancelForwarded == part = "sub" => Sub!CancelForwarded

(* No result is forwarded before its turn and none stays in a buffer for   *)
(* ever (BufferedResultForwarderImpl::set_ready, notify_ready; see         *)
(* Forwarder).                                                             *)
ForwardedInTurn == part = "forward" => Forward!ForwardedInTurn

=============================================================================
