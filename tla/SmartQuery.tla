------------------------------ MODULE SmartQuery ----------------------------
(* A search or a preview of a remote scope: SSQueryObject::run() in a      *)
(* thread of the query adapter, SmartQuery and SmartPreview above          *)
(* SmartScopesClient, the HTTP client's own thread that calls back with    *)
(* the chunks of the answer, and a cancellation that arrives at any time.  *)
(*                                                                         *)
(* The server's answer is a text: a sequence of tokens.  A line is good    *)
(* JSON when it is one token for what it holds and the closing brace.      *)
EXTENDS Integers, Sequences, SequencesExt

CONSTANTS Texts,        \* the answers of the server
          Methods       \* the methods of Scope that the client calls

NL == "newline"
End == "}"

VARIABLES kind,         \* q_type
          body, pos,    \* the server's answer, and how much of it has come
          entry,        \* the query is in queries_
          pushable,     \* q_pushable
          run,          \* the thread in run()
          handle,       \* search_handle_ or preview_handle_ is set
          active,       \* the request is in query_results_
          http,         \* the request: "none", "open", "ok" or "error"
          abort,        \* Cancelable::cancelled
          tmp,          \* tmp_data: an unfinished line
          cats,         \* the category was registered
          filters,      \* subset of {"filters", "state"}: FiltersHandler
          owners,       \* who holds the reply proxy: "run", "http", "cancel"
          finished,     \* ReplyImpl::finished_
          sent,         \* messages to the client
          cancel,       \* the cancellation: "no", "returning", "done"
          crashed       \* a null handle or a handler that is gone was used

vars == <<kind, body, pos, entry, pushable, run, handle, active, http, abort, tmp, cats,
          filters, owners, finished, sent, cancel, crashed>>

-----------------------------------------------------------------------------
(* handle_chunk(): the whole lines, and what is left over.                 *)
Newlines(data) == {i \in DOMAIN data : data[i] = NL}
Lines(data) ==
    LET ends == SetToSortSeq(Newlines(data), <)
    IN  [i \in DOMAIN ends |-> SubSeq(data, (IF i = 1 THEN 1 ELSE ends[i - 1] + 1), ends[i] - 1)]
(* Mutant: what is left of a chunk is forgotten.                           *)
LeftoverDropped(data) == <<>>

Leftover(data) ==
    IF Newlines(data) = {} THEN data
    ELSE SubSeq(data, (CHOOSE i \in Newlines(data) : \A j \in Newlines(data) : j <= i) + 1, Len(data))

(* The line as parsed: what it holds, or "bad".                            *)
Parsed(line) == IF Len(line) = 2 /\ line[2] = End THEN line[1] ELSE "bad"

(* handle_line() of a search, of a preview: the handler that is called.    *)
SearchPart(line) ==
    IF Parsed(line) \in {"category", "result", "filters", "state", "departments"} THEN Parsed(line) ELSE "none"
PreviewPart(line) == IF Parsed(line) \in {"columns", "widget"} THEN Parsed(line) ELSE "none"

(* The handlers of SmartQuery::run(): the state is what was registered and *)
(* what is pushed.  A result needs its category, and the filters their     *)
(* state.                                                                  *)
SearchHandler(s, piece) ==
    CASE piece = "category" -> [s EXCEPT !.cats = TRUE]
      [] piece = "result" /\ s.cats -> [s EXCEPT !.push = Append(@, "result")]
      [] piece \in {"filters", "state"} ->
            LET f == s.filters \cup {piece}
            IN  [s EXCEPT !.filters = f,
                          !.push = IF f = {"filters", "state"} THEN Append(@, "filters") ELSE @]
      [] piece = "departments" -> [s EXCEPT !.push = Append(@, "departments")]
      [] OTHER -> s

(* Those of SmartPreview::run().                                           *)
PreviewHandler(s, piece) == IF piece = "none" THEN s ELSE [s EXCEPT !.push = Append(@, piece)]

Handled(s, lines) ==
    FoldLeft(LAMBDA t, line : IF kind = "search" THEN SearchHandler(t, SearchPart(line))
                                               ELSE PreviewHandler(t, PreviewPart(line)),
             s, lines)

-----------------------------------------------------------------------------
(* ~ReplyImpl(), when the last owner lets go.                              *)
Release(who) ==
    /\ owners' = owners \ {who}
    /\ IF owners = {who} /\ ~finished
       THEN finished' = TRUE /\ sent' = Append(sent, "OK")
       ELSE UNCHANGED <<sent, finished>>

(* cancel() holds queries_mutex_.                                          *)
Locked == cancel = "returning"

(* run_query(), run_preview(): the reply proxy is made.  run_activation(): *)
(* an activation is answered at once, and not handled.                     *)
RunQuery == run' = "request" /\ owners' = {"run"} /\ UNCHANGED sent

RunActivation == run' = "erase" /\ sent' = <<"not handled", "OK">> /\ UNCHANGED owners

(* run() finds the query, which may be cancelled already.  (It is there:   *)
(* SSScopeObject adds it and then calls run() once, and only run() erases  *)
(* it.)                                                                    *)
StartRun ==
    /\ run = "ready" /\ entry
    /\ \/ ~pushable /\ run' = "erase" /\ UNCHANGED <<owners, sent>>
       \/ pushable /\ kind # "activation" /\ RunQuery
       \/ pushable /\ kind = "activation" /\ RunActivation
    /\ UNCHANGED <<kind, body, pos, entry, pushable, handle, active, http, abort, tmp, cats, filters,
                   finished, cancel, crashed>>

(* search() of the client: the request is sent.  Its callback refers to    *)
(* the handlers in run().                                                  *)
Search ==
    /\ run = "request" /\ kind = "search" /\ run' = "handle" /\ active' = TRUE /\ http' = "open"
    /\ UNCHANGED <<kind, body, pos, entry, pushable, handle, abort, tmp, cats, filters, owners,
                   finished, sent, cancel, crashed>>

(* preview(): the callback has a copy of the handlers, and so the reply.   *)
Preview ==
    /\ run = "request" /\ kind = "preview" /\ run' = "handle" /\ active' = TRUE /\ http' = "open"
    /\ owners' = owners \cup {"http"}
    /\ UNCHANGED <<kind, body, pos, entry, pushable, handle, abort, tmp, cats, filters, finished,
                   sent, cancel, crashed>>

(* SmartPreview::run(): a result of another scope has no "result_json",    *)
(* and reading it throws before there is a request.                        *)
PreviewThrows ==
    /\ run = "request" /\ kind = "preview" /\ run' = "throw"
    /\ UNCHANGED <<kind, body, pos, entry, pushable, handle, active, http, abort, tmp, cats, filters,
                   owners, finished, sent, cancel, crashed>>

SetHandle ==
    /\ run = "handle" /\ run' = "find" /\ handle' = TRUE
    /\ UNCHANGED <<kind, body, pos, entry, pushable, active, http, abort, tmp, cats, filters, owners,
                   finished, sent, cancel, crashed>>

(* wait_for_search(): the request must still be there.                     *)
FindRequest ==
    /\ kind = "search" /\ run = "find" /\ run' = IF active THEN "wait" ELSE "throw"
    /\ UNCHANGED <<kind, body, pos, entry, pushable, handle, active, http, abort, tmp, cats, filters,
                   owners, finished, sent, cancel, crashed>>

(* Mutant: an error is not waited for.                                     *)
WaitForSuccess ==
    /\ kind = "search" /\ run = "wait" /\ http = "ok" /\ run' = "return" /\ active' = FALSE
    /\ UNCHANGED <<kind, body, pos, entry, pushable, handle, http, abort, tmp, cats, filters, owners,
                   finished, sent, cancel, crashed>>

Wait ==
    /\ kind = "search" /\ run = "wait" /\ http \in {"ok", "error"}
    /\ IF http = "ok" THEN run' = "return" /\ active' = FALSE
                      ELSE run' = "throw" /\ UNCHANGED active
    /\ UNCHANGED <<kind, body, pos, entry, pushable, handle, http, abort, tmp, cats, filters, owners,
                   finished, sent, cancel, crashed>>

(* wait_for_preview(), the two steps of it.                                *)
WaitForPreview ==
    /\ kind = "preview"
    /\ \/ run = "find" /\ run' = (IF active THEN "wait" ELSE "throw") /\ UNCHANGED active
       \/ run = "wait" /\ http = "ok" /\ run' = "return" /\ active' = FALSE
       \/ run = "wait" /\ http = "error" /\ run' = "throw" /\ UNCHANGED active
    /\ UNCHANGED <<kind, body, pos, entry, pushable, handle, http, abort, tmp, cats, filters, owners,
                   finished, sent, cancel, crashed>>

(* run() of the query returns: its handlers go, the reply proxy goes.      *)
Return ==
    /\ run = "return" /\ run' = "erase" /\ Release("run")
    /\ UNCHANGED <<kind, body, pos, entry, pushable, handle, active, http, abort, tmp, cats, filters,
                   cancel, crashed>>

(* It throws: the proxy goes before the exception is caught.               *)
Unwind ==
    /\ run = "throw" /\ run' = "catch" /\ Release("run")
    /\ UNCHANGED <<kind, body, pos, entry, pushable, handle, active, http, abort, tmp, cats, filters,
                   cancel, crashed>>

(* The exception is reported, whether or not the client has heard of the   *)
(* end already.                                                            *)
Throw ==
    /\ run = "catch" /\ ~Locked /\ run' = "erase" /\ pushable' = FALSE
    /\ sent' = Append(sent, "Error")
    /\ UNCHANGED <<kind, body, pos, entry, handle, active, http, abort, tmp, cats, filters, owners,
                   finished, cancel, crashed>>

(* The query is erased; with it, unless a cancellation uses it, go the     *)
(* handle and the request.                                                 *)
Erase ==
    /\ run = "erase" /\ ~Locked /\ run' = "done" /\ entry' = FALSE
    /\ active' = FALSE /\ abort' = (abort \/ active)
    /\ UNCHANGED <<kind, body, pos, pushable, handle, http, tmp, cats, filters, owners, finished, sent,
                   cancel, crashed>>

-----------------------------------------------------------------------------
(* SSQueryObject::pushable(), for each push, asserts that it finds the     *)
(* query.                                                                  *)
NotFound(pushes) == ~entry /\ pushes # <<>>

(* The thread of the HTTP client.  The lines of a chunk are handled.  The  *)
(* handlers of a search are those of run(), which may be gone; those of a  *)
(* preview are a copy, but a push looks for the query, which may be gone.  *)
(* A push is dropped after a cancellation or an error.                     *)
Give(data) ==
    LET s == Handled([cats |-> cats, filters |-> filters, push |-> <<>>], Lines(data))
        gone == IF kind = "search" THEN run \in {"catch", "erase", "done"} ELSE NotFound(s.push)
    IN  /\ crashed' = (crashed \/ gone)
        /\ tmp' = Leftover(data)
        /\ cats' = s.cats /\ filters' = s.filters
        /\ sent' = IF ~gone /\ pushable /\ ~finished THEN sent \o s.push ELSE sent

Chunk ==
    /\ http = "open"
    /\ \E n \in pos + 1 .. Len(body) : pos' = n /\ Give(tmp \o SubSeq(body, pos + 1, n))
    /\ UNCHANGED <<kind, body, entry, pushable, run, handle, active, http, abort, owners, finished, cancel>>

(* The end of the answer counts as a newline.                              *)
Respond ==
    /\ http = "open" /\ pos = Len(body) /\ http' = "ok" /\ Give(tmp \o <<NL>>)
    /\ UNCHANGED <<kind, body, pos, entry, pushable, run, handle, active, abort, owners, finished, cancel>>

(* A status other than OK, no connection, a timeout, or an abort.          *)
Fail ==
    /\ http = "open" /\ http' = "error"
    /\ UNCHANGED <<kind, body, pos, entry, pushable, run, handle, active, abort, tmp, cats, filters,
                   owners, finished, sent, cancel, crashed>>

(* The request is over: the callback goes, and its copy of the reply.      *)
DropCallback ==
    /\ http \in {"ok", "error"} /\ "http" \in owners /\ Release("http")
    /\ UNCHANGED <<kind, body, pos, entry, pushable, run, handle, active, http, abort, tmp, cats, filters,
                   cancel, crashed>>

-----------------------------------------------------------------------------
(* cancel_query() of the client: the request is forgotten and aborted.     *)
CancelQuery ==
    IF handle /\ active THEN active' = FALSE /\ abort' = TRUE ELSE UNCHANGED <<active, abort>>

(* SSQueryObject::cancel(), then cancelled() of the query, with the mutex  *)
(* of SSQueryObject held: run() cannot erase the query in between.  While  *)
(* it lasts, cancel() has a reference of its own to the reply proxy.       *)
Cancel ==
    /\ cancel = "no"
    /\ IF ~entry THEN cancel' = "done" /\ UNCHANGED <<pushable, owners, sent, active, abort, crashed>>
       ELSE /\ pushable' = FALSE
            /\ IF owners # {}
               THEN owners' = owners \cup {"cancel"} /\ sent' = Append(sent, "Cancelled") /\ cancel' = "returning"
               ELSE cancel' = "done" /\ UNCHANGED <<owners, sent>>
            /\ CancelQuery
            /\ crashed' = (crashed \/ (kind = "preview" /\ ~handle))
    /\ UNCHANGED <<kind, body, pos, entry, run, handle, http, tmp, cats, filters, finished>>

(* cancel() returns, and may be the last to let go of the reply proxy.     *)
CancelReturns ==
    /\ Locked /\ cancel' = "done" /\ Release("cancel")
    /\ UNCHANGED <<kind, body, pos, entry, pushable, run, handle, active, http, abort, tmp, cats, filters,
                   crashed>>

(* SSScopeObject: the type of the query that each method adds.             *)
QueryType(method) ==
    CASE method = "search" -> "search"
      [] method = "preview" -> "preview"
      [] method \in {"activate", "perform_action", "activate_result_action"} -> "activation"

Init ==
    /\ kind \in {QueryType(m) : m \in Methods} /\ body \in Texts /\ pos = 0 /\ entry = TRUE /\ pushable = TRUE /\ run = "ready"
    /\ handle = FALSE /\ active = FALSE /\ http = "none" /\ abort = FALSE /\ tmp = <<>>
    /\ cats = FALSE /\ filters = {} /\ owners = {} /\ finished = FALSE /\ sent = <<>>
    /\ cancel = "no" /\ crashed = FALSE

RunStep ==
    \/ StartRun \/ Search \/ Preview \/ PreviewThrows \/ SetHandle \/ FindRequest \/ Wait \/ WaitForPreview
    \/ Return \/ Unwind \/ Throw \/ Erase
ServerStep == Chunk \/ Respond \/ Fail

Next == RunStep \/ ServerStep \/ DropCallback \/ Cancel \/ CancelReturns

Spec == Init /\ [][Next]_vars

(* The threads of the adapters and that of the HTTP client run; a request  *)
(* ends, with the timeout of HttpClientNetCpp if the server is silent.     *)
FairSpec ==
    /\ Spec
    /\ WF_vars(RunStep) /\ WF_vars(ServerStep) /\ WF_vars(DropCallback) /\ WF_vars(CancelReturns)

-----------------------------------------------------------------------------
Completions == SelectSeq(sent, LAMBDA m : m \in {"OK", "Error", "Cancelled"})

(* A query that nobody cancels and that the server answers pushes what the *)
(* answer says, line by line, however it was cut into chunks, and then     *)
(* says that it is done.                                                   *)
AnswerComplete ==
    run = "done" /\ http = "ok" /\ cancel = "no" =>
        LET s == Handled([cats |-> FALSE, filters |-> {}, push |-> <<>>], Lines(Append(body, NL)))
        IN  sent = s.push \o (IF owners = {} THEN <<"OK">> ELSE <<>>)

(* The query has ended: the client has heard of it, or had cancelled it,   *)
(* and the query object has forgotten it.                                  *)
RemoteAnswered == ~entry /\ (Completions # <<>> \/ cancel = "done")

(* A request that fails is reported as an error: "a scope could not be     *)
(* reached over the network" (CompletionDetails.h).                        *)
RemoteErrorReported ==
    run = "done" /\ http = "error" /\ cancel = "no" /\ owners = {} => Head(Completions) = "Error"

(* No thread uses a handle that is not set yet, handlers that are gone or  *)
(* a query that is erased.                                                 *)
SafeCancellation == ~crashed

=============================================================================
