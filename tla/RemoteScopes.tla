----------------------------- MODULE RemoteScopes ---------------------------
(* The registry of the smart scopes proxy: SSRegistryObject, which asks    *)
(* the server for its scopes every now and then, and the part of           *)
(* SmartScopesClient that fetches, checks and caches the list.  A query    *)
(* of a remote scope (SSScopeObject::query) reads the registry meanwhile.  *)
EXTENDS Integers, Sequences, SequencesExt, TLC

CONSTANTS Answers,      \* the lists that the server may send, see RemoteScope
          MaxRefresh    \* refreshes

(* An entry of the list is a record: its "id"; whether it is "good", that  *)
(* is has an id and the other mandatory fields, a version that is not      *)
(* negative and fields of the right types; its base "url"; its "settings": *)
(* "" for none, "bad" for JSON that is no schema; and needs_location_data, *)
(* "loc".                                                                  *)
VARIABLES response,     \* response_str, until it is in the cache
          file,         \* remote-scopes.json: <<"absent">>, <<"empty">>,
                        \* <<"part">> of a list, or <<"list", list>>
          cached, have, \* cached_scopes_ and have_latest_cache_
          thread,       \* the refresh: "fetch", "open", "write" or "add"
          remote,       \* remote_scopes, those still to be added
          newScopes, newUrls, changed,
          scopes, urls, \* scopes_ (only the entries) and base_urls_
          defs,         \* settings_defs_
          unmade,       \* scopes for which the last refresh made no database
          timeout,      \* next_refresh_timeout_
          publisher,    \* publisher_: "starting" until the first refresh is
                        \* over, then "none", then "made" or "failed"
          known,        \* what a client knows that lists the scopes when the
                        \* proxy is up, and after every message
          refreshes,
          query         \* what a query found: <<step, id, url, settings>>

vars == <<response, file, cached, have, thread, remote, newScopes, newUrls, changed,
          scopes, urls, defs, unmade, timeout, publisher, known, refreshes, query>>

None == [x \in {} |-> 0]

(* get_remote_scopes() of the client skips what it cannot use.             *)
Valid(list) == SelectSeq(list, LAMBDA e : e.good)

(* read_cache(): a file that can be opened is read once, even if there is  *)
(* nothing in it; then the copy in memory is used.                         *)
Exists == file # <<"absent">>

ReadCache == IF ~ have /\ Exists THEN file ELSE cached

-----------------------------------------------------------------------------
(* The constructor of SSRegistryObject goes on after the first refresh.    *)
AfterRefresh == IF publisher = "starting" THEN "none" ELSE publisher

(* SmartScopesClient::get_remote_scopes(), and what SSRegistryObject makes *)
(* of its failures.  A list with a scope that can be used goes to the      *)
(* cache first.                                                            *)
Use(list, next) ==
    remote' = Valid(list) /\ thread' = next /\ unmade' = {} /\ UNCHANGED publisher

GiveUp == publisher' = AfterRefresh /\ UNCHANGED <<remote, thread, unmade>>

Fetch ==
    /\ thread = "fetch" /\ refreshes < MaxRefresh /\ refreshes' = refreshes + 1
    /\ changed' = FALSE /\ newScopes' = None /\ newUrls' = None
    /\ \/ \E list \in Answers :                \* the server sends its list
          /\ timeout' = "regular" /\ UNCHANGED <<cached, have>>
          /\ IF Valid(list) # <<>> THEN Use(list, "open") /\ response' = list
             ELSE Use(list, "add") /\ UNCHANGED response
       \/ /\ timeout' = "failed"                \* it sends what is no JSON
          /\ GiveUp /\ UNCHANGED <<response, cached, have>>
       \/ /\ timeout' = "failed"                \* it cannot be reached
          /\ cached' = ReadCache /\ have' = (have \/ Exists)
          /\ IF cached'[1] = "list" THEN Use(cached'[2], "add") ELSE GiveUp
          /\ UNCHANGED response
    /\ UNCHANGED <<file, scopes, urls, defs, known, query>>

(* write_cache(): the file is emptied when it is opened, if that is        *)
(* possible; that the list could be written is not tested.                 *)
OpenCache ==
    /\ thread = "open"
    /\ \/ thread' = "add" /\ response' = <<>> /\ UNCHANGED file
       \/ thread' = "write" /\ file' = <<"empty">> /\ UNCHANGED response
    /\ UNCHANGED <<cached, have, remote, newScopes, newUrls, changed, scopes, urls,
                   defs, unmade, timeout, publisher, known, refreshes, query>>

WriteCache ==
    /\ thread = "write" /\ thread' = "add"
    /\ file' \in {<<"list", response>>, <<"part">>}
    /\ cached' = <<"list", response>> /\ have' = TRUE /\ response' = <<>>
    /\ UNCHANGED <<remote, newScopes, newUrls, changed, scopes, urls,
                   defs, unmade, timeout, publisher, known, refreshes, query>>

(* One scope of the list: its settings database is made anew when its      *)
(* definitions changed, at once; the scope waits for the others.           *)
Def(id) == IF id \in DOMAIN defs THEN defs[id] ELSE [settings |-> "", loc |-> FALSE]

(* Mutant: only the settings are compared.                                 *)
DefChangedLocationIgnored(e) ==
    e.settings \notin {"", "bad"} /\ e.settings # Def(e.id).settings

DefChanged(e) ==
    /\ e.settings \notin {"", "bad"} \/ (e.settings = "" /\ e.loc)
    /\ e.loc # Def(e.id).loc \/ (e.settings # "" /\ e.settings # Def(e.id).settings)

(* A database that cannot be made is logged, and the scope added without.  *)
(* A scope with an empty id is skipped, with its settings stored.          *)
AddRemote ==
    /\ thread = "add" /\ remote # <<>>
    /\ LET e == Head(remote) IN
       /\ \/ /\ DefChanged(e) /\ changed' = TRUE
             /\ defs' = (e.id :> [settings |-> e.settings, loc |-> e.loc]) @@ defs
             /\ unmade' = unmade \ {e.id}
          \/ /\ DefChanged(e) /\ changed' = TRUE
             /\ unmade' = unmade \cup {e.id} /\ UNCHANGED defs
          \/ /\ ~ DefChanged(e) /\ UNCHANGED <<defs, changed, unmade>>
       /\ IF e.id = "" THEN UNCHANGED <<newScopes, newUrls>>
          ELSE newScopes' = (e.id :> e) @@ newScopes /\ newUrls' = (e.id :> e.url) @@ newUrls
    /\ remote' = Tail(remote)
    /\ UNCHANGED <<response, file, cached, have, thread, scopes, urls, timeout, publisher,
                   known, refreshes, query>>

(* Mutant: a scope that comes or goes without settings goes unnoticed.     *)
ReplaceQuietly ==
    /\ thread = "add" /\ remote = <<>> /\ thread' = "fetch"
    /\ scopes' = newScopes /\ urls' = newUrls /\ publisher' = AfterRefresh
    /\ known' = IF publisher = "made" /\ changed THEN <<newScopes, newUrls>> ELSE known
    /\ UNCHANGED <<response, file, cached, have, remote, newScopes, newUrls, changed, defs,
                   unmade, timeout, refreshes, query>>

Replace ==
    /\ thread = "add" /\ remote = <<>> /\ thread' = "fetch"
    /\ scopes' = newScopes /\ urls' = newUrls /\ publisher' = AfterRefresh
    /\ known' = IF /\ publisher = "made"
                  /\ (changed \/ newUrls # urls \/ DOMAIN newScopes # DOMAIN scopes)
                THEN <<newScopes, newUrls>> ELSE known
    /\ UNCHANGED <<response, file, cached, have, remote, newScopes, newUrls, changed, defs,
                   unmade, timeout, refreshes, query>>

(* The rest of the constructor, while the refresh thread runs already:     *)
(* without a publisher the proxy goes on.  Then clients can list.          *)
CreatePublisher ==
    /\ publisher = "none" /\ publisher' \in {"made", "failed"}
    /\ known' = <<scopes, urls>>
    /\ UNCHANGED <<response, file, cached, have, thread, remote, newScopes, newUrls, changed,
                   scopes, urls, defs, unmade, timeout, refreshes, query>>

(* The proxy process stops, wherever it is, and a new one starts:          *)
(* SSRegistryObject(), the client of which reads the cache.                *)
Restart ==
    /\ refreshes > 0 /\ thread' = "fetch"
    /\ file' \in {file} \cup (IF thread = "write" THEN {<<"part">>} ELSE {})
    /\ have' = Exists /\ cached' = IF Exists THEN file' ELSE <<"empty">>
    /\ remote' = <<>> /\ newScopes' = None /\ newUrls' = None /\ changed' = FALSE
    /\ scopes' = None /\ urls' = None /\ defs' = None /\ unmade' = {}
    /\ publisher' = "starting" /\ known' = <<None, None>> /\ query' = <<"none">>
    /\ response' = <<>> /\ timeout' = "regular" /\ UNCHANGED refreshes

-----------------------------------------------------------------------------
(* SSScopeObject::query() and the constructor of SmartQuery.               *)
HasScope ==
    /\ query[1] = "none" /\ publisher \in {"made", "failed"}
    /\ \E id \in DOMAIN scopes : query' = <<"url", id>>
    /\ UNCHANGED <<response, file, cached, have, thread, remote, newScopes, newUrls, changed,
                   scopes, urls, defs, unmade, timeout, publisher, known, refreshes>>

GetBaseUrl ==
    /\ query[1] = "url"
    /\ query' = IF query[2] \in DOMAIN urls THEN <<"db", query[2], urls[query[2]]>>
                                            ELSE <<"none">>
    /\ UNCHANGED <<response, file, cached, have, thread, remote, newScopes, newUrls, changed,
                   scopes, urls, defs, unmade, timeout, publisher, known, refreshes>>

GetSettingsDb ==
    /\ query[1] = "db"
    /\ query' = <<"made", query[2], query[3], Def(query[2])>>
    /\ UNCHANGED <<response, file, cached, have, thread, remote, newScopes, newUrls, changed,
                   scopes, urls, defs, unmade, timeout, publisher, known, refreshes>>

QueryEnds ==
    /\ query[1] = "made" /\ query' = <<"none">>
    /\ UNCHANGED <<response, file, cached, have, thread, remote, newScopes, newUrls, changed,
                   scopes, urls, defs, unmade, timeout, publisher, known, refreshes>>

Init ==
    /\ response = <<>> /\ file = <<"absent">> /\ cached = <<"empty">> /\ have = FALSE
    /\ thread = "fetch" /\ remote = <<>>
    /\ newScopes = None /\ newUrls = None /\ changed = FALSE
    /\ scopes = None /\ urls = None /\ defs = None /\ unmade = {}
    /\ timeout = "regular" /\ publisher = "starting" /\ known = <<None, None>>
    /\ refreshes = 0 /\ query = <<"none">>

Next == \/ Fetch \/ OpenCache \/ WriteCache \/ AddRemote \/ Replace
        \/ CreatePublisher \/ Restart
        \/ HasScope \/ GetBaseUrl \/ GetSettingsDb \/ QueryEnds

Spec == Init /\ [][Next]_vars

-----------------------------------------------------------------------------
(* Which scopes there are, and under which URLs, is what a client knows    *)
(* that lists them after every message, whatever the server did, unless    *)
(* the publisher could not be made.                                        *)
SubscribersInformed ==
    publisher = "made" => <<DOMAIN scopes, urls>> = <<DOMAIN known[1], known[2]>>

(* A list in the cache has a scope that can be used, and is the one that   *)
(* the process falls back to.                                              *)
CacheUsable ==
    file[1] = "list" => Valid(file[2]) # <<>> /\ (have => cached = file)

(* The cache that there is survives a crash.                               *)
CacheSurvives == [][file[1] = "list" => file'[1] = "list"]_file

(* A scope with a settings schema is given the database for that schema,   *)
(* unless that could not be made.                                          *)
SettingsOfScope ==
    thread = "fetch" =>
        \A id \in DOMAIN scopes \ unmade :
            scopes[id].settings \notin {"", "bad"} =>
                Def(id) = [settings |-> scopes[id].settings, loc |-> scopes[id].loc]

(* The same for a scope that has no settings any more.                     *)
SettingsDropped ==
    thread = "fetch" =>
        \A id \in DOMAIN scopes :
            scopes[id].settings = "" /\ ~scopes[id].loc => Def(id).settings = ""

=============================================================================
