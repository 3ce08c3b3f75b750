---------------------------- MODULE MCComponents ----------------------------
(* Small instances of the components that need few threads: the values     *)
(* that scopes and clients exchange and the files that the run time reads; *)
(* and the processes around the scopes and what connects them - the        *)
(* registry's scopes and how they are found and started, running one, its  *)
(* directories and accounts, proxies, servants and calls, publish and      *)
(* subscribe, remote scopes and the example client, and the time that a    *)
(* reply is kept.  A behaviour is one of one of the parts, which then has  *)
(* the variables x1, x2, ... for its own, in the order of its module; the  *)
(* others are not used.                                                    *)
EXTENDS Integers

VARIABLES part, x1, x2, x3, x4, x5, x6, x7, x8, x9, x10, x11, x12, x13, x14,
          x15, x16, x17, x18, x19, x20, x21, x22

RawValues == {<<"bool", FALSE>>, <<"int", 1>>, <<"int", 7>>, <<"huge", 0>>, <<"str", "s">>}

UserData == <<<<"Int", 8>>, <<"Array", <<<<"Double", 1>>, <<"Bool", TRUE>>>>>>,
              <<"Dict", [k |-> <<"Int64", 3>>]>>>>

(* The keys of all the files, and of [Appearance], with values of the      *)
(* right type and of another, in and out of their limits.                  *)
Texts == {"DisplayName", "Description", "Author", "ResultsTtlType",
          "Default.Middleware", "CacheDir"}
Numerics == {"IdleTimeout", "Version", "Reap.Expiry", "Reap.Interval",
             "Process.Timeout", "Locate.Timeout", "Http.Reply.Timeout",
             "Registry.Refresh.Rate"}
IniLines == (Texts \X {<<"text", "">>, <<"text", "Zmq">>})
            \cup ({"ChildScopes", "Keywords"} \X {<<"list", <<"a">>>>, <<"list", <<"a", "">>>>})
            \cup (Numerics \X {<<"int", 0>>, <<"int", 100>>, <<"text", "x">>})
Appearances == {<<"PageHeader">>, <<"PageHeader", "Logo">>, <<"PageHeader", "Art">>,
                <<"ShapeImages">>, <<"Logo", "Art", "ShapeImages">>}
               \X {<<"text", "a">>, <<"bool", FALSE>>}

(* Two scopes of a click package, and an unconfined one.                   *)
PackagedScopes ==
    {[id |-> <<"p", "_", "a">>, confined |-> TRUE], [id |-> <<"p", "_", "b">>, confined |-> TRUE],
     [id |-> <<"p">>, confined |-> FALSE]}

(* Pieces of the strings of proxies: fields, separators, and misplaced     *)
(* ones.                                                                   *)
ProxyPieces == {<<"!", "c=", "Scope">>, <<"!", "c=", "Registry">>, <<"!", "t=", "5">>,
                <<"!", "t=", "-1">>, <<"!", "m=", "t">>, <<"!", "m=", "o">>,
                <<"#">>, <<"id">>, <<"!">>, <<"c=">>}

(* Lists of remote scopes: usable or not, with a URL, settings and the     *)
(* need for a location; a scope may be in a list twice, or have no name.   *)
Entry(id, good, url, settings, loc) ==
    [id |-> id, good |-> good, url |-> url, settings |-> settings, loc |-> loc]
ServerLists ==
    {<<>>, <<Entry("a", FALSE, 1, "", FALSE)>>, <<Entry("a", TRUE, 1, "j", FALSE)>>,
     <<Entry("a", TRUE, 2, "j", TRUE), Entry("b", TRUE, 1, "", FALSE)>>,
     <<Entry("a", TRUE, 2, "", TRUE), Entry("a", TRUE, 1, "k", TRUE)>>,
     <<Entry("a", TRUE, 1, "", FALSE)>>, 
     <<Entry("", TRUE, 1, "j", FALSE), Entry("b", TRUE, 1, "bad", TRUE)>>}

Codec == INSTANCE Codec
    WITH MaxSets <- 2,
         class <- x1, object <- x2, meant <- x3, sets <- x4
Widgets == INSTANCE Widgets
    WITH Ids <- {"w", "a", "b"}, Keys <- {"id", "attributes", "title"},
         MaxColumns <- 2,
         widget <- x1, annotation <- x2, layouts <- x3, response <- x4
Results == INSTANCE Results
    WITH MaxDepth <- 3, MaxCalls <- 4,
         at <- x1, own <- x2, in <- x3, calls <- x4
Departments == INSTANCE Departments
    WITH Ids <- {"", "a", "b"}, MaxDepartments <- 3,
         root <- x1, current <- x2, count <- x3
Canned == INSTANCE CannedQueries
    WITH Chars <- {97, 37, 38}, Values <- UserData, MaxInt <- 7,
         PointWritten <- FALSE,
         query <- x1
Filters == INSTANCE Filters
    WITH Ids <- {"a", "b"}, Numbers <- 0..2, Times <- -1..3, Second <- 2,
         MaxInt <- 3, PointWritten <- TRUE,
         filter <- x1, stored <- x2, picked <- x3, uri <- x4
Settings == INSTANCE Settings
    WITH Raw <- RawValues, RawDefaults <- RawValues \cup {<<"none", 0>>},
         MaxWrites <- 3,
         defs <- x1, file <- x2, values <- x3, lastStamp <- x4, pc <- x5,
         seen <- x6, result <- x7, quiet <- x8, writes <- x9
Children == INSTANCE ChildScopes
    WITH Children <- {"c", "d"}, MaxCalls <- 4,
         repo <- x1, cache <- x2, writing <- x3, answer <- x4, wanted <- x5,
         broken <- x6, calls <- x7
Config == INSTANCE Config
    WITH Lines <- IniLines, Attributes <- Appearances, MaxLines <- 2,
         kind <- x1, ini <- x2, home <- x3, order <- x4
QtResult == INSTANCE QtResult
    WITH Keys <- {"title", "attr"}, MaxCalls <- 5,
         api <- x1, views <- x2, unsync <- x3, stored <- x4, out <- x5,
         current <- x6, written <- x7, through <- x8, calls <- x9
Client == INSTANCE DemoClient
    WITH Scopes <- {"A", "B", "C", "S", "N"}, Indices <- {1, 3},
         MaxResults <- 2,
         args <- x1, main <- x2, status <- x3, state <- x4, todo <- x5,
         wire <- x6, complete <- x7, asleep <- x8, count <- x9, saved <- x10,
         sent <- x11, failed <- x12
Timed == INSTANCE Reaper
    WITH Items <- {"i1", "i2"}, Threads <- {"t1"}, ReapThread <- "reap",
         NoItem <- "none", Policy <- "NoCallbackOnDestroy",
         Expiries <- {"finite"}, ReapInterval <- 1, ExpiryInterval <- 2,
         MaxTime <- 4, CallbackOps <- {}, ReleaseEarly <- FALSE,
         PromptReaper <- TRUE,
         list <- x1, timestamp <- x2, cancelled <- x3, held <- x4,
         created <- x5, finish <- x6, inProgress <- x7, notified <- x8,
         rpc <- x9, zombies <- x10, current <- x11, deadline <- x12,
         joined <- x13, owner <- x14, holders <- x15, pc <- x16, arg <- x17,
         dtor <- x18, now <- x19, callback <- x20, returned <- x21,
         crashed <- x22
Pool == INSTANCE ConnectionPool
    WITH Endpoints <- {"e", "f"},
         pool <- x1, mutex <- x2, owner <- x3, reaper <- x4, zombies <- x5
Watcher == INSTANCE ScopesWatcher
    WITH Dirs <- {"d", "e"}, MaxOps <- 4,
         ini <- x1, present <- x2, kernel <- x3, wds <- x4, queue <- x5,
         sdirs <- x6, sdirIni <- x7, table <- x8, main <- x9, thread <- x10,
         todo <- x11, lost <- x12, ops <- x13
Finder == INSTANCE ScopeFinder
    WITH Ids <- {"s", "t"},
         files <- x1, local <- x2, click <- x3, table <- x4, pc <- x5
Known == INSTANCE RegistryScopes
    WITH Ids <- {"a"}, Versions <- {1, 2}, MaxChanges <- 3,
         scopes <- x1, files <- x2, old <- x3, generate <- x4,
         writable <- x5, remote <- x6, up <- x7, toRegistry <- x8,
         toClients <- x9, remover <- x10, lister <- x11, known <- x12,
         heard <- x13, getter <- x14, changes <- x15
Command == INSTANCE CustomExec
    WITH MaxWords <- 2,
         entry <- x1, line <- x2, dirSpaces <- x3, snap <- x4, stored <- x5,
         at <- x6, argv <- x7
Dirs == INSTANCE Directories
    WITH Scopes <- PackagedScopes,
         fs <- x1, registry <- x2, given <- x3
PubSub == INSTANCE PubSub
    WITH Clients <- {"l", "a"}, TopicOf <- [l |-> <<>>, a |-> <<"a">>],
         Scopes <- {<<"a">>, <<"a", "b">>}, MaxSent <- 1,
         dirs <- x1, pub <- x2, queue <- x3, sent <- x4, sub <- x5,
         wire <- x6, got <- x7, expected <- x8
Proxies == INSTANCE Proxies
    WITH Scopes <- {"s"}, Pieces <- ProxyPieces, MaxTokens <- 6,
         MaxProxies <- 2,
         dirs <- x1, mws <- x2, adapters <- x3, proxies <- x4, text <- x5
Marshal == INSTANCE Marshal
    WITH LastInfoCode <- 2, MaxCalls <- 3,
         exists <- x1, debug <- x2, cached <- x3, passed <- x4, request <- x5,
         timeout <- x6, called <- x7, done <- x8, response <- x9,
         result <- x10, calls <- x11
Runner == INSTANCE ScopeRunner
    WITH Libs <- {1, 2}, MaxSignals <- 2,
         main <- x1, libs <- x2, ini <- x3, lib <- x4, rt <- x5,
         factory <- x6, mw <- x7, signal <- x8, signals <- x9, lost <- x10,
         set <- x11, started <- x12, stops <- x13, runner <- x14,
         states <- x15, ep <- x16, status <- x17
Loader == INSTANCE ScopeLoader
    WITH Paths <- {"p"}, MaxCalls <- 5,
         files <- x1, handles <- x2, path <- x3, state <- x4, scope <- x5,
         thrown <- x6, calls <- x7
Remote == INSTANCE RemoteScopes
    WITH Answers <- ServerLists, MaxRefresh <- 3,
         response <- x1, file <- x2, cached <- x3, have <- x4, thread <- x5,
         remote <- x6, newScopes <- x7, newUrls <- x8, changed <- x9,
         scopes <- x10, urls <- x11, defs <- x12, unmade <- x13,
         timeout <- x14, publisher <- x15, known <- x16, refreshes <- x17,
         query <- x18
Accounts == INSTANCE OnlineAccounts
    WITH Accounts <- {1}, MaxInfos <- 2, MaxChanges <- 2, MaxCalls <- 2,
         world <- x1, events <- x2, infos <- x3, accounts <- x4,
         logins <- x5, mutex <- x6, callback <- x7, callbackMutex <- x8,
         pc <- x9, reported <- x10, missed <- x11, answers <- x12,
         count <- x13, asked <- x14, wrong <- x15
Map == INSTANCE ServantMap
    WITH Workers <- {"w"}, Callers <- {"c", "d"}, Ids <- {"i"},
         Category <- "cat",
         state <- x1, mutex <- x2, maps <- x3, made <- x4, dead <- x5,
         thr <- x6, cleaner <- x7

(* The variables after the first k, and that they are not used.            *)
rest18 == <<x19, x20, x21, x22>>
rest17 == <<x18, rest18>>
rest15 == <<x16, x17, rest17>>
rest13 == <<x14, x15, rest15>>
rest12 == <<x13, rest13>>
rest11 == <<x12, rest12>>
rest9 == <<x10, x11, rest11>>
rest8 == <<x9, rest9>>
rest7 == <<x8, rest8>>
rest5 == <<x6, x7, rest7>>
rest4 == <<x5, rest5>>
rest3 == <<x4, rest4>>
rest1 == <<x2, x3, rest3>>

No18 == x19 = 0 /\ x20 = 0 /\ x21 = 0 /\ x22 = 0
No17 == x18 = 0 /\ No18
No15 == x16 = 0 /\ x17 = 0 /\ No17
No13 == x14 = 0 /\ x15 = 0 /\ No15
No12 == x13 = 0 /\ No13
No11 == x12 = 0 /\ No12
No9 == x10 = 0 /\ x11 = 0 /\ No11
No8 == x9 = 0 /\ No9
No7 == x8 = 0 /\ No8
No5 == x6 = 0 /\ x7 = 0 /\ No7
No4 == x5 = 0 /\ No5
No3 == x4 = 0 /\ No4
No1 == x2 = 0 /\ x3 = 0 /\ No3

vars == <<part, x1, x2, x3, x4, x5, x6, x7, x8, x9, x10, x11, x12, x13, x14,
          x15, x16, x17, x18, x19, x20, x21, x22>>

Init ==
    \/ part = "codec" /\ Codec!Init /\ No4
    \/ part = "widgets" /\ Widgets!Init /\ No4
    \/ part = "results" /\ Results!Init /\ No4
    \/ part = "departments" /\ Departments!Init /\ No3
    \/ part = "canned" /\ Canned!Init /\ No1
    \/ part = "filters" /\ Filters!Init /\ No4
    \/ part = "settings" /\ Settings!Init /\ No9
    \/ part = "children" /\ Children!Init /\ No7
    \/ part = "config" /\ Config!Init /\ No4
    \/ part = "qtresult" /\ QtResult!Init /\ No9
    \/ part = "client" /\ Client!Init /\ No12
    \/ part = "timed" /\ Timed!Init
    \/ part = "pool" /\ Pool!Init /\ No5
    \/ part = "watcher" /\ Watcher!Init /\ No13
    \/ part = "finder" /\ Finder!Init /\ No5
    \/ part = "known" /\ Known!Init /\ No15
    \/ part = "exec" /\ Command!Init /\ No7
    \/ part = "dirs" /\ Dirs!Init /\ No3
    \/ part = "pubsub" /\ PubSub!Init /\ No8
    \/ part = "proxies" /\ Proxies!Init /\ No5
    \/ part = "marshal" /\ Marshal!Init /\ No11
    \/ part = "runner" /\ Runner!Init /\ No17
    \/ part = "loader" /\ Loader!Init /\ No7
    \/ part = "remote" /\ Remote!Init /\ No18
    \/ part = "accounts" /\ Accounts!Init /\ No15
    \/ part = "map" /\ Map!Init /\ No7

Next ==
    /\ UNCHANGED part
    /\ \/ part = "codec" /\ Codec!Next /\ UNCHANGED rest4
       \/ part = "widgets" /\ Widgets!Next /\ UNCHANGED rest4
       \/ part = "results" /\ Results!Next /\ UNCHANGED rest4
       \/ part = "departments" /\ Departments!Next /\ UNCHANGED rest3
       \/ part = "canned" /\ Canned!Next /\ UNCHANGED rest1
       \/ part = "filters" /\ Filters!Next /\ UNCHANGED rest4
       \/ part = "settings" /\ Settings!Next /\ UNCHANGED rest9
       \/ part = "children" /\ Children!Next /\ UNCHANGED rest7
       \/ part = "config" /\ Config!Next /\ UNCHANGED rest4
       \/ part = "qtresult" /\ QtResult!Next /\ UNCHANGED rest9
       \/ part = "client" /\ Client!Next /\ UNCHANGED rest12
       \/ part = "timed" /\ Timed!Next
       \/ part = "pool" /\ Pool!Next /\ UNCHANGED rest5
       \/ part = "watcher" /\ Watcher!Next /\ UNCHANGED rest13
       \/ part = "finder" /\ Finder!Next /\ UNCHANGED rest5
       \/ part = "known" /\ Known!Next /\ UNCHANGED rest15
       \/ part = "exec" /\ Command!Next /\ UNCHANGED rest7
       \/ part = "dirs" /\ Dirs!Next /\ UNCHANGED rest3
       \/ part = "pubsub" /\ PubSub!Next /\ UNCHANGED rest8
       \/ part = "proxies" /\ Proxies!Next /\ UNCHANGED rest5
       \/ part = "marshal" /\ Marshal!Next /\ UNCHANGED rest11
       \/ part = "runner" /\ Runner!Next /\ UNCHANGED rest17
       \/ part = "loader" /\ Loader!Next /\ UNCHANGED rest7
       \/ part = "remote" /\ Remote!Next /\ UNCHANGED rest18
       \/ part = "accounts" /\ Accounts!Next /\ UNCHANGED rest15
       \/ part = "map" /\ Map!Next /\ UNCHANGED rest7

Spec == Init /\ [][Next]_vars

(* Whatever a scope builds out of the values of the API, the client        *)
(* receives (serialize() and deserialize() of each class,                  *)
(* validate_departments(), parse_departments() of the remote scopes,       *)
(* to_uri() and from_uri(), QResultImpl::sync_values; the properties of    *)
(* Codec, Widgets, Filters, Departments, CannedQueries and QtResult).      *)
BuiltIsReceived ==
    /\ part = "codec" => Codec!ValuesKept
    /\ part = "widgets" => Widgets!BuiltIsReceived
    /\ part = "filters" => Filters!DefinitionReceived
    /\ part = "departments" => Departments!DepartmentsSound /\ Departments!RemoteDepartmentsKept
    /\ part = "canned" => Canned!UriKept
    /\ part = "qtresult" => QtResult!TypeOK /\ QtResult!AttributesKept

(* Who waits for the end of a reply gets it, with all that came before,    *)
(* whichever process dies (ClientServed in DemoClient: demo/client.cpp,    *)
(* demo/scopes).                                                           *)
WaitersServed == part = "client" => Client!ClientServed

(* What the user chooses with a filter is what the scope reads, and a      *)
(* state that another scope recorded does not break it (update_state() and *)
(* the methods that read a FilterState, of each filter; ChoiceArrives and  *)
(* ForeignTolerated in Filters).                                           *)
ChoiceArrives == part = "filters" => Filters!ChoiceArrives /\ Filters!ForeignTolerated

(* A result is activated and previewed by the scope that made it or was    *)
(* the last to intercept it, through any chain of aggregators              *)
(* (ResultImpl::target_scope_proxy, activation_target, direct_activation;  *)
(* see Results).                                                           *)
ActivationReachesOwner == part = "results" => Results!ActivationReachesOwner

(* The settings that a scope reads have the types of the schema and are    *)
(* those of the database as it is now, none from an earlier one            *)
(* (SettingsDB::process_all_docs; see Settings).                           *)
SettingsCurrent == part = "settings" => Settings!SettingsCurrent

(* A child scope stays enabled or disabled as the user last said, also     *)
(* after a restart, unless the process ended in the middle of a write      *)
(* (ChildScopesRepository; see ChildScopes).                               *)
ChoiceRemembered == part = "children" => Children!ChoiceRemembered

(* A configuration that was accepted has a directory for everything and no *)
(* period of zero, and every line of [Appearance] is found under its name, *)
(* in any order of the lines (the constructors of the configuration        *)
(* classes; ConfigUsable and AppearanceKept in Config).                    *)
ConfigUsable == part = "config" => Config!ConfigUsable /\ Config!AppearanceKept

(* No item outlives its expiry by more than a reap interval (reap_func(),  *)
(* remove_zombies(); see Reaper), and no open connection is without an     *)
(* item in the reaper (find() and remove() of ConnectionPool;              *)
(* NoneForgotten there).                                                   *)
LifeTimeBounded ==
    /\ part = "timed" => Timed!LifeTimeBounded
    /\ part = "pool" => Pool!NoneForgotten

(* Once the watcher has caught up with the directory events, the registry  *)
(* has the current version of every scope that is installed and none that  *)
(* is gone, but for the exceptions that are named there (DirWatcher,       *)
(* ScopesWatcher).                                                         *)
WatcherSettled == part = "watcher" => Watcher!WatcherSettled

(* The registry uses, for every scope id, the file of the command line,    *)
(* unless only a click scope has that id too, then those of the            *)
(* distribution, the OEM and click packages, as they may be overridden;    *)
(* a subscriber that lists the scopes after every message knows those      *)
(* there are; desktop files go with the scopes (main() of scoperegistry,   *)
(* RegistryObject; Precedence in ScopeFinder, KnownScopes and DesktopFiles *)
(* in RegistryScopes).                                                     *)
ScopesKnown ==
    /\ part = "finder" => Finder!Precedence
    /\ part = "known" => Known!KnownScopes /\ Known!DesktopFiles

(* A callback is called once and in order for the messages of its topic,   *)
(* and no other, while it is connected (ZmqPublisher, ZmqSubscriber; see   *)
(* PubSub).                                                                *)
ConnectedGetsAll == part = "pubsub" => PubSub!ConnectedGetsAll

(* The endpoint and the mode of a proxy are those of the adapter that      *)
(* serves the object in another process, a proxy survives being a string,  *)
(* and the servant that a request finds is not destroyed while it is in    *)
(* use (ZmqMiddleware::find_adapter, create_..._proxy(),                   *)
(* string_to_proxy(), ObjectAdapter::find_servant; ProxyFindsServant and   *)
(* ProxyStringKept in Proxies, ServantsSafe in ServantMap).                *)
ProxyFindsServant ==
    /\ part = "proxies" => Proxies!ProxyFindsServant /\ Proxies!ProxyStringKept
    /\ part = "map" => Map!ServantsSafe

(* A remote call behaves like a call of the delegate: same arguments, same *)
(* value, and the exceptions that the operation declares                   *)
(* (ServantBase::safe_dispatch_, throw_if_runtime_exception(); see         *)
(* Marshal).                                                               *)
RemoteAsLocal == part = "marshal" => Marshal!RemoteAsLocal

(* A scope is started with the command of its configuration, has the       *)
(* directories it is promised, and is stopped exactly as often as it was   *)
(* started, whatever fails (ScopeProcess::exec, RuntimeImpl::run_scope,    *)
(* ScopeLoader; the properties of CustomExec, Directories, ScopeRunner and *)
(* ScopeLoader).                                                           *)
ScopeHosted ==
    /\ part = "exec" => Command!StartsAsConfigured
    /\ part = "dirs" => Dirs!DirectoriesUsable
    /\ part = "runner" => Runner!StopPaired
    /\ part = "loader" => Loader!StartsAndStops

(* Who lists the remote scopes after every message knows which there are   *)
(* and where, whatever the server does, unless there is no publisher; a    *)
(* scope with settings has the database for its schema, unless that could  *)
(* not be made; and a list in the cache can be used, also after a crash    *)
(* (SSRegistryObject::get_remote_scopes, SmartScopesClient::write_cache;   *)
(* SubscribersInformed, SettingsOfScope and CacheUsable in RemoteScopes).  *)
SubscribersInformed ==
    part = "remote" =>
        Remote!SubscribersInformed /\ Remote!SettingsOfScope /\ Remote!CacheUsable

(* When nothing is under way, the last status that the callback of a scope *)
(* was told for each account is the one in the backend, also when it was   *)
(* installed after the account was found; and one thread at a time reports *)
(* (OnlineAccountClientImpl; StatusReported and OneNotifier in             *)
(* OnlineAccounts).                                                        *)
StatusReported == part = "accounts" => Accounts!StatusReported /\ Accounts!OneNotifier

=============================================================================
