------------------------------- MODULE Proxies ------------------------------
(* Proxies: how a process names an object of another process, and how a    *)
(* proxy is written as a string and read back.  A string is a sequence of  *)
(* tokens; an endpoint is <<scheme, directory, server name, suffix>>.      *)
EXTENDS Integers, Sequences, SequencesExt, FiniteSets, TLC

CONSTANTS Scopes,       \* the scope processes
          Pieces,       \* token sequences that a proxy string is put together from
          MaxTokens, MaxProxies

VARIABLES dirs,         \* which registries have an endpoint directory of their own
          mws,          \* the servers whose middleware the factory created
          adapters,     \* am_ of each server: <<server, suffix>> -> the adapter
          proxies,      \* the proxies that were handed out: [server, category, id]
          text          \* a proxy string

vars == <<dirs, mws, adapters, proxies, text>>

Null == [kind |-> "null"]

Bad == [kind |-> "bad"]

Servers == Scopes \cup {"Registry", "SSRegistry"}

Categories == {"Query", "QueryCtrl", "Reply", "State", "Scope", "Registry"}

Suffix(category) ==
    CASE category = "Query" -> "-q" [] category = "QueryCtrl" -> "-c" [] category = "Reply" -> "-r"
      [] category = "State" -> "-s" [] category = "Registry" -> "-R" [] OTHER -> ""

-----------------------------------------------------------------------------
(* The directories that ZmqMiddleware() takes from the configuration.      *)
RegistryEndpointDir == IF "Registry" \in dirs THEN "reg dir" ELSE "public dir"

SSRegistryEndpointDir == IF "SSRegistry" \in dirs THEN "ss dir" ELSE "public dir"

(* The directory that each add_..._object() passes to find_adapter().      *)
AdapterDir(server, category) ==
    CASE category \in {"Query", "QueryCtrl", "Scope"} -> "private dir"
      [] category = "Reply" -> "public dir"
      [] category = "Registry" ->
             IF server = "Registry" THEN RegistryEndpointDir ELSE SSRegistryEndpointDir
      [] category = "State" ->
             IF server = "Registry" THEN RegistryEndpointDir ELSE "public dir"

(* Mutant: oneway and twoway interfaces are not told apart.                *)
NewAdapterTwoway(server, category) ==
    [endpoint |-> <<IF category = "Query" THEN "inproc" ELSE "ipc", AdapterDir(server, category), server, Suffix(category)>>,
     mode |-> "Twoway", pool |-> 1, ids |-> {}, dflt |-> {}]

(* find_adapter(): the mode and the size of the pool depend on the         *)
(* category; queries are always inproc.                                    *)
NewAdapter(server, category) ==
    [endpoint |-> IF category = "Query" THEN <<"inproc", "", server, "-q">>
                  ELSE <<"ipc", AdapterDir(server, category), server, Suffix(category)>>,
     mode |-> IF category \in {"Scope", "Registry"} THEN "Twoway" ELSE "Oneway",
     pool |-> IF category = "Registry" THEN 11 ELSE 1,
     ids |-> {}, dflt |-> {}]

FindAdapter(server, category) ==
    LET name == <<server, Suffix(category)>>
    IN  IF name \in DOMAIN adapters THEN adapters[name] ELSE NewAdapter(server, category)

(* Which objects a server has: the identity of a scope, of a registry and  *)
(* of a state receiver is given, others get a new one.                     *)
Identities(server, category) ==
    CASE category \in {"Scope", "Registry"} -> {<<server>>}
      [] category = "State" -> {<<"StateReceiver">>}
      [] OTHER -> {<<"new", Cardinality(proxies)>>}

Offers(server, category) ==
    CASE category = "Registry" -> server \notin Scopes
      [] category = "Scope" -> server # "Registry"
      [] OTHER -> TRUE

(* add_..._object(), safe_add(): the proxy has the endpoint of the adapter *)
(* and the mode of its interface.                                          *)
AddObject(server, category) ==
    /\ server \in mws /\ Offers(server, category) /\ Cardinality(proxies) < MaxProxies /\ text = <<>>
    /\ \E id \in Identities(server, category) :
           LET a == FindAdapter(server, category)
           IN  /\ id \notin a.ids
               /\ adapters' = (<<server, Suffix(category)>> :> [a EXCEPT !.ids = @ \cup {id}]) @@ adapters
               /\ proxies' = proxies \cup {[endpoint |-> a.endpoint, id |-> id, category |-> category, server |-> server]}
    /\ UNCHANGED <<dirs, mws, text>>

(* The categories with an add_dflt_..._object().                           *)
DfltCategories == {"Query", "QueryCtrl", "Scope"}

(* add_dflt_..._object(), safe_dflt_add(): the smart scopes proxy answers  *)
(* for every identity of a category.                                       *)
AddDfltObject(category) ==
    LET a == FindAdapter("SSRegistry", category)
    IN  /\ "SSRegistry" \in mws /\ text = <<>> /\ category \in DfltCategories
        /\ category \notin a.dflt
        /\ adapters' = (<<"SSRegistry", Suffix(category)>> :> [a EXCEPT !.dflt = @ \cup {category}]) @@ adapters
        /\ UNCHANGED <<dirs, mws, proxies, text>>

(* MiddlewareFactory::create().                                            *)
CreateMiddleware(server) ==
    /\ server \notin mws /\ (mws = {} \/ text = <<>>) /\ mws' = mws \cup {server}
    /\ UNCHANGED <<dirs, adapters, proxies, text>>

-----------------------------------------------------------------------------
(* The proxies that a process makes itself, to reach another one.          *)
RegistryProxy == <<"ipc", RegistryEndpointDir, "Registry", "-R">>

SSRegistryProxy == <<"ipc", SSRegistryEndpointDir, "SSRegistry", "-R">>

CreateScopeProxy(id) == <<"ipc", "private dir", id, "">>

(* Mutant: the receiver of the registry is looked for with the others.     *)
PublicStateReceiver == <<"ipc", "public dir", "Registry", "-s">>

CreateRegistryStateReceiverProxy == <<"ipc", RegistryEndpointDir, "Registry", "-s">>

CreateStateReceiverProxy(server) ==
    <<"ipc", IF server = "Registry" THEN RegistryEndpointDir ELSE "public dir", server, "-s">>

(* create_query_proxy(), create_query_ctrl_proxy() are given these.        *)
GetQueryEndpoint(server) == <<"inproc", "", server, "-q">>

GetQueryCtrlEndpoint(server) == <<"ipc", "private dir", server, "-c">>

GetScopeEndpoint(server) == <<"ipc", "private dir", server, "">>

Made ==
    [endpoint : {RegistryProxy}, category : {"Registry"}, server : {"Registry"}]
    \cup [endpoint : {SSRegistryProxy}, category : {"Registry"}, server : {"SSRegistry"}]
    \cup [endpoint : {CreateRegistryStateReceiverProxy}, category : {"State"}, server : {"Registry"}]
    \cup UNION {{[endpoint |-> CreateScopeProxy(s), category |-> "Scope", server |-> s]} : s \in Scopes}
    \cup UNION {{[endpoint |-> CreateStateReceiverProxy(s), category |-> "State", server |-> s],
                 [endpoint |-> GetQueryEndpoint(s), category |-> "Query", server |-> s],
                 [endpoint |-> GetQueryCtrlEndpoint(s), category |-> "QueryCtrl", server |-> s]} : s \in Servers}
    \cup {[endpoint |-> GetScopeEndpoint("SSRegistry"), category |-> "Scope", server |-> "SSRegistry"]}

(* The constructors of the ZmqObjectProxy classes.                         *)
ProxyMode(category) == IF category \in {"Scope", "Registry"} THEN "Twoway" ELSE "Oneway"

-----------------------------------------------------------------------------
(* Strings.  A proxy is [endpoint, id, category, mode, timeout], where the *)
(* endpoint and the id are sequences of tokens.                            *)
Position(t, s) == IF \E i \in 1..Len(s) : s[i] = t
                  THEN CHOOSE i \in 1..Len(s) : s[i] = t /\ \A j \in 1..i-1 : s[j] # t
                  ELSE Len(s) + 1

(* The fields after the identity; each begins with "!".                    *)
RECURSIVE Fields(_)
Fields(s) ==
    IF s = <<>> THEN <<>>
    ELSE LET rest == IF Head(s) = "!" THEN Tail(s) ELSE s
             n == Position("!", rest)
         IN  <<SubSeq(rest, 1, n - 1)>> \o
             IF n = 1 THEN <<>> ELSE Fields(SubSeq(rest, n, Len(rest)))

Field(fields, key, default) ==
    IF \E i \in 1..Len(fields) : fields[i][1] = key
    THEN LET i == CHOOSE i \in 1..Len(fields) : fields[i][1] = key IN Tail(fields[i]) ELSE default

(* stol() and the tests on what it returns.                                *)
Timeout(v) == IF Len(v) = 1 /\ v[1] \in {"0", "5"} THEN IF v[1] = "0" THEN 0 ELSE 5
              ELSE IF v = <<"-1">> THEN -1 ELSE -2

(* make_typed_proxy().                                                     *)
MakeTypedProxy(p) == IF p.mode = "Oneway" \/ p.category \notin {<<"Scope">>, <<"Registry">>} THEN Bad ELSE p

(* ZmqMiddleware::string_to_proxy().                                       *)
StringToProxy(s) ==
    LET hash == Position("#", s)
        after == SubSeq(s, hash + 1, Len(s))
        excl == Position("!", after)
        fields == Fields(SubSeq(after, excl, Len(after)))
        keys == {"c=", "m=", "t="}
        mode == Field(fields, "m=", <<"t">>)
        timeout == Timeout(Field(fields, "t=", <<"-1">>))
    IN  IF s = <<"nullproxy:">> THEN Null
        ELSE IF \/ s = <<>> \/ s[1] # "ipc://" \/ hash > Len(s) \/ hash = 2 \/ excl = 1
                \/ \E i \in 1..Len(fields) : fields[i] = <<>> \/ fields[i][1] \notin keys
                \/ \E i, j \in 1..Len(fields) : i # j /\ fields[i][1] = fields[j][1]
                \/ mode \notin {<<"o">>, <<"t">>} \/ timeout < -1
             THEN Bad
             ELSE MakeTypedProxy([kind |-> "proxy", endpoint |-> SubSeq(s, 1, hash - 1), id |-> SubSeq(after, 1, excl - 1),
                                  category |-> Field(fields, "c=", <<"Scope">>),
                                  mode |-> IF mode = <<"o">> THEN "Oneway" ELSE "Twoway", timeout |-> timeout])

(* Mutant: the default of reading is taken for that of writing.            *)
StringifyShort(p) == p.endpoint \o <<"#">> \o p.id

(* ZmqObjectProxy::to_string().                                            *)
Stringify(p) ==
    p.endpoint \o <<"#">> \o p.id
    \o (IF p.category # <<>> THEN <<"!", "c=">> \o p.category ELSE <<>>)
    \o (IF p.mode = "Oneway" THEN <<"!", "m=", "o">> ELSE <<>>)
    \o (IF p.timeout # -1 THEN <<"!", "t=", IF p.timeout = 0 THEN "0" ELSE "5">> ELSE <<>>)

(* MiddlewareFactory::find(): by the scheme; there must be a middleware.   *)
FindMiddleware(s) == s # <<>> /\ s[1] = "ipc://" /\ mws # {}

(* RuntimeImpl::string_to_proxy() and proxy_to_string().                   *)
RuntimeStringToProxy(s) == IF FindMiddleware(s) THEN StringToProxy(s) ELSE Bad

RuntimeProxyToString(p) == IF p = Null THEN <<"nullproxy:">> ELSE Stringify(p)

(* Any string at all may be passed to string_to_proxy().                   *)
Extend(piece) ==
    /\ Len(text) \in 1..MaxTokens - 1 /\ proxies = {} /\ dirs = {}
    /\ text' = text \o piece
    /\ UNCHANGED <<dirs, mws, adapters, proxies>>

-----------------------------------------------------------------------------
Init ==
    /\ dirs \in SUBSET {"Registry", "SSRegistry"}
    /\ mws = {} /\ adapters = <<>> /\ proxies = {}
    /\ text \in {<<>>, <<"nullproxy:">>, <<"ipc://">>, <<"ipc://", "/e", "#", "id">>}

Next ==
    \/ \E s \in Servers : CreateMiddleware(s)
    \/ \E s \in Servers, c \in Categories : AddObject(s, c)
    \/ \E c \in Categories : AddDfltObject(c)
    \/ \E piece \in Pieces : Extend(piece)

Spec == Init /\ [][Next]_vars

-----------------------------------------------------------------------------
(* Two processes agree on where an object is: a proxy that one of them     *)
(* makes, or gets, has the endpoint and the mode of the adapter that       *)
(* serves the object in the other, whatever directories are configured;    *)
(* and no two adapters share an endpoint.                                  *)
ProxyFindsServant ==
    /\ \A p \in Made : <<p.server, Suffix(p.category)>> \in DOMAIN adapters =>
           LET a == adapters[<<p.server, Suffix(p.category)>>]
           IN  a.endpoint = p.endpoint /\ a.mode = ProxyMode(p.category)
    /\ \A p \in proxies : \E n \in DOMAIN adapters :
           /\ adapters[n].endpoint = p.endpoint /\ p.id \in adapters[n].ids
           /\ adapters[n].mode = ProxyMode(p.category)
    /\ \A m, n \in DOMAIN adapters : m # n => adapters[m].endpoint # adapters[n].endpoint

(* A string that is accepted as a proxy is a proxy of the same object,     *)
(* with the same timeout, after it was written and read again.             *)
ProxyStringKept ==
    LET p == RuntimeStringToProxy(text)
    IN  p \notin {Bad, Null} => RuntimeStringToProxy(RuntimeProxyToString(p)) = p

(* "It is possible for the return value to be `nullptr`, but only if the   *)
(* passed string represents a null proxy" (Runtime.h): the string of the   *)
(* null proxy is read as the null proxy.                                   *)
NullProxyKept == mws # {} => RuntimeStringToProxy(RuntimeProxyToString(Null)) = Null

=============================================================================
