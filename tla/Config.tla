------------------------------- MODULE Config -------------------------------
(* The configuration files of the run time, the registry, the middleware,  *)
(* the remote scopes and a scope.  A file is a function from its keys to   *)
(* raw values, <<"text", s>>, <<"int", n>>, <<"bool", b>> or <<"list",     *)
(* strings>>; with kind "none" there is no file.  A configuration is a     *)
(* record, or Illegal if the constructor throws.                           *)
EXTENDS Integers, Sequences, FiniteSets, TLC

CONSTANTS Lines,        \* the lines <<key, raw value>> that a file may have
          Attributes,   \* the lines of [Appearance]: <<parts of the key, raw value>>
          MaxLines

VARIABLES kind,         \* the type of the file
          ini,          \* its lines
          home,         \* $HOME, or ""
          order         \* the keys of [Appearance], in the order of the file

vars == <<kind, ini, home, order>>

Illegal == [legal |-> FALSE]

-----------------------------------------------------------------------------
(* ConfigBase                                                              *)
Text(raw) == IF raw[1] = "text" THEN raw[2] ELSE "text"

GetOptionalString(f, key, dflt) == IF key \in DOMAIN f THEN Text(f[key]) ELSE dflt

(* A value that is not of the type counts as one that is not there.        *)
GetOptional(f, key, type, dflt) ==
    IF key \in DOMAIN f /\ f[key][1] = type THEN f[key][2] ELSE dflt

GetOptionalInt(f, key, dflt) == GetOptional(f, key, "int", dflt)

GetMiddleware(f, key) ==
    LET v == GetOptionalString(f, key, "") IN IF v = "" THEN "Zmq" ELSE v

LegalMiddleware(f, key) == GetMiddleware(f, key) \in {"Zmq", "REST"}

(* The directory of a key; the default is under $HOME.                     *)
Directory(f, key, subdir) ==
    LET dir == GetOptionalString(f, key, "")
    IN  IF dir # "" THEN dir ELSE IF home # "" THEN subdir ELSE ""

-----------------------------------------------------------------------------
(* RuntimeConfig: without a file all values are defaults; with a file the  *)
(* identity and the configuration file of the registry have none.          *)
RuntimeDefaults ==
    [legal |-> TRUE, registry_identity |-> "Registry", registry_configfile |-> "Registry.ini",
     ss_registry_identity |-> "SSRegistry", middleware |-> "Zmq",
     reap_expiry |-> 45, reap_interval |-> 10,
     cache |-> Directory(<<>>, "CacheDir", "share"),
     app |-> Directory(<<>>, "AppDir", "share"),
     config |-> Directory(<<>>, "ConfigDir", "config")]

(* Mutant: an interval of 0 is accepted.                                   *)
LegalReapZero(n) == n >= -1

LegalReap(n) == n >= 1 \/ n = -1

RuntimeFromFile(f) ==
    [legal |-> TRUE,
     registry_identity |-> GetOptionalString(f, "Registry.Identity", ""),
     registry_configfile |-> GetOptionalString(f, "Registry.ConfigFile", ""),
     ss_registry_identity |-> GetOptionalString(f, "Smartscopes.Registry.Identity", "SSRegistry"),
     middleware |-> GetMiddleware(f, "Default.Middleware"),
     reap_expiry |-> GetOptionalInt(f, "Reap.Expiry", 45),
     reap_interval |-> GetOptionalInt(f, "Reap.Interval", 10),
     cache |-> Directory(f, "CacheDir", "share"),
     app |-> Directory(f, "AppDir", "share"),
     config |-> Directory(f, "ConfigDir", "config")]

RuntimeConfig(f) ==
    LET c == IF kind = "none" THEN RuntimeDefaults ELSE RuntimeFromFile(f)
    IN  IF /\ LegalMiddleware(f, "Default.Middleware")
           /\ LegalReap(c.reap_expiry) /\ LegalReap(c.reap_interval)
           /\ "" \notin {c.cache, c.app, c.config}
        THEN c ELSE Illegal

RegistryConfig(f) ==
    LET c == [legal |-> TRUE, middleware |-> GetMiddleware(f, "Middleware"),
              scope_installdir |-> GetOptionalString(f, "Scope.InstallDir", "lib"),
              oem_installdir |-> GetOptionalString(f, "OEM.InstallDir", "custom"),
              click_installdir |-> Directory(f, "Click.InstallDir", "share"),
              scoperunner |-> GetOptionalString(f, "Scoperunner.Path", "/scoperunner"),
              process_timeout |-> GetOptionalInt(f, "Process.Timeout", 4000)]
    IN  IF /\ LegalMiddleware(f, "Middleware") /\ c.click_installdir # ""
           /\ c.scoperunner \in {"/scoperunner", "/runner"}
           /\ c.process_timeout \in 10..60000
        THEN c ELSE Illegal

(* ZmqConfig: the default endpoint directory is under $XDG_RUNTIME_DIR,    *)
(* which is set if $HOME is.                                               *)
ZmqConfig(f) ==
    LET c == [legal |-> TRUE,
              endpoint_dir |-> Directory(f, "EndpointDir", "run"),
              twoway |-> GetOptionalInt(f, "Default.Twoway.Timeout", 500),
              registry |-> GetOptionalInt(f, "Registry.Timeout", 5000),
              locate |-> GetOptionalInt(f, "Locate.Timeout", 5000),
              child_scopes |-> GetOptionalInt(f, "ChildScopes.Timeout", 2000)]
    IN  IF /\ c.endpoint_dir # "" /\ c.twoway >= -1
           /\ {c.registry, c.locate, c.child_scopes} \subseteq 10..60000
        THEN c ELSE Illegal

SSConfig(f) ==
    LET c == [legal |-> TRUE,
              http_reply_timeout |-> GetOptionalInt(f, "Http.Reply.Timeout", 20),
              refresh_rate |-> GetOptionalInt(f, "Registry.Refresh.Rate", 86400),
              fail_timeout |-> GetOptionalInt(f, "Registry.Refresh.Fail.Timeout", 10),
              identity |-> GetOptionalString(f, "Scope.Identity", "SmartScope")]
    IN  IF /\ c.http_reply_timeout \in 1..60
           /\ c.refresh_rate >= 60 /\ c.fail_timeout >= 1
        THEN c ELSE Illegal

-----------------------------------------------------------------------------
(* ScopeConfig: three mandatory strings, then the optional values.         *)
MandatoryKeys == {"DisplayName", "Description", "Author"}

Mandatory(f) ==
    \A key \in MandatoryKeys :
        key \in DOMAIN f /\ Text(f[key]) # ""

Optional(f) ==
    [art |-> GetOptionalString(f, "Art", "unset"),
     icon |-> GetOptionalString(f, "Icon", "unset"),
     search_hint |-> GetOptionalString(f, "SearchHint", "unset"),
     hot_key |-> GetOptionalString(f, "HotKey", "unset"),
     scope_runner |-> GetOptionalString(f, "ScopeRunner", "unset"),
     overrideable |-> GetOptional(f, "Overrideable", "bool", FALSE),
     invisible |-> GetOptional(f, "Invisible", "bool", FALSE),
     location_data_needed |-> GetOptional(f, "LocationDataNeeded", "bool", FALSE),
     is_aggregator |-> GetOptional(f, "IsAggregator", "bool", FALSE),
     debug_mode |-> GetOptional(f, "DebugMode", "bool", FALSE)]

IdleTimeout(f) == GetOptionalInt(f, "IdleTimeout", 40)

(* An illegal ttl or version is an error, one of another type is not read. *)
ResultsTtl(f) ==
    LET ttl == GetOptionalString(f, "ResultsTtlType", "none")
    IN  IF ttl = "" THEN "none" ELSE ttl

Version(f) == GetOptionalInt(f, "Version", 0)

LegalVersion(f) == "Version" \in DOMAIN f /\ f["Version"][1] = "int" => Version(f) > 0

(* The ids of the child scopes and the keywords: none may be empty.         *)
GetList(f, key) == GetOptional(f, key, "list", <<>>)

NoneEmpty(f, key) == \A i \in DOMAIN GetList(f, key) : GetList(f, key)[i] # ""

ScopeConfig(f) ==
    IF /\ Mandatory(f)
       /\ IdleTimeout(f) \in 1..300
       /\ ResultsTtl(f) \in {"none", "small", "medium", "large"}
       /\ LegalVersion(f)
       /\ NoneEmpty(f, "ChildScopes") /\ NoneEmpty(f, "Keywords")
    THEN Optional(f) @@ [legal |-> TRUE, idle_timeout |-> IdleTimeout(f),
                         ttl |-> ResultsTtl(f), version |-> Version(f),
                         child_scope_ids |-> GetList(f, "ChildScopes"),
                         keywords |-> GetList(f, "Keywords")]
    ELSE Illegal

(* parse_appearance_attribute(): a key with a dot goes into a dictionary   *)
(* of its own.  A dictionary is <<"Dict", function>>.  If the prefix of a  *)
(* key already has a value of another type, the attributes that follow are *)
(* dropped.                                                                *)
Uncamelcase(name) ==
    CASE name = "PageHeader" -> "page-header"
      [] name = "Logo" -> "logo"
      [] name = "ShapeImages" -> "shape-images"
      [] OTHER -> name

RECURSIVE ParseAttribute(_, _, _)
ParseAttribute(var, key, raw) ==
    LET name == Uncamelcase(Head(key))
        inner == IF name \in DOMAIN var THEN var[name][2] ELSE <<>>
    IN  IF Len(key) = 1 THEN (name :> raw) @@ var
        ELSE (name :> <<"Dict", ParseAttribute(inner, Tail(key), raw)>>) @@ var

Conflict(var, key) ==
    /\ Len(key) > 1
    /\ LET name == Uncamelcase(Head(key))
       IN  name \in DOMAIN var /\ var[name][1] # "Dict"

RECURSIVE Appearance(_, _)
Appearance(var, lines) ==
    IF lines = <<>> \/ Conflict(var, Head(lines)[1]) THEN var
    ELSE Appearance(ParseAttribute(var, Head(lines)[1], Head(lines)[2]), Tail(lines))

RECURSIVE Lookup(_, _)
Lookup(var, key) ==
    LET name == Uncamelcase(Head(key))
    IN  IF name \notin DOMAIN var THEN <<"none">>
        ELSE IF Len(key) = 1 THEN var[name]
        ELSE IF var[name][1] = "Dict" THEN Lookup(var[name][2], Tail(key)) ELSE <<"none">>

-----------------------------------------------------------------------------
(* A file is written line by line; the mandatory lines of a scope, which   *)
(* may be there from the start, do not count.                              *)
AddLine ==
    /\ kind # "none" /\ order = <<>> /\ Cardinality(DOMAIN ini \ MandatoryKeys) < MaxLines
    /\ \E l \in Lines :
           /\ l[1] \notin DOMAIN ini /\ (kind = "scope" \/ l[1] \notin MandatoryKeys)
           /\ ini' = (l[1] :> l[2]) @@ ini
    /\ UNCHANGED <<kind, home, order>>

AddAttribute ==
    /\ kind = "scope" /\ DOMAIN ini = {}
    /\ \E l \in Attributes :
           /\ \A i \in DOMAIN order : order[i][1] # l[1]
           /\ order' = Append(order, l)
    /\ UNCHANGED <<kind, ini, home>>

Init ==
    /\ kind \in {"none", "runtime", "registry", "zmq", "smartscopes", "scope"}
    /\ \/ ini = <<>>
       \/ kind = "scope" /\ ini = [key \in MandatoryKeys |-> <<"text", "name">>]
    /\ order = <<>>
    /\ home \in {"", "home"}

Next == AddLine \/ AddAttribute

Spec == Init /\ [][Next]_vars

-----------------------------------------------------------------------------
(* The run time, the registry and the middleware can rely on a             *)
(* configuration that was accepted, whatever is missing in the file and in *)
(* the environment: there is a directory for everything, a scope that was  *)
(* asked for is waited for, and the periods of reaping, refreshing and     *)
(* idling are never zero.                                                  *)
ConfigUsable ==
    /\ kind \in {"none", "runtime"} /\ RuntimeConfig(ini).legal =>
           LET c == RuntimeConfig(ini)
           IN  /\ "" \notin {c.cache, c.app, c.config, c.middleware}
               /\ 0 \notin {c.reap_expiry, c.reap_interval}
    /\ kind = "registry" /\ RegistryConfig(ini).legal =>
           /\ RegistryConfig(ini).process_timeout > 0
           /\ RegistryConfig(ini).click_installdir # ""
    /\ kind = "zmq" /\ ZmqConfig(ini).legal =>
           ZmqConfig(ini).endpoint_dir # "" /\ ZmqConfig(ini).locate > 0
    /\ kind = "smartscopes" /\ SSConfig(ini).legal =>
           SSConfig(ini).refresh_rate >= SSConfig(ini).http_reply_timeout
    /\ kind = "scope" /\ ScopeConfig(ini).legal =>
           /\ ScopeConfig(ini).idle_timeout > 0 /\ ScopeConfig(ini).version >= 0
           /\ \A i \in DOMAIN ScopeConfig(ini).child_scope_ids :
                  ScopeConfig(ini).child_scope_ids[i] # ""

(* Every line of [Appearance] is found under its name, in the dictionary   *)
(* of its prefix, in whatever order the lines come, unless a prefix is     *)
(* itself a key (ScopeConfig::parse_appearance_attribute).                 *)
AppearanceKept ==
    LET keys == {order[i][1] : i \in DOMAIN order}
        clash == \E k, l \in keys : Len(k) < Len(l) /\ k = SubSeq(l, 1, Len(k))
    IN  ~ clash => \A i \in DOMAIN order :
                       Lookup(Appearance(<<>>, order), order[i][1]) = order[i][2]

(* "In general, if a recognized key is not set in a configuration file, a  *)
(* default value applies"; Registry.Identity: "If not set, the default     *)
(* value is "Registry"." (CONFIGFILES)                                     *)
RegistryIdentityDefault ==
    kind = "runtime" /\ RuntimeConfig(ini).legal /\ "Registry.Identity" \notin DOMAIN ini =>
        RuntimeConfig(ini).registry_identity = "Registry"

=============================================================================
