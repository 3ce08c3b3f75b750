------------------------------- MODULE Codec --------------------------------
(* The value classes that cross a process boundary, and the dictionaries   *)
(* they are written to and read from.  An object is a function from its    *)
(* members to values, a dictionary a function from its keys to values.  A  *)
(* value is a pair of its type and one of a few representatives of that    *)
(* type, among them the empty string, list and dictionary and the negative *)
(* number, which are the ones the classes tell apart.                      *)
(*                                                                         *)
(* serialize() of a class is the set of triples <<member, key, rule>> of   *)
(* the keys that it writes, its constructor from a dictionary the set of   *)
(* tuples <<key, member, rule, type, value when absent>> of those it reads. *)
EXTENDS Integers, FiniteSets, TLC

CONSTANT MaxSets        \* calls of setters

VARIABLES class,        \* the class of the object
          object,       \* the object as it is now
          meant,        \* the values that the scope gave its members
          sets

vars == <<class, object, meant, sets>>

Unset == <<"unset", "">>
Empty == {Unset, <<"string", "">>, <<"array", "[]">>, <<"set", "{}">>,
          <<"dict", "{}">>, <<"int", "0">>, <<"ttl", "None">>}

(* What the getters of a Variant accept: the type the Variant holds.       *)
Holds(w, type) == w[1] = type

(* The representatives that a member or a key of a type can hold.          *)
Sample(type) ==
    CASE type = "string" -> {<<type, x>> : x \in {"", "x"}}
      [] type = "int" -> {<<type, x>> : x \in {"-1", "0", "1"}}
      [] type = "bool" -> {<<type, x>> : x \in {"false", "true"}}
      [] type = "double" -> {<<type, "1.5">>}
      [] type = "dict" -> {<<type, x>> : x \in {"{}", "{a}"}}
      [] type = "array" -> {<<type, x>> : x \in {"[]", "[a]"}}
      [] type = "set" -> {<<type, x>> : x \in {"{}", "{a}"}}
      [] type = "any" -> {<<"null", "">>, <<"string", "x">>}
      [] OTHER -> {}

(* Members that are not stored as Variants, and how they are written: an   *)
(* enumeration as a number or a flag, a set as a list, a proxy, a query, a *)
(* result or a location as a dictionary of its own, a query of a category  *)
(* as a URI.                                                               *)
Conversion ==
    {<<<<"connectivity", "Connected">>, <<"bool", "true">>>>,
     <<<<"connectivity", "Disconnected">>, <<"bool", "false">>>>,
     <<<<"ttl", "None">>, <<"int", "0">>>>, <<<<"ttl", "Large">>, <<"int", "1">>>>,
     <<<<"set", "{}">>, <<"array", "[]">>>>, <<<<"set", "{a}">>, <<"array", "[a]">>>>,
     <<<<"proxy", "p">>, <<"dict", "proxy">>>>,
     <<<<"location", "l">>, <<"dict", "location">>>>,
     <<<<"query", "q">>, <<"dict", "query">>>>,
     <<<<"template", "t">>, <<"string", "json">>>>,
     <<<<"uri_query", "q">>, <<"string", "uri">>>>}

Converted == {c[1][1] : c \in Conversion}

Write(v) == IF v[1] \in Converted
            THEN (CHOOSE c \in Conversion : c[1] = v)[2] ELSE v

(* A number that must not be negative is read as type "nat".               *)
Readable(type, w) ==
    CASE type = "any" -> TRUE
      [] type = "nat" -> Holds(w, "int") /\ w[2] # "-1"
      [] type \in Converted -> \E c \in Conversion : c[1][1] = type /\ c[2] = w
      [] OTHER -> Holds(w, type)

Read(type, w) ==
    IF type \in Converted
    THEN (CHOOSE c \in Conversion : c[1][1] = type /\ c[2] = w)[1] ELSE w

Same(keys, rule) == {<<k, k, rule>> : k \in keys}
Take(keys, rule, type, absent) == {<<k, k, rule, type, absent>> : k \in keys}

Fails == [ok |-> FALSE, v |-> <<>>]
Gives(v) == [ok |-> TRUE, v |-> v]

(* rule of a key that is written: "always", "set" when the member is set,  *)
(* "filled" when it is not empty, "needed" when the object may not be      *)
(* written without it.                                                     *)
Serialize(out, obj) ==
    LET skip(t) == \/ t[3] = "set" /\ obj[t[1]] = Unset
                   \/ t[3] = "filled" /\ obj[t[1]] \in Empty
        written == {t \in out : ~ skip(t)}
    IN  IF \E t \in out : t[3] = "needed" /\ obj[t[1]] \in Empty
        THEN Fails
        ELSE Gives([k \in {t[2] : t \in written} |->
                       Write(obj[(CHOOSE t \in written : t[2] = k)[1]])])

(* rule of a key that is read: "needed", "nonempty" when it may not be the *)
(* empty string either, "optional", "lenient" when whatever is wrong with  *)
(* it only leaves the member unset.                                        *)
Deserialize(in, dict) ==
    LET bad(t) == \/ t[1] \notin DOMAIN dict /\ t[3] \in {"needed", "nonempty"}
                  \/ /\ t[1] \in DOMAIN dict /\ t[3] # "lenient"
                     /\ \/ ~ Readable(t[4], dict[t[1]])
                        \/ t[3] = "nonempty" /\ dict[t[1]] \in Empty
        value(t) == IF t[1] \in DOMAIN dict /\ Readable(t[4], dict[t[1]])
                    THEN Read(t[4], dict[t[1]]) ELSE t[5]
    IN  IF \E t \in in : bad(t)
        THEN Fails
        ELSE Gives([m \in {t[2] : t \in in} |->
                       value(CHOOSE t \in in : t[2] = m)])

-----------------------------------------------------------------------------
(* ScopeMetadata.                                                          *)

ScopeMetadataOut ==
    Same({"scope_id", "proxy", "display_name", "description", "author"}, "needed")
    \cup Same({"version"}, "always")
    \cup Same({"art", "icon", "search_hint", "hot_key", "invisible",
               "settings_definitions", "location_data_needed", "is_aggregator"}, "set")
    \cup Same({"appearance_attributes", "results_ttl_type", "keywords"}, "filled")
    \cup {<<"scope_directory", "scope_dir", "set">>,
          <<"child_scope_ids", "child_scopes", "filled">>}

ScopeMetadataIn ==
    Take({"scope_id"}, "nonempty", "string", Unset)
    \cup Take({"proxy"}, "needed", "proxy", Unset)
    \cup Take({"display_name", "description", "author"}, "needed", "string", Unset)
    \cup Take({"version"}, "optional", "nat", <<"int", "0">>)
    \cup Take({"art", "icon", "search_hint", "hot_key"}, "optional", "string", Unset)
    \cup Take({"invisible", "location_data_needed", "is_aggregator"},
              "optional", "bool", Unset)
    \cup {<<"scope_dir", "scope_directory", "optional", "string", Unset>>}
    \cup Take({"appearance_attributes"}, "optional", "dict", <<"dict", "{}">>)
    \cup Take({"results_ttl_type"}, "optional", "ttl", <<"ttl", "None">>)
    \cup Take({"settings_definitions"}, "optional", "array", Unset)
    \cup {<<"child_scopes", "child_scope_ids", "optional", "array", <<"array", "[]">>>>}
    \cup Take({"keywords"}, "optional", "set", <<"set", "{}">>)

(* The members that the copy constructor and the assignment copy, and the  *)
(* getters that throw NotFoundException when the member is not set; those  *)
(* of the flags answer false then, the others have no unset state.         *)
ScopeMetadataCopied ==
    {"scope_id", "proxy", "display_name", "description", "author",
     "appearance_attributes", "results_ttl_type", "child_scope_ids", "version",
     "keywords", "art", "icon", "search_hint", "hot_key", "invisible",
     "scope_directory", "settings_definitions", "location_data_needed",
     "is_aggregator"}

ScopeMetadataGet(obj, m) ==
    CASE obj[m] # Unset -> Gives(obj[m])
      [] obj[m] = Unset /\ m \in {"invisible", "location_data_needed", "is_aggregator"} ->
            Gives(<<"bool", "false">>)
      [] OTHER -> Fails

(* set_version() refuses a negative number, the other setters nothing.     *)
ScopeMetadataSet(m, v) == ~ (m = "version" /\ v = <<"int", "-1">>)

-----------------------------------------------------------------------------
(* Location.                                                               *)

Places == {"area_code", "city", "country_code", "country_name", "region_code",
           "region_name", "zip_postal_code"}
Measures == {"altitude", "horizontal_accuracy", "vertical_accuracy"}

LocationOut ==
    Same({"latitude", "longitude"}, "needed") \cup Same(Places \cup Measures, "set")

LocationIn ==
    Take({"latitude", "longitude"}, "needed", "double", Unset)
    \cup Take(Measures, "optional", "double", Unset)
    \cup Take(Places, "optional", "string", Unset)

(* Mutant: the accuracies are left out of the copy.                        *)
LocationCopiedPlaces == {"latitude", "longitude"} \cup Places

LocationCopied == {"latitude", "longitude"} \cup Places \cup Measures

(* Every getter throws when its member is not set.                         *)
LocationGet(obj, m) == IF obj[m] = Unset THEN Fails ELSE Gives(obj[m])

-----------------------------------------------------------------------------
(* The metadata that go with a query, and a query.                         *)

QueryMetadataOut ==
    Same({"type", "locale", "form_factor", "hints"}, "always")
    \cup Same({"internet_connectivity"}, "set")

QueryMetadataIn ==
    Take({"locale", "form_factor"}, "needed", "string", Unset)
    \cup Take({"hints"}, "needed", "dict", Unset)
    \cup Take({"internet_connectivity"}, "optional", "connectivity", Unset)

SearchMetadataOut ==
    QueryMetadataOut \cup Same({"cardinality"}, "always")
    \cup Same({"location", "aggregated_keywords"}, "set")

SearchMetadataIn ==
    QueryMetadataIn \cup Take({"cardinality"}, "needed", "nat", Unset)
    \cup Take({"location"}, "lenient", "location", Unset)
    \cup Take({"aggregated_keywords"}, "lenient", "set", Unset)

SearchMetadataSet(m, v) == ~ (m = "cardinality" /\ v = <<"int", "-1">>)

ActionMetadataOut == QueryMetadataOut \cup Same({"scope_data"}, "always")
ActionMetadataIn == QueryMetadataIn \cup Take({"scope_data"}, "needed", "any", Unset)

CannedQueryOut ==
    {<<"scope_id", "scope", "always">>}
    \cup Same({"query_string", "department_id", "filter_state"}, "always")
    \cup Same({"user_data"}, "set")

CannedQueryIn ==
    {<<"scope", "scope_id", "nonempty", "string", Unset>>}
    \cup Take({"filter_state"}, "needed", "dict", Unset)
    \cup Take({"department_id", "query_string"}, "optional", "string", <<"string", "">>)
    \cup Take({"user_data"}, "optional", "any", Unset)

CannedQuerySet(m, v) == ~ (m = "scope_id" /\ v = <<"string", "">>)

CannedQueryCopied ==
    {"scope_id", "query_string", "department_id", "filter_state", "user_data"}

-----------------------------------------------------------------------------
(* Categories and links.                                                   *)

CategoryOut ==
    Same({"id", "title", "icon", "renderer_template"}, "always") \cup Same({"query"}, "set")

CategoryIn ==
    Take({"id"}, "needed", "string", Unset)
    \cup Take({"title", "icon"}, "optional", "string", <<"string", "">>)
    \cup Take({"query"}, "optional", "uri_query", Unset)
    \cup Take({"renderer_template"}, "optional", "template", <<"template", "t">>)

CategorySet(m, v) == ~ (m = "id" /\ v = <<"string", "">>)

LinkOut == Same({"label", "query"}, "always")
LinkIn == Take({"label"}, "needed", "string", Unset)
          \cup Take({"query"}, "needed", "query", Unset)
LinkSet(m, v) == ~ (m = "label" /\ v = <<"string", "">>)

-----------------------------------------------------------------------------
(* An object is made with what its class demands, changed by setters,      *)
(* copied, and sent to another process.                                    *)
Classes == {"ScopeMetadata", "Location", "SearchMetadata", "ActionMetadata",
            "CannedQuery", "Category", "Link"}

Out(c) ==
    CASE c = "ScopeMetadata" -> ScopeMetadataOut [] c = "Location" -> LocationOut
      [] c = "SearchMetadata" -> SearchMetadataOut [] c = "ActionMetadata" -> ActionMetadataOut
      [] c = "CannedQuery" -> CannedQueryOut [] c = "Category" -> CategoryOut
      [] c = "Link" -> LinkOut

In(c) ==
    CASE c = "ScopeMetadata" -> ScopeMetadataIn [] c = "Location" -> LocationIn
      [] c = "SearchMetadata" -> SearchMetadataIn [] c = "ActionMetadata" -> ActionMetadataIn
      [] c = "CannedQuery" -> CannedQueryIn [] c = "Category" -> CategoryIn
      [] c = "Link" -> LinkIn

Accepts(c, m, v) ==
    CASE c = "ScopeMetadata" -> ScopeMetadataSet(m, v) [] c = "SearchMetadata" -> SearchMetadataSet(m, v)
      [] c = "CannedQuery" -> CannedQuerySet(m, v) [] c = "Category" -> CategorySet(m, v)
      [] c = "Link" -> LinkSet(m, v) [] OTHER -> TRUE

Get(c, obj, m) ==
    CASE c = "ScopeMetadata" -> ScopeMetadataGet(obj, m) [] c = "Location" -> LocationGet(obj, m)
      [] OTHER -> Gives(obj[m])

Copied(c, m) ==
    CASE c = "ScopeMetadata" -> m \in ScopeMetadataCopied [] c = "Location" -> m \in LocationCopied
      [] c = "CannedQuery" -> m \in CannedQueryCopied [] OTHER -> TRUE

(* The constant "type" is written, but is no member.                       *)
Members(c) == {t[2] : t \in In(c)}
Representatives(type) ==
    IF type = "nat" THEN Sample("int")
    ELSE IF type \in Converted THEN {x[1] : x \in {y \in Conversion : y[1][1] = type}}
    ELSE Sample(type)
NewMember(t) ==
    IF t[3] \in {"needed", "nonempty"}
    THEN CHOOSE v \in Representatives(t[4]) : v \notin Empty ELSE t[5]
NewObject(c) == [m \in Members(c) |-> NewMember(CHOOSE t \in In(c) : t[2] = m)]
Everything(c, obj) == obj @@ ("type" :> <<"string", "x">>)

Set(m, v) ==
    /\ sets < MaxSets /\ sets' = sets + 1 /\ Accepts(class, m, v)
    /\ object' = [object EXCEPT ![m] = v] /\ meant' = [meant EXCEPT ![m] = v]
    /\ UNCHANGED class

Copy ==
    /\ object' = [m \in DOMAIN object |-> IF Copied(class, m) THEN object[m] ELSE Unset]
    /\ UNCHANGED <<class, meant, sets>>

Send ==
    /\ LET d == Serialize(Out(class), Everything(class, object))
           r == Deserialize(In(class), d.v)
       IN  /\ d.ok
           /\ object' = IF r.ok THEN r.v ELSE [m \in DOMAIN object |-> Unset]
    /\ UNCHANGED <<class, meant, sets>>

Init ==
    /\ class \in Classes /\ object = NewObject(class) /\ meant = object /\ sets = 0

Next ==
    \/ \E t \in In(class) : \E v \in Representatives(t[4]) : Set(t[2], v)
    \/ Copy \/ Send

Spec == Init /\ [][Next]_vars

(* However often an object is copied and sent, its getters give, or throw, *)
(* what follows from what the scope gave it.                               *)
ValuesKept == \A m \in Members(class) : Get(class, object, m) = Get(class, meant, m)

=============================================================================
