--------------------------- MODULE CannedQueries ----------------------------
(* Canned queries as scope:// URIs.  A string is a sequence of character   *)
(* codes, a Variant is <<type, payload>>.  The text of a JSON value is an  *)
(* opening brace, one character that stands for the value, and a newline.  *)
EXTENDS Variants, SequencesExt

CONSTANTS Chars,        \* the characters of scope ids, queries, departments
          Values        \* a sequence of Variants: filter states and user data

VARIABLES query

-----------------------------------------------------------------------------
ToJsonString(i) == <<123, 200 + i, 10>>

(* The value of a JSON text, or <<>> if it is none.                        *)
FromJsonString(s) ==
    IF Len(s) = 3 /\ s[1] = 123 /\ s[3] = 10 /\ s[2] - 200 \in DOMAIN Values
    THEN <<ViaJson(Values[s[2] - 200])>>
    ELSE <<>>

-----------------------------------------------------------------------------
IsAlnum(c) == c \in 48..57 \cup 65..90 \cup 97..122

HexDigit(n) == IF n < 10 THEN 48 + n ELSE 55 + n

IsHex(c) == c \in 48..57 \cup 65..70 \cup 97..102

HexValue(c) == IF c <= 57 THEN c - 48 ELSE IF c <= 70 THEN c - 55 ELSE c - 87

EncodeChar(c) ==
    IF IsAlnum(c) THEN <<c>> ELSE <<37, HexDigit(c \div 16), HexDigit(c % 16)>>

ToPercentEncoding(s) == FlattenSeq([i \in 1..Len(s) |-> EncodeChar(s[i])])

Malformed == <<-1>>

(* std::stoi(): a digit that is followed by something else is read alone.  *)
Stoi(c, d) ==
    IF ~ IsHex(c) THEN -1
    ELSE IF ~ IsHex(d) THEN HexValue(c) ELSE 16 * HexValue(c) + HexValue(d)

RECURSIVE FromPercentEncoding(_)
FromPercentEncoding(s) ==
    IF s = <<>> THEN <<>>
    ELSE IF s[1] # 37 THEN
        LET rest == FromPercentEncoding(Tail(s))
        IN  IF rest = Malformed THEN Malformed ELSE <<s[1]>> \o rest
    ELSE IF Len(s) < 3 \/ Stoi(s[2], s[3]) = -1 THEN Malformed
    ELSE LET rest == FromPercentEncoding(SubSeq(s, 4, Len(s)))
         IN  IF rest = Malformed THEN Malformed ELSE <<Stoi(s[2], s[3])>> \o rest

-----------------------------------------------------------------------------
(* filters and data are positions in Values; 0: no filter set, no data.    *)
NewQuery(scope) == [scope |-> scope, q |-> <<>>, dep |-> <<>>, filters |-> 0, data |-> 0]

KeyQ == <<113>>
KeyDep == <<100>>
KeyFilters == <<102>>
KeyData == <<120>>

Pair(key, value) == key \o <<61>> \o ToPercentEncoding(value)

(* to_uri(), what follows "scope://".                                      *)
ToUri(qry) ==
    qry.scope \o <<63>> \o Pair(KeyQ, qry.q)
    \o (IF qry.dep # <<>> THEN <<38>> \o Pair(KeyDep, qry.dep) ELSE <<>>)
    \o (IF qry.filters # 0
        THEN <<38>> \o Pair(KeyFilters, ToJsonString(qry.filters)) ELSE <<>>)
    \o (IF qry.data # 0
        THEN <<38>> \o Pair(KeyData, ToJsonString(qry.data)) ELSE <<>>)

(* The first position of a character, or 0 (npos).                         *)
Find(s, c) == IF Contains(s, c) THEN SelectInSeq(s, LAMBDA x : x = c) ELSE 0

Before(s, i) == IF i = 0 THEN s ELSE SubSeq(s, 1, i - 1)
After(s, i) == SubSeq(s, i + 1, Len(s))

(* getline(istr, kv, '&'), over and over.                                  *)
RECURSIVE Split(_)
Split(s) ==
    IF s = <<>> THEN <<>>
    ELSE LET i == Find(s, 38)
         IN  IF i = 0 THEN <<s>> ELSE <<Before(s, i)>> \o Split(After(s, i))

Thrown(exception) == [exception |-> exception]

(* One key of the URI, applied to what was read so far.                    *)
TakePair(qry, kv) ==
    LET i == Find(kv, 61)
        key == Before(kv, i)
        val == FromPercentEncoding(After(kv, i))
        json == FromJsonString(val)
    IN  IF i = 0 \/ key \notin {KeyQ, KeyDep, KeyFilters, KeyData} THEN qry
        ELSE IF val = Malformed THEN Thrown("InvalidArgument")
        ELSE IF key = KeyQ THEN [qry EXCEPT !.q = val]
        ELSE IF key = KeyDep THEN [qry EXCEPT !.dep = val]
        ELSE IF json = <<>> THEN Thrown("Resource")
        ELSE IF key = KeyData THEN [qry EXCEPT !.data = json[1]]
        ELSE IF json[1][1] # "Dict" THEN Thrown("InvalidArgument")
        ELSE [qry EXCEPT !.filters = json[1]]

(* from_uri().                                                             *)
FromUri(uri) ==
    LET next == Find(uri, 63)
        scope == FromPercentEncoding(Before(uri, next))
        pairs == IF next = 0 THEN <<>> ELSE Split(After(uri, next))
        Take(qry, kv) == IF DOMAIN qry = {"exception"} THEN qry ELSE TakePair(qry, kv)
    IN  IF Before(uri, next) = <<>> \/ scope \in {Malformed, <<>>}
        THEN Thrown("InvalidArgument")
        ELSE FoldLeft(Take, [scope |-> scope, q |-> <<>>, dep |-> <<>>,
                             filters |-> <<"none">>, data |-> <<"none">>], pairs)

-----------------------------------------------------------------------------
Strings == {<<>>} \cup {<<c>> : c \in Chars} \cup {<<c, d>> : c, d \in Chars}

SetQueryString == \E s \in Strings : query' = [query EXCEPT !.q = s]

SetDepartmentId == \E s \in Strings : query' = [query EXCEPT !.dep = s]

SetFilterState ==
    \E i \in DOMAIN Values : Values[i][1] = "Dict" /\ query' = [query EXCEPT !.filters = i]

SetUserData == \E i \in DOMAIN Values : query' = [query EXCEPT !.data = i]

Init == \E s \in Strings \ {<<>>} : query = NewQuery(s)

Next == SetQueryString \/ SetDepartmentId \/ SetFilterState \/ SetUserData

Spec == Init /\ [][Next]_query

-----------------------------------------------------------------------------
(* A query comes back from its URI, its filters and data as JSON keeps     *)
(* them, if the scope id has no "%" and no "?", which to_uri() does not    *)
(* escape; whatever the query string and the department are made of.       *)
UriKept ==
    ~ Contains(query.scope, 37) /\ ~ Contains(query.scope, 63) =>
        LET Back(i) == IF i = 0 THEN <<"none">> ELSE ViaJson(Values[i])
        IN  FromUri(ToUri(query)) =
                [query EXCEPT !.filters = Back(@), !.data = Back(@)]

(* A query comes back from its URI whatever its scope id is made of:       *)
(* CannedQuery "Can be converted to/from scope:// uri schema string".      *)
AnyScopeKept == FromUri(ToUri(query)).scope = query.scope

=============================================================================
