------------------------------ MODULE QtResult ------------------------------
(***************************************************************************)
(* The attributes of a QResult (qt/internal/QResultImpl.cpp) and, by the   *)
(* same code, the hints of QSearchMetadata and QActionMetadata.  The value *)
(* lives in the Result of the scopes API; operator[] returns a reference   *)
(* to a QScopeVariant, a QVariant that remembers where its value belongs.  *)
(* The assignment itself only changes the QVariant: sync_values() writes   *)
(* it back at the beginning of some of the later calls.                    *)
(***************************************************************************)
EXTENDS Naturals, Sequences, FiniteSets

CONSTANTS
    Keys,         \* attributes; "title" has a setter of its own
    MaxCalls      \* bound: calls of the application

VARIABLES
    api,          \* api_result_: the Variant of every attribute
    views,        \* ret_variants_: the QVariant of every attribute looked at
    unsync,       \* unsync_variants_
    stored,       \* the copy of this result that another one has stored
    out,          \* what the last copy, serialize() or push() contained
    current,      \* nothing was written since
    written,      \* history: the last value that the application gave
    through,      \* history: and how it did
    calls         \* calls so far

vars == <<api, views, unsync, stored, out, current, written, through, calls>>

Absent == "absent"
Null == "null"

(* QVariants of the types that qvariant_to_variant() tells apart: a string *)
(* or a number, a QString() that isNull(), and a qlonglong, which it       *)
(* refuses.                                                                *)
QValues == {"a", "b", "QString()", "qlonglong"}
Convertible(q) == q # "qlonglong"
qvariant_to_variant(q) == IF q \in {Null, "QString()"} THEN Null ELSE q
variant_to_qvariant(v) == v

TypeOK ==
    /\ api \in [Keys -> QValues \cup {Absent, Null}]
    /\ views \in [Keys -> QValues \cup {Absent, Null}]
    /\ \A i \in DOMAIN unsync : unsync[i] \in Keys
    /\ stored \in [Keys -> QValues \cup {Absent, Null}]
    /\ out \in [Keys -> QValues \cup {Absent, Null}]
    /\ current \in BOOLEAN
    /\ written \in [Keys -> QValues \cup {Absent}]
    /\ through \in [Keys -> {Absent, "operator[]", "setter"}]
    /\ calls \in 0..MaxCalls

Init ==
    /\ api = [k \in Keys |-> Absent] /\ views = api /\ stored = api /\ out = api
    /\ unsync = <<>>
    /\ current = FALSE
    /\ written = api /\ through = api
    /\ calls = 0

Call == calls < MaxCalls /\ calls' = calls + 1

(* sync_values() writes the views back in the order of the list; it stops  *)
(* with an exception at one that cannot be converted, and then the list is *)
(* not cleared.                                                            *)
Refused == {i \in DOMAIN unsync : ~Convertible(views[unsync[i]])}
Synced == {unsync[i] : i \in {j \in DOMAIN unsync : \A r \in Refused : j < r}}
SyncValues == [k \in Keys |-> IF k \in Synced THEN qvariant_to_variant(views[k]) ELSE api[k]]
SyncThrows == Refused # {}

(* A call that begins with sync_values() and ends there.                   *)
Throws ==
    /\ SyncThrows
    /\ api' = SyncValues
    /\ UNCHANGED <<views, unsync, stored, out, current, written, through>>

IndexOnce(k, value) ==
    /\ Call
    /\ \/ Throws
       \/ /\ ~SyncThrows
          /\ api' = [SyncValues EXCEPT ![k] = IF @ = Absent THEN Null ELSE @]
          /\ views' = [views EXCEPT ![k] = value]
          /\ unsync' = IF views[k] = Absent THEN <<k>> ELSE <<>>
          /\ written' = [written EXCEPT ![k] = value]
          /\ through' = [through EXCEPT ![k] = "operator[]"]
          /\ current' = FALSE
          /\ UNCHANGED <<stored, out>>

(* r[k] = value: the view is made the first time only, and is put on the   *)
(* list every time.                                                        *)
IndexAssign(k, value) ==
    /\ Call
    /\ \/ Throws
       \/ /\ ~SyncThrows
          /\ api' = [SyncValues EXCEPT ![k] = IF @ = Absent THEN Null ELSE @]
          /\ views' = [views EXCEPT ![k] = value]
          /\ unsync' = <<k>>
          /\ written' = [written EXCEPT ![k] = value]
          /\ through' = [through EXCEPT ![k] = "operator[]"]
          /\ current' = FALSE
          /\ UNCHANGED <<stored, out>>

(* r[k] on the right-hand side goes the same way.                          *)
IndexRead(k) ==
    /\ Call
    /\ \/ Throws
       \/ /\ ~SyncThrows
          /\ api' = [SyncValues EXCEPT ![k] = IF @ = Absent THEN Null ELSE @]
          /\ views' = [views EXCEPT ![k] = IF @ = Absent THEN variant_to_qvariant(api'[k]) ELSE @]
          /\ unsync' = <<k>>
          /\ UNCHANGED <<stored, out, current, written, through>>

(* value() and the operator[] of a constant result replace the view.  The  *)
(* API object that they reach is not constant: they too make an attribute  *)
(* that was not there.                                                     *)
Value(k) ==
    /\ Call
    /\ \/ Throws
       \/ /\ ~SyncThrows
          /\ api' = [SyncValues EXCEPT ![k] = IF @ = Absent THEN Null ELSE @]
          /\ views' = [views EXCEPT ![k] = variant_to_qvariant(api'[k])]
          /\ unsync' = <<>>
          /\ UNCHANGED <<stored, out, current, written, through>>

(* set_title(), set_uri(), set_hint(): straight to the API object.         *)
SetTitle(value) ==
    /\ Call
    /\ api' = [api EXCEPT !["title"] = value]
    /\ written' = [written EXCEPT !["title"] = value]
    /\ through' = [through EXCEPT !["title"] = "setter"]
    /\ current' = FALSE
    /\ UNCHANGED <<views, unsync, stored, out>>

(* The copy constructor, serialize(), and QSearchReply::push() by way of   *)
(* QCategorisedResultImpl::api_object().                                   *)
Export ==
    /\ Call
    /\ \/ Throws
       \/ /\ ~SyncThrows
          /\ api' = SyncValues
          /\ unsync' = <<>>
          /\ out' = api'
          /\ current' = TRUE
          /\ UNCHANGED <<views, stored, written, through>>

(* other.store(r) copies the API object of r as it is.                     *)
Store ==
    /\ Call
    /\ stored' = api
    /\ UNCHANGED <<api, views, unsync, out, current, written, through>>

Next ==
    \/ \E k \in Keys : (\E v \in QValues : IndexAssign(k, v)) \/ IndexRead(k) \/ Value(k)
    \/ \E v \in {"a", "b"} : SetTitle(v)
    \/ Export \/ Store

Spec == Init /\ [][Next]_vars

-----------------------------------------------------------------------------
(* An attribute that was last assigned through operator[] is in the copy,  *)
(* the serialised form and the pushed result with that value, converted;   *)
(* reads in between, of this attribute or of others, do not disturb it.    *)
AttributesKept ==
    current => \A k \in Keys : through[k] = "operator[]" => out[k] = qvariant_to_variant(written[k])

(* QResult.h of set_title(): "Equivalent to calling result["title"] =      *)
(* title".                                                                 *)
SetterEquivalent ==
    current => \A k \in Keys : through[k] = "setter" => out[k] = written[k]

(* QResult.h of store(): the original result is kept.                      *)
StoredWhole ==
    [][Store => \A k \in Keys : through[k] = "operator[]" =>
                   stored'[k] = qvariant_to_variant(written[k])]_vars
=============================================================================
