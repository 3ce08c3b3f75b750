---------------------------- MODULE Departments -----------------------------
(* The trees of departments that a scope registers with a search reply and *)
(* that the client reads back.  A department is a record of its id, labels *)
(* and flag and the sequence of its subdepartments.                        *)
EXTENDS Integers, Sequences, FiniteSets, TLC

CONSTANTS Ids, MaxDepartments

VARIABLES root, current, count

vars == <<root, current, count>>

NewDepartment(id) == [id |-> id, label |-> "label", alt |-> "", flag |-> FALSE,
                      departments |-> <<>>]

HasSubdepartments(d) == d.departments # <<>> \/ d.flag

(* set_has_subdepartments() takes back the flag only without departments.  *)
CanSetFlag(d, b) == b \/ d.departments = <<>>

(* serialize(): the flag is only written when there are no departments.    *)
RECURSIVE SerializeDepartment(_)
SerializeDepartment(d) ==
    [label |-> d.label, query |-> d.id]
    @@ (IF d.alt # "" THEN [alt_label |-> d.alt] ELSE <<>>)
    @@ (IF d.departments = <<>>
        THEN IF d.flag THEN [has_subdepartments |-> TRUE] ELSE <<>>
        ELSE [departments |-> [i \in 1..Len(d.departments) |->
                                  SerializeDepartment(d.departments[i])]])

(* create().                                                               *)
RECURSIVE CreateDepartment(_)
CreateDepartment(v) ==
    [id |-> v["query"], label |-> v["label"],
     alt |-> IF "alt_label" \in DOMAIN v THEN v["alt_label"] ELSE "",
     flag |-> "has_subdepartments" \in DOMAIN v /\ v["has_subdepartments"],
     departments |-> IF "departments" \in DOMAIN v
                     THEN [i \in 1..Len(v["departments"]) |->
                              CreateDepartment(v["departments"][i])]
                     ELSE <<>>]

(* validate_departments() with the set of ids that it met: <<no duplicate, *)
(* the ids>>.  The walk is depth first and stops at the first duplicate.   *)
RECURSIVE Walk(_, _)
RECURSIVE WalkAll(_, _, _)
Walk(d, met) ==
    IF d.id \in met THEN <<FALSE, met>>
    ELSE WalkAll(d.departments, 1, met \cup {d.id})
WalkAll(ds, i, met) ==
    IF i > Len(ds) THEN <<TRUE, met>>
    ELSE LET w == Walk(ds[i], met)
         IN  IF w[1] THEN WalkAll(ds, i + 1, w[2]) ELSE w

TwoLevels(d) == d.departments # <<>>

(* Mutant: the current department need not be in the tree.                 *)
ValidateIds(d, id) == TwoLevels(d) /\ Walk(d, {})[1]

ValidateDepartments(d, id) ==
    /\ TwoLevels(d)
    /\ Walk(d, {})[1]
    /\ d.id # id => id \in Walk(d, {})[2]

(* find_subdepartment_by_id(): depth first, <<>> when there is none.       *)
RECURSIVE FindById(_, _)
RECURSIVE FindAmong(_, _, _)
FindById(d, id) ==
    IF d.id = id THEN <<d>> ELSE FindAmong(d.departments, 1, id)
FindAmong(ds, i, id) ==
    IF i > Len(ds) THEN <<>>
    ELSE LET f == FindById(ds[i], id)
         IN  IF f # <<>> THEN f ELSE FindAmong(ds, i + 1, id)

-----------------------------------------------------------------------------
(* parse_departments(), for what a remote scope's server sends: one        *)
(* DepartmentInfo, or <<>> where it throws.  A subdepartment that cannot   *)
(* be parsed is left out, unless none can.                                 *)
RECURSIVE ParseDepartments(_)
ParseDepartments(node) ==
    LET Get(name, default) == IF name \in DOMAIN node THEN node[name] ELSE default
        subdeps == Get("subdepartments", <<>>)
        parsed == SelectSeq([i \in DOMAIN subdeps |-> ParseDepartments(subdeps[i])],
                            LAMBDA info : info # <<>>)
    IN  IF \/ ~({"label", "canned_query"} \subseteq DOMAIN node)
           \/ subdeps # <<>> /\ parsed = <<>>
        THEN <<>>
        ELSE <<[label |-> node["label"], canned_query |-> node["canned_query"],
                alternate_label |-> Get("alternate_label", ""),
                has_subdepartments |-> Get("has_subdepartments", FALSE),
                subdepartments |-> [i \in DOMAIN parsed |-> parsed[i][1]]]>>

(* SmartQuery::create_department().                                        *)
RECURSIVE CreateRemote(_)
CreateRemote(info) ==
    [NewDepartment(info.canned_query) EXCEPT
        !.label = info.label, !.alt = info.alternate_label, !.flag = info.has_subdepartments,
        !.departments = [i \in DOMAIN info.subdepartments |-> CreateRemote(info.subdepartments[i])]]

-----------------------------------------------------------------------------
(* The paths to the departments of a tree, and a department added at one.  *)
RECURSIVE Nodes(_)
Nodes(d) == {<<>>} \cup UNION {{<<i>> \o p : p \in Nodes(d.departments[i])} :
                                   i \in 1..Len(d.departments)}

RECURSIVE NodeAt(_, _)
NodeAt(d, p) == IF p = <<>> THEN d ELSE NodeAt(d.departments[Head(p)], Tail(p))

RECURSIVE Update(_, _, _)
Update(d, p, e) ==
    IF p = <<>> THEN e
    ELSE [d EXCEPT !.departments[Head(p)] = Update(@, Tail(p), e)]

(* add_subdepartment(), set_has_subdepartments() and set_alternate_label() *)
(* of any department of the tree.                                          *)
AddSubdepartment ==
    \E p \in Nodes(root), id \in Ids :
        /\ count < MaxDepartments /\ count' = count + 1
        /\ root' = LET d == NodeAt(root, p)
                   IN  Update(root, p, [d EXCEPT !.departments =
                                            Append(@, NewDepartment(id))])
        /\ UNCHANGED current

(* set_subdepartments() with an empty list.                                *)
ClearSubdepartments ==
    \E p \in Nodes(root) :
        /\ root' = Update(root, p, [NodeAt(root, p) EXCEPT !.departments = <<>>])
        /\ UNCHANGED <<current, count>>

SetHasSubdepartments ==
    \E p \in Nodes(root), b \in BOOLEAN :
        /\ CanSetFlag(NodeAt(root, p), b)
        /\ root' = Update(root, p, [NodeAt(root, p) EXCEPT !.flag = b])
        /\ UNCHANGED <<current, count>>

SetAlternateLabel ==
    /\ root' = [root EXCEPT !.alt = "alt"]
    /\ UNCHANGED <<current, count>>

Init ==
    /\ \E id \in Ids : root = NewDepartment(id)
    /\ current \in Ids
    /\ count = 0

Next == AddSubdepartment \/ ClearSubdepartments \/ SetHasSubdepartments \/ SetAlternateLabel

Spec == Init /\ [][Next]_vars

-----------------------------------------------------------------------------
RECURSIVE Shown(_)
Shown(d) == [id |-> d.id, label |-> d.label, alt |-> d.alt,
             flag |-> HasSubdepartments(d),
             departments |-> [i \in 1..Len(d.departments) |-> Shown(d.departments[i])]]

(* A tree of departments is accepted exactly when it has two levels, no id *)
(* twice, and the current department in it (validate_departments); the     *)
(* client reads the tree that was registered, as far as it can be seen,    *)
(* and accepts it too; and in an accepted tree the department that is      *)
(* found by an id is the one there is (find_subdepartment_by_id).          *)
DepartmentsSound ==
    LET nodes == Nodes(root)
        unique == \A p, q \in nodes :
                      NodeAt(root, p).id = NodeAt(root, q).id => p = q
        back == CreateDepartment(SerializeDepartment(root))
    IN  /\ ValidateDepartments(root, current) <=>
               /\ Cardinality(nodes) > 1 /\ unique
               /\ \E p \in nodes : NodeAt(root, p).id = current
        /\ Shown(back) = Shown(root)
        /\ ValidateDepartments(root, current) =>
               /\ TwoLevels(back)
               /\ \A p \in nodes : FindById(root, NodeAt(root, p).id) = <<NodeAt(root, p)>>
        /\ \A id \in Ids : FindById(root, id) = <<>> <=>
               ~ \E p \in nodes : NodeAt(root, p).id = id

(* The tree as the server of a remote scope sends it, where the nodes at   *)
(* the paths in broken lack an attribute; and the tree without the nodes   *)
(* whose path is not in keep.                                              *)
RECURSIVE Sent(_, _, _)
Sent(d, p, broken) ==
    [label |-> d.label]
    @@ (IF p \in broken THEN <<>> ELSE [canned_query |-> d.id])
    @@ (IF d.alt # "" THEN [alternate_label |-> d.alt] ELSE <<>>)
    @@ (IF d.flag THEN [has_subdepartments |-> TRUE] ELSE <<>>)
    @@ [subdepartments |-> [i \in DOMAIN d.departments |-> Sent(d.departments[i], Append(p, i), broken)]]

RECURSIVE Pruned(_, _, _)
Pruned(d, p, keep) ==
    LET kept == SelectSeq([i \in DOMAIN d.departments |-> i], LAMBDA i : Append(p, i) \in keep)
    IN  [d EXCEPT !.departments = [k \in DOMAIN kept |->
                                       Pruned(d.departments[kept[k]], Append(p, kept[k]), keep)]]

(* The departments of a remote scope that reach the reply are those on a   *)
(* way from the root to a department without subdepartments on which no    *)
(* department is broken, as they were sent: an error in one of them "is    *)
(* not critical" (SmartScopesClient::parse_departments), but it takes with *)
(* it the departments that have nothing else below them.                   *)
RemoteDepartmentsKept ==
    LET nodes == Nodes(root)
        Prefix(p, q) == Len(p) <= Len(q) /\ p = SubSeq(q, 1, Len(p))
    IN  \A broken \in SUBSET nodes :
            LET whole == {q \in nodes : /\ NodeAt(root, q).departments = <<>>
                                       /\ ~ \E p \in broken : Prefix(p, q)}
                keep == {p \in nodes : \E q \in whole : Prefix(p, q)}
                info == ParseDepartments(Sent(root, <<>>, broken))
            IN  /\ info = <<>> <=> keep = {}
                /\ info # <<>> => Shown(CreateRemote(info[1])) = Shown(Pruned(root, <<>>, keep))

=============================================================================
