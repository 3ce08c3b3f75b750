------------------------------ MODULE Widgets -------------------------------
(* The values that a scope builds call by call and then sends: preview     *)
(* widgets, column layouts, annotations and activation responses.  A call  *)
(* that throws changes nothing.  A widget is a record of its members; its  *)
(* dictionary is a function from keys, of which "widgets" is only there    *)
(* when it has some.                                                       *)
EXTENDS Integers, Sequences, FiniteSets, TLC

CONSTANTS Ids,      \* identifiers of widgets
          Keys,     \* names of attributes, "id" and "attributes" among them
          MaxColumns \* max_number_of_columns_ of ColumnLayoutImpl

VARIABLES widget, annotation, layouts, response

vars == <<widget, annotation, layouts, response>>

Fails == [ok |-> FALSE, v |-> <<>>]
Gives(v) == [ok |-> TRUE, v |-> v]

Put(f, k, v) == (k :> v) @@ f

-----------------------------------------------------------------------------
(* PreviewWidgetImpl.                                                      *)

NewWidget(id, type) == [id |-> id, type |-> type, attributes |-> <<>>,
                        components |-> <<>>, widgets |-> <<>>]

(* add_attribute_value() and add_attribute_mapping().                      *)
CanAddValue(k) == k \notin {"id", "type", "components", "widgets"}
CanAddMapping(k) == k \notin {"id", "type"}

(* add_widget(): only into an expandable widget, which does not nest, and  *)
(* under an id of its own.                                                 *)
CanAddWidget(w, inner) ==
    /\ w.type = "expandable" /\ inner.type # "expandable"
    /\ inner.id # w.id
    /\ \A i \in 1..Len(w.widgets) : w.widgets[i].id # inner.id

(* serialize().                                                            *)
RECURSIVE SerializeWidget(_)
SerializeWidget(w) ==
    [id |-> w.id, type |-> w.type, attributes |-> w.attributes,
     components |-> w.components]
    @@ IF w.widgets = <<>> THEN <<>>
       ELSE [widgets |-> [i \in 1..Len(w.widgets) |-> SerializeWidget(w.widgets[i])]]

(* The constructor from a dictionary.                                      *)
RECURSIVE CreateWidget(_)
CreateWidget(d) ==
    [id |-> d["id"], type |-> d["type"], attributes |-> d["attributes"],
     components |-> d["components"],
     widgets |-> IF d["type"] = "expandable" /\ "widgets" \in DOMAIN d
                 THEN [i \in 1..Len(d["widgets"]) |-> CreateWidget(d["widgets"][i])]
                 ELSE <<>>]

(* data(): the attributes are keys of the dictionary itself.  The nested   *)
(* widgets are written by serialize(), not by data().                      *)
WidgetToJson(w) ==
    w.attributes
    @@ [id |-> w.id, type |-> w.type, components |-> w.components]
    @@ IF w.widgets = <<>> THEN <<>>
       ELSE [widgets |-> [i \in 1..Len(w.widgets) |-> SerializeWidget(w.widgets[i])]]

(* from_json_node().                                                       *)
RECURSIVE WidgetFromJson(_)
WidgetFromJson(d) ==
    [id |-> d["id"], type |-> d["type"],
     attributes |-> [k \in DOMAIN d \ {"id", "type", "components", "widgets"} |-> d[k]],
     components |-> IF "components" \in DOMAIN d THEN d["components"] ELSE <<>>,
     widgets |-> IF d["type"] = "expandable" /\ "widgets" \in DOMAIN d
                 THEN [i \in 1..Len(d["widgets"]) |-> WidgetFromJson(d["widgets"][i])]
                 ELSE <<>>]

AddAttributeValue ==
    \E k \in Keys :
        /\ CanAddValue(k) /\ k \notin DOMAIN widget.attributes
        /\ widget' = [widget EXCEPT !.attributes = Put(@, k, "v")]
        /\ UNCHANGED <<annotation, layouts, response>>

AddAttributeMapping ==
    \E k \in Keys :
        /\ CanAddMapping(k) /\ k \notin DOMAIN widget.components
        /\ widget' = [widget EXCEPT !.components = Put(@, k, "field")]
        /\ UNCHANGED <<annotation, layouts, response>>

AddWidget ==
    \E id \in Ids, type \in {"text", "expandable"}, keys \in SUBSET (Keys \ {"id"}) :
        LET inner == [NewWidget(id, type) EXCEPT !.attributes = [k \in keys |-> "v"]]
        IN  /\ CanAddWidget(widget, inner)
            /\ widget' = [widget EXCEPT !.widgets = Append(@, inner)]
            /\ UNCHANGED <<annotation, layouts, response>>

-----------------------------------------------------------------------------
(* ColumnLayoutImpl.  A layout announces a number of columns and is then   *)
(* given them one by one; its dictionary holds only the columns.           *)

NewLayout(n) == [num |-> n, columns |-> <<>>]
CanAddColumn(l) == Len(l.columns) < l.num
SerializeLayout(l) == [column_data |-> l.columns]
CreateLayout(d) == [num |-> Len(d.column_data), columns |-> d.column_data]

(* validate_layouts(): the loop remembers the numbers of columns it met.   *)
RECURSIVE ValidateFrom(_, _, _)
ValidateFrom(ls, i, met) ==
    \/ i > Len(ls)
    \/ /\ Len(ls[i].columns) = ls[i].num
       /\ ls[i].num \notin met
       /\ ValidateFrom(ls, i + 1, met \cup {Len(ls[i].columns)})

ValidateLayouts(ls) == ValidateFrom(ls, 1, {})

AddLayout ==
    \E n \in 1..MaxColumns :
        /\ Len(layouts) < 2
        /\ layouts' = Append(layouts, NewLayout(n))
        /\ UNCHANGED <<widget, annotation, response>>

AddColumn ==
    \E i \in 1..Len(layouts), ids \in {<<>>, <<"w">>} :
        /\ CanAddColumn(layouts[i])
        /\ layouts' = [layouts EXCEPT ![i].columns = Append(@, ids)]
        /\ UNCHANGED <<widget, annotation, response>>

-----------------------------------------------------------------------------
(* AnnotationImpl.                                                         *)

NewAnnotation(type) == [type |-> type, label |-> "", icon |-> "", links |-> 0]

CanSetLabel(a, label) == a.type = "groupedlink" /\ label # ""
CanSetIcon(a, icon) == a.type = "link" /\ icon # ""
CanAddLink(a) == a.type = "groupedlink" \/ a.links = 0

(* throw_if_inconsistent().                                                *)
Consistent(a) ==
    /\ a.links > 0
    /\ a.type \in {"link", "groupedlink"}
    /\ a.type = "groupedlink" => a.label # ""

(* serialize(): the label and the icon are written when they are set.      *)
SerializeAnnotation(a) ==
    IF ~ Consistent(a) THEN Fails
    ELSE Gives([type |-> a.type, links |-> a.links]
               @@ (IF a.label # "" THEN [label |-> a.label] ELSE <<>>)
               @@ (IF a.icon # "" THEN [icon |-> a.icon] ELSE <<>>))

(* The constructor from a dictionary goes through the setters, and a type  *)
(* that it does not know is one that no setter accepts.                    *)
CreateAnnotation(d) ==
    LET a == [NewAnnotation(d["type"]) EXCEPT !.links = d["links"]]
        b == IF "label" \in DOMAIN d THEN [a EXCEPT !.label = d["label"]] ELSE a
        c == IF "icon" \in DOMAIN d THEN [b EXCEPT !.icon = d["icon"]] ELSE b
    IN  IF /\ "label" \in DOMAIN d => CanSetLabel(a, d["label"])
           /\ "icon" \in DOMAIN d => CanSetIcon(b, d["icon"])
           /\ Consistent(c)
        THEN Gives(c) ELSE Fails

SetLabel ==
    /\ CanSetLabel(annotation, "x")
    /\ annotation' = [annotation EXCEPT !.label = "x"]
    /\ UNCHANGED <<widget, layouts, response>>

SetIcon ==
    /\ CanSetIcon(annotation, "x")
    /\ annotation' = [annotation EXCEPT !.icon = "x"]
    /\ UNCHANGED <<widget, layouts, response>>

AddLink ==
    /\ CanAddLink(annotation) /\ annotation.links < 2
    /\ annotation' = [annotation EXCEPT !.links = @ + 1]
    /\ UNCHANGED <<widget, layouts, response>>

-----------------------------------------------------------------------------
(* ActivationResponseImpl: the constructors tie the status to the value    *)
(* that goes with it; there is none for the other statuses.                *)

Carries == [PerformQuery |-> "query", UpdateResult |-> "updated_result",
            UpdatePreview |-> "updated_widgets"]
Statuses == {"NotHandled", "ShowDash", "HideDash", "ShowPreview"} \cup DOMAIN Carries

NewResponse(status) ==
    [status |-> status, scope_data |-> "null",
     value |-> IF status \in DOMAIN Carries THEN "v" ELSE "none"]

SerializeResponse(r) ==
    [status |-> r.status, scope_data |-> r.scope_data]
    @@ IF r.value = "none" THEN <<>> ELSE (Carries[r.status] :> r.value)

CreateResponse(d) ==
    IF d["status"] \in DOMAIN Carries
    THEN IF Carries[d["status"]] \in DOMAIN d
         THEN Gives([status |-> d["status"], scope_data |-> d["scope_data"],
                     value |-> d[Carries[d["status"]]]])
         ELSE Fails
    ELSE Gives([status |-> d["status"], scope_data |-> d["scope_data"],
                value |-> "none"])

SetScopeData ==
    /\ response.scope_data = "null"
    /\ response' = [response EXCEPT !.scope_data = "data"]
    /\ UNCHANGED <<widget, annotation, layouts>>

-----------------------------------------------------------------------------
Init ==
    /\ \E type \in {"text", "expandable"} : widget = NewWidget("w", type)
    /\ \E type \in {"link", "groupedlink"} : annotation = NewAnnotation(type)
    /\ layouts = <<>>
    /\ \E s \in Statuses : response = NewResponse(s)

(* One kind of value is built in a behaviour: they share nothing.          *)
Untouched(kind) ==
    /\ kind # "widget" => widget.attributes = <<>> /\ widget.components = <<>>
                          /\ widget.widgets = <<>> /\ widget.type = "text"
    /\ kind # "annotation" => annotation = NewAnnotation("link")
    /\ kind # "layouts" => layouts = <<>>
    /\ kind # "response" => response = NewResponse("NotHandled")

Next ==
    \/ Untouched("widget") /\ (AddAttributeValue \/ AddAttributeMapping \/ AddWidget)
    \/ Untouched("layouts") /\ (AddLayout \/ AddColumn)
    \/ Untouched("annotation") /\ (SetLabel \/ SetIcon \/ AddLink)
    \/ Untouched("response") /\ SetScopeData

Spec == Init /\ [][Next]_vars

-----------------------------------------------------------------------------
(* What the client reads is what the scope built: widgets with the widgets *)
(* inside them, annotations that serialize() lets through, responses, and  *)
(* lists of layouts that validate_layouts() lets through, which are those  *)
(* with all their columns and no two for the same number of columns        *)
(* (PreviewReplyImpl::register_layout, ReplyObject::push of each kind).     *)
BuiltIsReceived ==
    /\ CreateWidget(SerializeWidget(widget)) = widget
    /\ SerializeAnnotation(annotation).ok =>
            CreateAnnotation(SerializeAnnotation(annotation).v) = Gives(annotation)
    /\ CreateResponse(SerializeResponse(response)) = Gives(response)
    /\ ValidateLayouts(layouts) =>
            \A i \in 1..Len(layouts) :
                CreateLayout(SerializeLayout(layouts[i])) = layouts[i]
    /\ ValidateLayouts(layouts) <=>
            \A i, j \in 1..Len(layouts) :
                /\ layouts[i].num = Len(layouts[i].columns)
                /\ i # j => layouts[i].num # layouts[j].num

(* A widget made from the JSON text that data() gives is that widget.      *)
(* That is not so for a widget with others inside it: data() writes those  *)
(* the way they are sent, with their attributes in a dictionary that       *)
(* from_json_node() takes for an attribute.                                *)
JsonIsDefinition == WidgetFromJson(WidgetToJson(widget)) = widget

=============================================================================
