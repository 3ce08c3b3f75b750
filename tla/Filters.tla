------------------------------ MODULE Filters -------------------------------
(* The filters of a scope and the state of one of them.  A scope defines a *)
(* filter, the client works on the definition that it received, changes    *)
(* the recorded state, and the scope reads it with the definition it made. *)
(* The state may also come from a canned query of another scope, or have   *)
(* travelled as a URI.                                                     *)
EXTENDS Variants, FiniteSets, TLC

CONSTANTS Ids,          \* the ids of options
          Numbers,      \* the values of ranges and sliders: 0..max
          Times,        \* points in time, in ticks
          Second        \* ticks of a second

VARIABLES filter,       \* the definition, as the scope made it
          stored,       \* the value recorded for the filter, or Absent
          picked,       \* the last choice made with the received definition
          uri           \* the state has been in a URI since then

vars == <<filter, stored, picked, uri>>

Absent == <<"Absent", 0>>
NotFound == <<"NotFound", 0>>
Logic == <<"Logic", 0>>
Nothing == <<"nothing">>

-----------------------------------------------------------------------------
(* Definitions                                                             *)

(* OptionSelectorFilterImpl::add_option(): a single selection has at most  *)
(* one default.                                                            *)
CanAddOption(f, default) ==
    default /\ ~ f.multi => ~ \E i \in DOMAIN f.options : f.options[i].default

(* RatingFilterImpl::add_option() takes no default.                        *)
AddOption(f, id, default) ==
    [f EXCEPT !.options = Append(@, [id |-> id, default |-> default /\ f.type # "rating"])]

PrimaryAllowed(f) == f.type = "option_selector" /\ ~ f.multi

(* The constructors, before options are added.                             *)
Base(type) == [type |-> type, title |-> "", hints |-> 0, group |-> <<>>]

OptionSelector(multi) ==
    Base("option_selector") @@ [multi |-> multi, options |-> <<>>]
RadioButtons == Base("radio_buttons") @@ [multi |-> FALSE, options |-> <<>>]
Rating == Base("rating") @@ [multi |-> FALSE, options |-> <<>>]
Switch == Base("switch")
RangeInput(start, end) ==
    Base("range_input") @@ [default_start |-> start, default_end |-> end]
Slider(min, max, default, labels) ==
    Base("value_slider") @@ [min |-> min, max |-> max, default |-> default, labels |-> labels]
DatePicker(min, max) == Base("datetime_picker") @@ [min |-> min, max |-> max]

(* ValueSliderLabelsImpl::validate(): the walk over the extra labels, which *)
(* are pairs of a value and a label.                                       *)
ValidateLabels(min, max, labels) ==
    LET Previous(i) == IF i = 1 THEN min ELSE labels[i - 1][1]
        Met(i) == {labels[j][2] : j \in 1..(i - 1)}
    IN  /\ min < max
        /\ \A i \in DOMAIN labels :
               /\ labels[i][1] > Previous(i)
               /\ labels[i][2] \notin {"", "min", "max"} \cup Met(i)
        /\ max > Previous(Len(labels) + 1)

IsOptions(f) == f.type \in {"option_selector", "radio_buttons", "rating"}

(* duration_cast<seconds>: towards zero.                                   *)
ToSeconds(t) == IF t >= 0 THEN t \div Second ELSE -((-t) \div Second)
ToTimePoint(s) == s * Second

(* serialize(): what each type of filter writes, and the base class.       *)
Put(name, present, v) == IF present THEN name :> v ELSE <<>>

SerializeOptions(f) ==
    [multi_select |-> <<"Bool", f.multi>>,
     options |-> <<"Array", [i \in 1..Len(f.options) |->
         <<"Dict", [id |-> <<"String", f.options[i].id>>]
                   @@ Put("default", f.options[i].default, <<"Bool", TRUE>>)>>]>>]

SerializeRange(f) ==
    [default_start_value |-> f.default_start, default_end_value |-> f.default_end]

SerializeLabels(labels) ==
    <<"Array", [i \in 1..(2 * Len(labels)) |->
                   IF i % 2 = 1 THEN <<"Double", labels[(i + 1) \div 2][1]>>
                   ELSE <<"String", labels[i \div 2][2]>>]>>

SerializeSlider(f) ==
    [min |-> <<"Double", f.min>>, max |-> <<"Double", f.max>>,
     default |-> <<"Double", f.default>>, extra_labels |-> SerializeLabels(f.labels)]

SerializeDates(f) ==
    Put("min", f.min # Absent, <<"Int64", ToSeconds(f.min[2])>>)
    @@ Put("max", f.max # Absent, <<"Int64", ToSeconds(f.max[2])>>)

SerializeFilter(f) ==
    [filter_type |-> <<"String", f.type>>]
    @@ Put("title", f.title # "", <<"String", f.title>>)
    @@ Put("display_hints", f.hints # 0, <<"Int", f.hints>>)
    @@ (IF f.group = <<>> THEN <<>> ELSE [filter_group |-> <<"String", f.group[1]>>])
    @@ CASE IsOptions(f) -> SerializeOptions(f)
         [] f.type = "range_input" -> SerializeRange(f)
         [] f.type = "value_slider" -> SerializeSlider(f)
         [] f.type = "datetime_picker" -> SerializeDates(f)
         [] OTHER -> <<>>

(* serialize_filter_groups(), for the one filter.                          *)
SerializeGroups(f) == IF f.group = <<>> THEN {} ELSE {f.group}

(* deserialize_filter_groups() and the group of a filter among them.       *)
DeserializeGroup(d, groups) ==
    IF "filter_group" \in DOMAIN d
    THEN CHOOSE g \in groups : g[1] = d["filter_group"][2] ELSE <<>>

(* deserialize().  Options are added one by one, without the limits of a   *)
(* rating; bounds of dates are whole seconds.                              *)
Member(d, name, default) == IF name \in DOMAIN d THEN d[name][2] ELSE default

DeserializeOptions(d) ==
    LET opts == d["options"][2]
    IN  [multi |-> d["multi_select"][2],
         options |-> [i \in 1..Len(opts) |->
                         [id |-> opts[i][2]["id"][2],
                          default |-> Member(opts[i][2], "default", FALSE)]]]

DeserializeRange(d) ==
    [default_start |-> d["default_start_value"], default_end |-> d["default_end_value"]]

DeserializeLabels(extra) ==
    [i \in 1..(Len(extra) \div 2) |-> <<extra[2 * i - 1][2], extra[2 * i][2]>>]

DeserializeSlider(d) ==
    [min |-> d["min"][2], max |-> d["max"][2], default |-> d["default"][2],
     labels |-> DeserializeLabels(d["extra_labels"][2])]

DeserializeDates(d) ==
    LET Bound(name) == IF name \in DOMAIN d
                       THEN <<"Time", ToTimePoint(d[name][2])>> ELSE Absent
    IN  [min |-> Bound("min"), max |-> Bound("max")]

DeserializeFilter(d, groups) ==
    LET type == d["filter_type"][2]
    IN  [type |-> type, title |-> Member(d, "title", ""),
         hints |-> Member(d, "display_hints", 0), group |-> DeserializeGroup(d, groups)]
        @@ CASE type \in {"option_selector", "radio_buttons", "rating"} -> DeserializeOptions(d)
             [] type = "range_input" -> DeserializeRange(d)
             [] type = "value_slider" -> DeserializeSlider(d)
             [] type = "datetime_picker" -> DeserializeDates(d)
             [] OTHER -> <<>>

(* create() refuses a hint that the type does not allow, but for a rating. *)
CanDeserialize(f) == f.hints # 0 => PrimaryAllowed(f) \/ f.type = "rating"

Received(f) ==
    DeserializeFilter(ViaMessage(<<"Dict", SerializeFilter(f)>>)[2], SerializeGroups(f))

-----------------------------------------------------------------------------
(* Reading the state                                                       *)

OptionIds(f) == {f.options[i].id : i \in DOMAIN f.options}

(* active_options() and has_active_option(): a value of another type, or   *)
(* an array with an element of another type, selects nothing.              *)
AllStrings(s) == \A i \in DOMAIN s : s[i][1] = "String"

ActiveOptions(f, st) ==
    IF st = Absent THEN {f.options[i].id : i \in {j \in DOMAIN f.options : f.options[j].default}}
    ELSE IF st[1] = "Array" /\ AllStrings(st[2])
    THEN OptionIds(f) \cap {st[2][i][2] : i \in DOMAIN st[2]}
    ELSE {}

HasActiveOption(f, st) ==
    /\ st[1] = "Array"
    /\ \E i \in DOMAIN st[2] : /\ AllStrings(SubSeq(st[2], 1, i))
                               /\ st[2][i][2] \in OptionIds(f)

(* RadioButtonsFilterImpl::active_option().                                *)
ActiveOption(f, st) ==
    IF Cardinality(ActiveOptions(f, st)) > 1 THEN Logic
    ELSE IF ActiveOptions(f, st) = {} THEN Nothing
    ELSE <<"option", CHOOSE id \in ActiveOptions(f, st) : TRUE>>

(* RangeInputFilterImpl::has_value(), get_value(), start_value() and       *)
(* end_value().  The default start value, if it is an Int, is returned     *)
(* only if the default end value is one.                                   *)
IsNumber(v) == v[1] \in {"Int", "Double"}

HasValue(st, index) == st[1] = "Array" /\ Len(st[2]) >= index /\ IsNumber(st[2][index])

StartValue(f, st) ==
    IF HasValue(st, 1) THEN <<"value", st[2][1][2]>>
    ELSE IF f.default_start[1] = "Double" THEN <<"value", f.default_start[2]>>
    ELSE IF f.default_end[1] # "Int" THEN NotFound
    ELSE IF f.default_start[1] # "Int" THEN Logic
    ELSE <<"value", f.default_start[2]>>

EndValue(f, st) ==
    IF HasValue(st, 2) THEN <<"value", st[2][2][2]>>
    ELSE IF IsNumber(f.default_end) THEN <<"value", f.default_end[2]>>
    ELSE NotFound

IsOn(st) == st[1] = "Bool" /\ st[2]

InRange(f, n) == f.min <= n /\ n <= f.max

(* Mutant: the value of another scope is taken as it is.                   *)
SliderUnchecked(f, st) == IF st[1] = "Double" THEN st[2] ELSE f.default

SliderValue(f, st) ==
    IF st[1] = "Double" /\ InRange(f, st[2]) THEN st[2] ELSE f.default

IsValidDate(f, t) ==
    /\ f.min # Absent => t >= f.min[2] - Second
    /\ f.max # Absent => t < f.max[2] + Second

SelectedDate(f, st) ==
    IF st[1] # "Dict" \/ "date" \notin DOMAIN st[2] \/ st[2]["date"][1] # "Int64"
    THEN NotFound
    ELSE LET t == ToTimePoint(st[2]["date"][2])
         IN  IF IsValidDate(f, t) THEN <<"date", t>> ELSE Logic

-----------------------------------------------------------------------------
(* Recording a choice: the static update_state() of each type.             *)

OptionArray(st) == st = Absent \/ (st[1] = "Array" /\ AllStrings(st[2]))

(* The recorded value must be an array of strings, or there is none.       *)
UpdateOption(st, id, active) ==
    LET old == IF st = Absent THEN <<>> ELSE st[2]
        others == SelectSeq(old, LAMBDA v : v[2] # id)
    IN  IF ~ active THEN <<"Array", others>>
        ELSE IF Len(others) < Len(old) THEN st
        ELSE <<"Array", Append(old, <<"String", id>>)>>

(* check_type() and the order of the two numbers.                          *)
CanUpdateRange(s, e) == s # Null /\ e # Null => s[2] < e[2]

UpdateRange(s, e) == IF s = Null /\ e = Null THEN Absent ELSE <<"Array", <<s, e>>>>

UpdateSlider(n) == <<"Double", n>>

UpdateSwitch(b) == <<"Bool", b>>

UpdateDate(t) == <<"Dict", [date |-> <<"Int64", ToSeconds(t)>>]>>

(* Mutant: the option that was active stays.                               *)
InstanceUpdateAdds(f, st, id, active) ==
    UpdateOption(IF OptionArray(st) THEN st ELSE Absent, id, active)

(* The update_state() of a filter: it checks the choice, and a single      *)
(* selection forgets the option that was active.                           *)
InstanceUpdateOption(f, st, id, active) ==
    UpdateOption(IF active /\ ~ f.multi THEN Absent ELSE st, id, active)

CanUpdateOption(f, st, id, active) ==
    id \in OptionIds(f) /\ ((active /\ ~ f.multi) \/ OptionArray(st))

-----------------------------------------------------------------------------
RangeValues == {Null, <<"Double", 1>>} \cup {<<"Int", n>> : n \in Numbers}

(* The client's choices, by the type of the definition that it received.   *)
Choose(st, choice) == stored' = st /\ picked' = choice /\ uri' = FALSE

PickOption ==
    \E id \in Ids, active \in BOOLEAN :
        LET f == Received(filter)
        IN  /\ IsOptions(f) /\ CanUpdateOption(f, stored, id, active)
            /\ Choose(InstanceUpdateOption(f, stored, id, active),
                      <<"option", id, active, stored, ActiveOptions(f, stored)>>)

PickRange ==
    \E s, e \in RangeValues :
        /\ filter.type = "range_input" /\ CanUpdateRange(s, e)
        /\ Choose(UpdateRange(s, e), <<"range", s, e>>)

PickNumber ==
    \E n \in Numbers :
        /\ filter.type = "value_slider" /\ InRange(Received(filter), n)
        /\ Choose(UpdateSlider(n), <<"number", n>>)

PickSwitch ==
    \E b \in BOOLEAN :
        /\ filter.type = "switch"
        /\ Choose(UpdateSwitch(b), <<"switch", b>>)

PickDate ==
    \E t \in Times :
        /\ filter.type = "datetime_picker" /\ IsValidDate(Received(filter), t)
        /\ Choose(UpdateDate(t), <<"date", t>>)

(* A static update_state() for a filter of any type with the same id, by   *)
(* a scope that makes a canned query for this one.                         *)
Foreign ==
    \/ \E id \in Ids, active \in BOOLEAN :
           OptionArray(stored) /\ Choose(UpdateOption(stored, id, active), Nothing)
    \/ \E s, e \in RangeValues :
           CanUpdateRange(s, e) /\ Choose(UpdateRange(s, e), Nothing)
    \/ \E n \in Numbers : Choose(UpdateSlider(n), Nothing)
    \/ \E b \in BOOLEAN : Choose(UpdateSwitch(b), Nothing)
    \/ \E t \in Times : Choose(UpdateDate(t), Nothing)

(* FilterState::remove().                                                  *)
Remove == Choose(Absent, Nothing)

(* CannedQuery::to_uri() and from_uri().                                   *)
ThroughUri ==
    /\ stored # Absent /\ stored' = ViaJson(stored) /\ uri' = TRUE
    /\ UNCHANGED picked

ExtraLabel == Numbers \X {"", "min", "x", "y"}
Labels == {<<>>} \cup {<<l>> : l \in ExtraLabel} \cup ExtraLabel \X ExtraLabel

Bounds == {Absent} \cup {<<"Time", t>> : t \in Times}

InitFilter ==
    \/ \E multi \in BOOLEAN : filter = OptionSelector(multi)
    \/ filter \in {RadioButtons, Rating, Switch}
    \/ \E s, e \in RangeValues : filter = RangeInput(s, e)
    \/ \E min, max, d \in Numbers, labels \in Labels :
           /\ min <= d /\ d <= max /\ ValidateLabels(min, max, labels)
           /\ filter = Slider(min, max, d, labels)
    \/ \E min, max \in Bounds : filter = DatePicker(min, max)

Init == InitFilter /\ stored = Absent /\ picked = Nothing /\ uri = FALSE

(* The scope builds the filter before it is used.                          *)
Build ==
    /\ stored = Absent /\ picked = Nothing
    /\ \/ /\ IsOptions(filter)
          /\ \E id \in Ids \ OptionIds(filter), default \in BOOLEAN :
              /\ CanAddOption(filter, default)
              /\ filter' = AddOption(filter, id, default)
       \/ /\ filter.hints = 0 /\ PrimaryAllowed(filter)
          /\ filter' = [filter EXCEPT !.hints = 1]
       \/ /\ filter.title = "" /\ filter.group = <<>> /\ filter.hints = 0
          /\ filter' = [filter EXCEPT !.title = "title", !.group = <<"group", "label">>]
    /\ UNCHANGED <<stored, picked, uri>>

(* validate_filters(), before the filters are pushed.                      *)
ValidateFilters(f) == IsOptions(f) => f.options # <<>>

Use ==
    /\ ValidateFilters(filter)
    /\ PickOption \/ PickRange \/ PickNumber \/ PickSwitch \/ PickDate
       \/ Foreign \/ Remove \/ ThroughUri
    /\ UNCHANGED filter

Next == Build \/ Use

Spec == Init /\ [][Next]_vars

-----------------------------------------------------------------------------
(* What the client chooses with the filter that it received is what the    *)
(* scope reads with the filter that it defined, also when another scope's  *)
(* canned query had left something else for the filter: the option is      *)
(* active or not, alone if the selection is single, the other options as   *)
(* they were if a state was recorded; numbers and switches are as set; a   *)
(* date between the bounds of the definition is accepted, and to the       *)
(* second, though the bounds lose their fractions on the way.              *)
ChoiceArrives ==
    LET active == ActiveOptions(filter, stored)
        Chosen(kind) == picked[1] = kind
    IN  /\ Chosen("option") =>
               LET id == picked[2] before == picked[5]
               IN  /\ id \in active <=> picked[3]
                   /\ picked[3] /\ ~ filter.multi => active = {id}
                   /\ picked[4] # Absent /\ (filter.multi \/ ~ picked[3])
                          => active \ {id} = before \ {id}
        /\ Chosen("range") =>
               /\ picked[2] # Null => StartValue(filter, stored) = <<"value", picked[2][2]>>
               /\ picked[3] # Null => EndValue(filter, stored) = <<"value", picked[3][2]>>
        /\ Chosen("number") => SliderValue(filter, stored) = picked[2]
        /\ Chosen("switch") => IsOn(stored) = picked[2]
        /\ Chosen("date") /\ ~ uri =>
               LET t == picked[2] IN
               /\ filter.min # Absent => filter.min[2] <= t
               /\ filter.max # Absent => t <= filter.max[2]
               => SelectedDate(filter, stored) = <<"date", ToTimePoint(ToSeconds(t))>>

(* Whatever another scope's canned query recorded for a filter, reading it *)
(* does not break the scope ("we shouldn't break this scope on it"): the   *)
(* slider stays in its range, only options of the filter are active, a     *)
(* date that is returned is within a second of its bounds, and a range     *)
(* has an end whenever one was recorded or is the default.                 *)
ForeignTolerated ==
    /\ filter.type = "value_slider" => InRange(filter, SliderValue(filter, stored))
    /\ IsOptions(filter) =>
           /\ ActiveOptions(filter, stored) \subseteq OptionIds(filter)
           /\ stored # Absent =>
                  (HasActiveOption(filter, stored) <=> ActiveOptions(filter, stored) # {})
           /\ ActiveOption(filter, stored) = Logic =>
                  filter.multi \/ Len(stored[2]) > 1
    /\ filter.type = "datetime_picker" /\ SelectedDate(filter, stored)[1] = "date" =>
           IsValidDate(filter, SelectedDate(filter, stored)[2])
    /\ filter.type = "range_input" =>
           (EndValue(filter, stored) # NotFound <=>
                HasValue(stored, 2) \/ IsNumber(filter.default_end))

(* The client gets the filter that the scope defined, with its group and,  *)
(* of the bounds of a date, the whole seconds; and it can trust the labels *)
(* of a slider to lie in order between its ends, each a label of its own   *)
(* (ValueSliderLabelsImpl::validate).                                      *)
DefinitionReceived ==
    LET Whole(b) == IF b = Absent THEN Absent ELSE <<"Time", ToTimePoint(ToSeconds(b[2]))>>
    IN  /\ CanDeserialize(filter)
        /\ Received(filter) = IF filter.type = "datetime_picker"
                              THEN [filter EXCEPT !.min = Whole(@), !.max = Whole(@)]
                              ELSE filter
        /\ filter.type = "value_slider" =>
               LET labels == Received(filter).labels
               IN  \A i, j \in DOMAIN labels :
                       /\ filter.min < labels[i][1] /\ labels[i][1] < filter.max
                       /\ labels[i][2] \notin {"", "min", "max"}
                       /\ i < j => labels[i][1] < labels[j][1] /\ labels[i][2] # labels[j][2]

(* start_value() returns "The start value or the default start value if    *)
(* not null", and throws NotFoundException only "if the start value is not *)
(* set and the default start value is null".                               *)
StartValueDefault ==
    filter.type = "range_input" /\ ~ HasValue(stored, 1) =>
        StartValue(filter, stored) = IF filter.default_start = Null THEN NotFound
                                     ELSE <<"value", filter.default_start[2]>>

(* A canned query "Can be converted to/from scope:// uri schema string":   *)
(* a date that was picked is still selected when the query has been a URI. *)
DateSurvivesUri ==
    picked[1] = "date" /\ IsValidDate(filter, ToTimePoint(ToSeconds(picked[2]))) =>
        SelectedDate(filter, stored) = <<"date", ToTimePoint(ToSeconds(picked[2]))>>

=============================================================================
