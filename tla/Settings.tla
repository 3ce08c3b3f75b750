------------------------------ MODULE Settings ------------------------------
(* The settings of a scope: the schema, from an ini file or from JSON, and *)
(* the database that the shell writes and the scope reads back.  A raw     *)
(* value, text of a file or JSON, is <<kind, value>>.                      *)
EXTENDS Integers, Sequences, TLC

CONSTANTS Raw,          \* the raw values of the database
          RawDefaults,  \* the raw defaults of the schema, NoDefault included
          MaxWrites

VARIABLES defs,         \* SettingsDB::definitions_: the definition of one setting
          file,         \* the database: [stamp, value], or NoFile
          values,       \* values_: what is known of the setting
          lastStamp,    \* last_write_time_*_ and last_write_inode_
          pc,           \* where settings() is
          seen,         \* the file that settings() found
          result,       \* what the last call returned or threw
          quiet,        \* nobody wrote during the call
          writes

vars == <<defs, file, values, lastStamp, pc, seen, result, quiet, writes>>

NoFile == [stamp |-> 0, value |-> <<"none", 0>>]
NoDefault == <<"none", 0>>
Unset == <<"Null", 0>>
Threw(exception) == <<"threw", exception>>

Types == {"boolean", "list", "number", "string"}

-----------------------------------------------------------------------------
(* Schemas                                                                 *)

(* IniParser and std::stod(): the Variant that a raw value is read as, or  *)
(* an exception.  A number may be too large for a double.                  *)
GetBoolean(raw) == IF raw[1] = "bool" THEN <<"Bool", raw[2]>> ELSE Threw("Logic")
GetInt(raw) == IF raw[1] = "int" THEN <<"Int", raw[2]>> ELSE Threw("Logic")
GetString(raw) == <<"String", raw>>
Stod(raw) ==
    CASE raw[1] = "int"  -> <<"Double", raw[2]>>
      [] raw[1] = "huge" -> Threw("OutOfRange")
      [] OTHER           -> Threw("InvalidArgument")

Definition(type, default, size) == [type |-> type, default |-> default, size |-> size]

Refused == [type |-> "refused", default |-> Unset, size |-> 0]

InEnum(v, size) == v[2] >= 0 /\ v[2] < size

(* IniSettingsSchema's Setting: any exception refuses the schema.  Without *)
(* a default value the display values are not read.                        *)
IniSetting(type, raw, size) ==
    LET v == CASE type = "boolean" -> GetBoolean(raw)
               [] type = "list"    -> GetInt(raw)
               [] type = "number"  -> Stod(raw)
               [] OTHER            -> GetString(raw)
    IN  IF type \notin Types THEN Refused
        ELSE IF raw = NoDefault THEN Definition(type, Unset, 0)
        ELSE IF v[1] = "threw" THEN Refused
        ELSE IF type = "list" /\ (size < 2 \/ ~ InEnum(v, size)) THEN Refused
        ELSE Definition(type, v, IF type = "list" THEN size ELSE 0)

(* JsonSettingsSchema's Setting.                                           *)
JsonSetting(type, raw, size) ==
    LET v == CASE type = "boolean" -> GetBoolean(raw)
               [] type = "list"    -> GetInt(raw)
               [] type = "number" /\ raw[1] = "int" -> <<"Double", raw[2]>>
               [] type = "string" /\ raw[1] = "str" -> GetString(raw)
               [] OTHER -> Threw("Resource")
    IN  IF type \notin Types THEN Refused
        ELSE IF raw = NoDefault THEN Definition(type, Unset, 0)
        ELSE IF v[1] = "threw" THEN Refused
        ELSE IF type = "list" /\ (size = 0 \/ ~ InEnum(v, size)) THEN Refused
        ELSE Definition(type, v, IF type = "list" THEN size ELSE 0)

(* The definitions that a schema of either format can have.                *)
IniDefinitions(types, raws, sizes) ==
    {IniSetting(t, raw, n) : t \in types, raw \in raws, n \in sizes} \ {Refused}

JsonDefinitions(types, raws, sizes) ==
    {JsonSetting(t, raw, n) : t \in types, raw \in raws, n \in sizes} \ {Refused}

(* add_location_setting().                                                 *)
LocationSetting == Definition("boolean", <<"Bool", TRUE>>, 0)

-----------------------------------------------------------------------------
(* SettingsDB                                                              *)

(* process_doc_(): a value that does not fit the schema is passed over.    *)
ProcessDoc(def, raw, old) ==
    LET v == CASE def.type = "boolean" -> GetBoolean(raw)
               [] def.type = "list"    -> GetInt(raw)
               [] def.type = "number"  -> Stod(raw)
               [] OTHER                -> GetString(raw)
    IN  IF v[1] # "threw" THEN v
        ELSE IF v[2] \in {"Logic", "InvalidArgument"} THEN old ELSE v

SetDefaults(def) == def.default

Return(v) == pc' = "idle" /\ result' = v /\ UNCHANGED seen

(* settings(): stat() finds the file or not.                               *)
Stat ==
    /\ pc = "idle"
    /\ quiet' = TRUE
    /\ IF file # NoFile
       THEN pc' = "lock" /\ UNCHANGED <<values, seen, result>>
       ELSE values' = SetDefaults(defs) /\ Return(SetDefaults(defs))
    /\ UNCHANGED <<defs, file, lastStamp, writes>>

(* Mutant: the values are not reset before the file is read.               *)
LockKeepsValues ==
    /\ pc = "lock"
    /\ IF file = NoFile \/ file.stamp = lastStamp
       THEN /\ values' = IF values = Unset THEN SetDefaults(defs) ELSE values
            /\ Return(values')
       ELSE pc' = "parse" /\ seen' = file /\ UNCHANGED <<values, result>>
    /\ UNCHANGED <<defs, file, lastStamp, quiet, writes>>

(* The file is opened, locked, and compared with the last time.  If it is  *)
(* gone by now the values stay as they are.                                *)
Lock ==
    /\ pc = "lock"
    /\ IF file = NoFile \/ file.stamp = lastStamp
       THEN /\ values' = IF values = Unset THEN SetDefaults(defs) ELSE values
            /\ Return(values')
       ELSE /\ values' = SetDefaults(defs)
            /\ pc' = "parse" /\ seen' = file
            /\ UNCHANGED result
    /\ UNCHANGED <<defs, file, lastStamp, quiet, writes>>

(* The parser opens the path again: by now it can be another file, or      *)
(* none.                                                                   *)
Parse ==
    /\ pc = "parse"
    /\ IF file = NoFile
       THEN Return(Threw("Resource")) /\ UNCHANGED <<values, lastStamp>>
       ELSE LET v == ProcessDoc(defs, file.value, values)
            IN  /\ Return(v)
                /\ IF v[1] = "threw"
                   THEN UNCHANGED <<values, lastStamp>>
                   ELSE values' = v /\ lastStamp' = seen.stamp
    /\ UNCHANGED <<defs, file, quiet, writes>>

(* The shell replaces the database, writes to it when it is not locked, or *)
(* removes it.  Every write gets a time stamp or an inode of its own.      *)
Write ==
    /\ writes < MaxWrites /\ writes' = writes + 1
    /\ \/ \E raw \in Raw : file' = [stamp |-> writes + 1, value |-> raw]
       \/ file # NoFile /\ file' = NoFile
    /\ quiet' = FALSE
    /\ UNCHANGED <<defs, values, lastStamp, pc, seen, result>>

Init ==
    /\ \/ defs \in IniDefinitions(Types \cup {"color"}, RawDefaults, 0..2)
       \/ defs \in JsonDefinitions(Types \cup {"color"}, RawDefaults, 0..2)
       \/ defs = LocationSetting
    /\ file = NoFile
    /\ values = Unset
    /\ lastStamp = 0
    /\ pc = "idle"
    /\ seen = NoFile
    /\ result = <<"none", 0>>
    /\ quiet = TRUE
    /\ writes = 0

Next == Stat \/ Lock \/ Parse \/ Write

Spec == Init /\ [][Next]_vars

-----------------------------------------------------------------------------
VariantType(type) ==
    CASE type = "boolean" -> "Bool" [] type = "list" -> "Int"
      [] type = "number" -> "Double" [] OTHER -> "String"

(* What a scope reads has the type that the schema says, and if nobody     *)
(* wrote to the database during the call it is what the database says, or  *)
(* the default when the database has nothing that fits: no value of an     *)
(* earlier database survives in the cache (process_all_docs).              *)
SettingsCurrent ==
    /\ result[1] \in {"none", "threw", "Null", VariantType(defs.type)}
    /\ defs.type = "list" /\ defs.default # Unset => InEnum(defs.default, defs.size)
    /\ pc = "idle" /\ quiet /\ result[1] \notin {"none", "threw"} =>
           result = IF file = NoFile THEN defs.default
                    ELSE ProcessDoc(defs, file.value, defs.default)

(* "We are lenient when parsing the setting value. If it doesn't match the *)
(* schema, or something goes wrong otherwise, we use the default value     *)
(* rather than complaining." (SettingsDB::process_doc_)                    *)
SettingsLenient == quiet => result[1] # "threw"

=============================================================================
