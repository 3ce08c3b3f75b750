------------------------------ MODULE Variants ------------------------------
(* Variants, and what becomes of them in JSON and in a message.  A Variant *)
(* is <<type, payload>>, a dictionary a function from names to Variants.   *)
EXTENDS Integers, Sequences

CONSTANTS MaxInt,       \* the largest 32-bit integer
          PointWritten  \* does the JSON library write 2.0 for a whole double?

Null == <<"Null", 0>>

FitsInt(n) == n >= -MaxInt - 1 /\ n <= MaxInt

(* variant_to_node(), and the text that is made of it: a number is its     *)
(* digits, of which a double has enough to keep it, and maybe a point.     *)
(* Both types of integers look the same.                                   *)
RECURSIVE VariantToNode(_)
VariantToNode(v) ==
    CASE v[1] \in {"Int", "Int64"} -> <<"number", v[2], FALSE>>
      [] v[1] = "Double" -> <<"number", v[2], PointWritten>>
      [] v[1] = "Array" -> <<"array", [i \in 1..Len(v[2]) |-> VariantToNode(v[2][i])]>>
      [] v[1] = "Dict"  -> <<"object", [k \in DOMAIN v[2] |-> VariantToNode(v[2][k])]>>
      [] OTHER          -> v

(* node_to_variant() of the parsed text: a number with a point is a        *)
(* double, another one an Int if it fits.                                  *)
RECURSIVE NodeToVariant(_)
NodeToVariant(n) ==
    CASE n[1] = "number" ->
            <<IF n[3] THEN "Double" ELSE IF FitsInt(n[2]) THEN "Int" ELSE "Int64", n[2]>>
      [] n[1] = "array"  -> <<"Array", [i \in 1..Len(n[2]) |-> NodeToVariant(n[2][i])]>>
      [] n[1] = "object" -> <<"Dict", [k \in DOMAIN n[2] |-> NodeToVariant(n[2][k])]>>
      [] OTHER           -> n

ViaJson(v) == NodeToVariant(VariantToNode(v))

(* to_value(): a dictionary travels as name and value pairs.               *)
RECURSIVE ToValue(_)
ToValue(v) ==
    CASE v[1] = "Dict"  -> <<"dictVal", {<<k, ToValue(v[2][k])>> : k \in DOMAIN v[2]}>>
      [] v[1] = "Array" -> <<"arrayVal", [i \in 1..Len(v[2]) |-> ToValue(v[2][i])]>>
      [] OTHER          -> <<"val", v>>

(* to_variant().                                                           *)
RECURSIVE ToVariant(_)
ToVariant(r) ==
    CASE r[1] = "dictVal" ->
            <<"Dict", [k \in {p[1] : p \in r[2]} |->
                          ToVariant((CHOOSE p \in r[2] : p[1] = k)[2])]>>
      [] r[1] = "arrayVal" -> <<"Array", [i \in 1..Len(r[2]) |-> ToVariant(r[2][i])]>>
      [] OTHER -> r[2]

ViaMessage(v) == ToVariant(ToValue(v))

=============================================================================
