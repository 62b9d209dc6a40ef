----------------------------- MODULE JsonBasic -----------------------------
(***************************************************************************)
(* Basic C++ values to JSON and back: write_atomic_types_to_json of        *)
(* src/src/io/to_json.cpp and extract_basic_types of from_json.cpp.        *)
(*                                                                         *)
(* A JSON value is <<"null">>, <<"bool", b>>, <<"integer", n>>,            *)
(* <<"float", halves>>, <<"string", s>>, <<"array", sequence>> or          *)
(* <<"object", function>>.                                                 *)
(***************************************************************************)
EXTENDS Reflection

Null == <<"null">>

WriteAtomic_Bug(v) ==
    CASE Kind(TypeOf(v)) = "bool"   -> <<"bool", v[2]>>
      [] IsInteger(TypeOf(v)) \/ Kind(TypeOf(v)) \in {"char", "double"} ->
            <<"integer", Whole(v)>>
      [] Kind(TypeOf(v)) = "string" -> <<"string", v[2]>>
      [] Kind(TypeOf(v)) = "enum"   -> <<"string", TypeOf(v)[2][v[2]]>>

(* write_atomic_types_to_json.  A char goes through to_bool.               *)
WriteAtomic(v) ==
    CASE Kind(TypeOf(v)) \in {"bool", "char"} -> <<"bool", NotZero(v)>>
      [] IsInteger(TypeOf(v))                 -> <<"integer", v[2]>>
      [] Kind(TypeOf(v)) = "double"           -> <<"float", v[2]>>
      [] Kind(TypeOf(v)) = "string"           -> <<"string", v[2]>>
      [] Kind(TypeOf(v)) = "enum"             -> <<"string", TypeOf(v)[2][v[2]]>>

ExtractBasic_Bug(j) ==
    CASE j[1] = "string"  -> <<<<"string">>, j[2]>>
      [] j[1] = "bool"    -> <<<<"bool">>, j[2]>>
      [] j[1] = "integer" -> <<IF j[2] < 0 THEN Int64 ELSE UInt64, j[2]>>
      [] OTHER            -> Invalid

(* extract_basic_types: null, an array and an object are no basic value.   *)
ExtractBasic(j) ==
    CASE j[1] = "string"  -> <<<<"string">>, j[2]>>
      [] j[1] = "bool"    -> <<<<"bool">>, j[2]>>
      [] j[1] = "float"   -> <<<<"double">>, j[2]>>
      [] j[1] = "integer" -> <<IF j[2] < 0 THEN Int64 ELSE UInt64, j[2]>>
      [] OTHER            -> Invalid
=============================================================================
