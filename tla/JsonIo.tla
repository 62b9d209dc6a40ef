------------------------------- MODULE JsonIo -------------------------------
(***************************************************************************)
(* The functions of JsonContainers, calling each other.                    *)
(***************************************************************************)
EXTENDS JsonContainers

RECURSIVE Default(_), ToJson(_), WriteItem(_), ReadItem(_, _), ReadProperty(_, _)

Default(t) == DefaultWith(Default, t)

(* write_variant, with write_associative_container and to_json_recursively *)
(* (WriteObject); an element in write_array.                               *)
ToJson(v)    == ToJsonWith(ToJson, WriteItem, v)
WriteItem(v) == WriteItemWith(ToJson, WriteItem, v)

(* An element in write_array_recursively; a property in                    *)
(* fromjson_recursively, with write_associative_view_recursively.          *)
ReadItem(v, j)     == ReadItemWith(Default, ReadItem, ReadProperty, v, j)
ReadProperty(v, j) == ReadPropertyWith(Default, ReadItem, ReadProperty, v, j)

(* fromjson_recursively of an object, and extract_value of an argument.    *)
FromJson(v, members) == ReadObject(ReadProperty, v, members)
ExtractValue(j, t)   == Extract(Default, ReadProperty, j, t)
=============================================================================
