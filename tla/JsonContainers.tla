--------------------------- MODULE JsonContainers ---------------------------
(***************************************************************************)
(* Containers and classes to JSON and back: src/src/io/to_json.cpp and     *)
(* from_json.cpp.  (JsonBasic does this for basic values.)                 *)
(*                                                                         *)
(* The functions there call each other for the components of a value.      *)
(* Here the calls are parameters: JsonIo closes the circle.                *)
(***************************************************************************)
EXTENDS JsonBasic, SequencesExt

NoText == ""

(* The value of a default constructor.                                     *)
DefaultWith(default(_), t) ==
    CASE Kind(t) = "bool"   -> <<t, FALSE>>
      [] Kind(t) = "string" -> <<t, NoText>>
      [] Kind(t) = "enum"   -> <<t, 1>>
      [] Kind(t) = "vector" -> <<t, <<>>>>
      [] Kind(t) \in {"set", "map"} -> <<t, {}>>
      [] Kind(t) = "class"  ->
            <<t, [n \in {p.name : p \in ToSet(Properties(t))} |->
                     default((CHOOSE p \in ToSet(Properties(t)) : p.name = n).type)]>>
      [] OTHER -> <<t, 0>>

-----------------------------------------------------------------------------
(* to_json.cpp                                                             *)

Written_Bug(t) == ToSet(Properties(t))

(* What to_json_recursively visits.                                        *)
Written(t) == {p \in ToSet(Properties(t)) : ~p.hidden}

(* to_json_recursively; a type without properties becomes an empty object. *)
WriteObject(toJson(_), v) ==
    <<"object", [n \in {p.name : p \in Written(TypeOf(v))} |-> toJson(v[2][n])]>>

(* An element in write_array: an associative container has no case.        *)
WriteItemWith(toJson(_), writeItem(_), v) ==
    CASE Kind(TypeOf(v)) = "vector" -> <<"array", [i \in DOMAIN v[2] |-> writeItem(v[2][i])]>>
      [] IsBasic(TypeOf(v))         -> WriteAtomic(v)
      [] OTHER                      -> WriteObject(toJson, v)

(* write_variant                                                           *)
ToJsonWith(toJson(_), writeItem(_), v) ==
    CASE IsBasic(TypeOf(v))         -> WriteAtomic(v)
      [] Kind(TypeOf(v)) = "vector" -> WriteItemWith(toJson, writeItem, v)
      [] Kind(TypeOf(v)) = "set"    -> <<"array", SetToSeq({toJson(k) : k \in v[2]})>>
      [] Kind(TypeOf(v)) = "map"    ->
            <<"array", SetToSeq({<<"object", [key |-> toJson(e[1]), value |-> toJson(e[2])]>>
                                    : e \in v[2]})>>
      [] Properties(TypeOf(v)) # <<>> -> WriteObject(toJson, v)
      [] OTHER -> Null

-----------------------------------------------------------------------------
(* from_json.cpp                                                           *)

(* get_constructor: containers have none.                                  *)
Constructor(t) == IF IsRegistered(t) THEN classes[t[2]].ctor ELSE "none"

(* What the constructor makes: the value of another type when its policy   *)
(* is not as_object, nothing when there is none.                           *)
Construct(default(_), t) ==
    CASE Constructor(t) = "object" -> default(t)
      [] Constructor(t) = "shared" -> <<<<"shared", t>>, default(t)>>
      [] OTHER -> Invalid

(* fromjson_recursively: what the object does not name keeps its value.    *)
ReadObject(readProperty(_, _), v, members) ==
    IF Kind(TypeOf(v)) # "class" THEN v
    ELSE <<TypeOf(v),
           [n \in DOMAIN v[2] |->
               IF n \in DOMAIN members /\ \E p \in ToSet(Properties(TypeOf(v))) :
                                             p.name = n /\ ~p.readonly
               THEN readProperty(v[2][n], members[n]) ELSE v[2][n]]>>

Resized_Bug(v, array) == DOMAIN array \cup DOMAIN v[2]

(* set_size                                                                *)
Resized(v, array) == DOMAIN array

(* write_array_recursively: the vector is resized, the elements it keeps   *)
(* are read into.  It is the empty view of anything but a vector.          *)
ReadArray(default(_), readItem(_, _), v, array) ==
    IF Kind(TypeOf(v)) # "vector" THEN v
    ELSE LET kept(i) == IF i \in DOMAIN v[2] THEN v[2][i] ELSE default(TypeOf(v)[2])
         IN  <<TypeOf(v), [i \in Resized(v, array) |->
                              IF i \in DOMAIN array THEN readItem(kept(i), array[i]) ELSE kept(i)]>>

ReadItemWith(default(_), readItem(_, _), readProperty(_, _), v, j) ==
    CASE j[1] = "array"  -> ReadArray(default, readItem, v, j[2])
      [] j[1] = "object" -> ReadObject(readProperty, v, j[2])
      [] OTHER           -> Assign(v, Convert(ExtractBasic(j), TypeOf(v)))

(* extract_value: a basic value that cannot be converted is returned as it *)
(* is, an array always as an invalid variant.                              *)
Extract(default(_), readProperty(_, _), j, t) ==
    LET basic     == ExtractBasic(j)
        converted == Convert(basic, t)
    IN  IF converted # Invalid THEN converted
        ELSE IF j[1] = "object" THEN ReadObject(readProperty, Construct(default, t), j[2])
        ELSE basic

IsEntry(j) == j[1] = "object" /\ {"key", "value"} \subseteq DOMAIN j[2]

(* write_associative_view_recursively: entries are inserted in their       *)
(* order, and an insertion changes nothing when the key is there already.  *)
ReadAssociative(default(_), readProperty(_, _), v, array) ==
    LET type == TypeOf(v)
        entry(j) == <<Extract(default, readProperty, j[2]["key"], type[2]),
                      Extract(default, readProperty, j[2]["value"], type[3])>>
        fits(j)  == IsEntry(j) /\ TypeOf(entry(j)[1]) = type[2] /\ TypeOf(entry(j)[2]) = type[3]
        first(i) == /\ fits(array[i])
                    /\ \A k \in 1 .. i - 1 :
                          fits(array[k]) => entry(array[k])[1] # entry(array[i])[1]
                    /\ \A e \in v[2] : e[1] # entry(array[i])[1]
    IN  IF Kind(type) = "map"
        THEN <<type, v[2] \cup {entry(array[i]) : i \in {k \in DOMAIN array : first(k)}}>>
        ELSE <<type, v[2] \cup ({Convert(ExtractBasic(j), type[2]) : j \in ToSet(array)}
                                    \ {Invalid})>>

(* The switch of fromjson_recursively.                                     *)
ReadPropertyWith(default(_), readItem(_, _), readProperty(_, _), v, j) ==
    IF j[1] = "array" /\ Kind(TypeOf(v)) \in {"set", "map"}
    THEN ReadAssociative(default, readProperty, v, j[2])
    ELSE ReadItemWith(default, readItem, readProperty, v, j)
=============================================================================
