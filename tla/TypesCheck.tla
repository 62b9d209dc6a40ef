----------------------------- MODULE TypesCheck -----------------------------
(***************************************************************************)
(* JsonIo against what it is for, and against the schema of Schema, for    *)
(* every declaration: which values survive the way to JSON and back, and   *)
(* what a client that keeps to the schema gets.                            *)
(***************************************************************************)
EXTENDS Schema, JsonIo

(* Some values of a type, the extreme ones among them; the lowest of a     *)
(* signed type only if it is known to be converted.                        *)
RECURSIVE Values(_)
Values(t) ==
    CASE Kind(t) = "bool"   -> {<<t, b>> : b \in BOOLEAN}
      [] Kind(t) = "double" -> {<<t, n>> : n \in {-3, 2}}
      [] Kind(t) = "string" -> {<<t, s>> : s \in {"", "x"}}
      [] Kind(t) = "enum"   -> {<<t, i>> : i \in DOMAIN t[2]}
      [] IsInteger(t) \/ Kind(t) = "char" ->
            {<<t, n>> : n \in {m \in {Lowest(t), -1, Highest(t)} : m >= Lowest(t) /\ Takes(t, m)}}
      [] Kind(t) = "vector" -> {<<t, s>> : s \in BoundedSeq(Values(t[2]), 2)}
      [] Kind(t) = "set"    -> {<<t, s>> : s \in {u \in SUBSET Values(t[2]) : Cardinality(u) <= 2}}
      [] Kind(t) = "map"    ->
            {<<t, {<<k, f[k]>> : k \in DOMAIN f}>> :
                f \in UNION {[d -> Values(t[3])] : d \in SUBSET Values(t[2])}}
      [] Kind(t) = "class"  ->
            LET props == ToSet(Properties(t))
            IN  {<<t, f>> : f \in {g \in [{p.name : p \in props} -> UNION {Values(p.type) : p \in props}] :
                                      \A p \in props : g[p.name] \in Values(p.type)}}
      [] OTHER -> {<<t, 0>>, <<t, 1>>}

-----------------------------------------------------------------------------
(* What the functions of JsonIo carry, said of the types alone.            *)

RECURSIVE Transported(_), Passed(_), Overwritten(_)

(* As a method's argument, or as the key or value of a map.  (A class      *)
(* without properties is written as null.)                                 *)
Passed(t) == \/ IsBasic(t) /\ Kind(t) # "char"
             \/ /\ Constructor(t) = "object" /\ Properties(t) # <<>>
                /\ Transported(t)

(* As the value of a property or an element, into a new object.            *)
Transported(t) ==
    \/ IsBasic(t) /\ Kind(t) # "char"
    \/ Kind(t) = "vector" /\ Kind(t[2]) \notin {"set", "map"} /\ Transported(t[2])
    \/ Kind(t) = "set" /\ IsBasic(t[2]) /\ Kind(t[2]) # "char"
    \/ Kind(t) = "map" /\ Passed(t[2]) /\ Passed(t[3])
    \/ /\ Kind(t) = "class"
       /\ \A p \in ToSet(Properties(t)) : ~p.hidden /\ ~p.readonly /\ Transported(p.type)

(* The same, into an object that has another value.                        *)
Overwritten(t) ==
    \/ IsBasic(t) /\ Kind(t) # "char"
    \/ Kind(t) = "vector" /\ Overwritten(t[2])
    \/ /\ Kind(t) = "class"
       /\ \A p \in ToSet(Properties(t)) : ~p.hidden /\ ~p.readonly /\ Overwritten(p.type)

Read(old, v) == ReadProperty(old, ToJson(v))

(* The values are looked at once for each declaration, at the beginning.   *)
AtStart == root = 1 /\ stack = <<>> /\ Acyclic

(* A property's value survives to_json and from_json into a new object for *)
(* exactly the types that Transported names: no char (to_bool), no         *)
(* container in a vector but a vector, no class in a set, no hidden or     *)
(* read-only property, no class in a map that has no constructor or no     *)
(* property.                                                               *)
TransportIsExact ==
    AtStart => \A t \in ToSet(roots) :
        Transported(t) <=> \A v \in Values(t) : Read(Default(t), v) = v

(* from_json into an object that exists replaces its value, whatever it    *)
(* was, for exactly the types without sets and maps (their old entries     *)
(* stay, and an old key keeps its old value).                              *)
OverwriteIsExact ==
    AtStart => \A t \in ToSet(roots) :
        Overwritten(t) <=> \A v, old \in Values(t) : Read(old, v) = v

(* An argument that a client has serialised is the argument the method is  *)
(* called with, for exactly the types that Passed names; no container is   *)
(* one of them.                                                            *)
ArgumentIsExact ==
    AtStart => \A t \in ToSet(roots) :
        Passed(t) <=> \A v \in Values(t) : ExtractValue(ToJson(v), t) = v

-----------------------------------------------------------------------------
(* The schema, as a client reads it.                                       *)

RECURSIVE Conforms(_, _), Offers(_)

(* The JSON values that the generated schema allows for a type.            *)
Conforms(j, t) == ConformsWith(Conforms, j, t)

(* What clients send: every shape of JSON, and objects with the members    *)
(* of a class or some of them; the lowest value of a signed type only if   *)
(* it is known to be converted.                                            *)
Offers(t) ==
    LET props == ToSet(Properties(t))
        names == {p.name : p \in props}
    IN  {Null, <<"bool", TRUE>>, <<"string", "x">>, <<"string", "red">>, <<"array", <<>>>>,
         <<"array", <<<<"integer", 1>>>>>>, <<"object", [n \in {} |-> Null]>>}
        \cup {<<"integer", n>> : n \in {m \in {-8, -3, -2, -1, 0, 1, 2, 3, 4, 15} :
                                             IsInteger(t) => Takes(t, m)}}
        \cup {<<"float", n>> : n \in {-1, 2, 8}}
        \cup {<<"object", f>> : f \in UNION
                {{g \in [d -> UNION {Offers(p.type) : p \in props}] :
                     \A p \in props : p.name \in d => g[p.name] \in Offers(p.type)}
                        : d \in SUBSET names}}

(* Every offer that conforms to the schema that create_schema generates    *)
(* for a parameter (whose limits are those of numeric_limits; the limits   *)
(* that core/README.md:223-231 shows are others) is converted to the       *)
(* parameter's type, so that RTTR can call the method: for all types but   *)
(* char (whose limits are not in the schema), containers and classes that  *)
(* from_json cannot construct; of the lowest value of a signed type, which *)
(* the schema allows, nothing is said unless LowestConverts.               *)
SchemaAdmits ==
    Described /\ Acyclic => \A t \in ToSet(roots) :
        /\ Kind(t) # "char"
        /\ IsClass(t) => Construct(Default, t)[1] = t
        => \A j \in Offers(t) : Conforms(j, t) => TypeOf(ExtractValue(j, t)) = t

RECURSIVE Fillable(_)
Fillable(t) == \/ IsBasic(t) /\ Kind(t) # "char"
               \/ /\ Kind(t) = "class"
                  /\ \A p \in ToSet(Properties(t)) : ~p.readonly /\ Fillable(p.type)

(* An offer that conforms to the schema decides the whole object: every    *)
(* property is required, and none keeps the value it had (a hidden one is  *)
(* described and read like any other).                                     *)
SchemaDecides ==
    Described /\ Acyclic => \A t \in ToSet(roots) :
        Kind(t) = "class" /\ Fillable(t) =>
            \A j \in Offers(t) : Conforms(j, t) =>
                \A v \in Values(t) : FromJson(v, j[2]) = FromJson(Default(t), j[2])
=============================================================================
