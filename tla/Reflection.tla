----------------------------- MODULE Reflection -----------------------------
(***************************************************************************)
(* The part of RTTR that src/src/io and src/src/core/parameter.cpp use:    *)
(* types, variants and conversions (external).                             *)
(*                                                                         *)
(* A type is a tuple:                                                      *)
(*   <<"bool">>, <<"char">>, <<"double">>, <<"string">>                    *)
(*   <<"int", w>>, <<"uint", w>>   integers of w bits                      *)
(*   <<"enum", names>>             the names of the enumerators 1, 2, ...  *)
(*   <<"class", c>>                a registered class                      *)
(*   <<"vector", item>>, <<"set", key>>, <<"map", key, value>>             *)
(*   <<"pointer">>                 a type without properties or text       *)
(* A variant is <<type, value>>.  The value of a class is a function from  *)
(* its property names to variants, that of a vector a sequence of          *)
(* variants, of a set a set of variants, of a map a set of pairs of        *)
(* variants.  A double is counted in halves.                               *)
(***************************************************************************)
EXTENDS Integers, Sequences, TLC

CONSTANTS
    Bits,           \* the width of the widest integers: 64 in the code
    LowestConverts  \* whether RTTR converts a value of another type to the
                    \* lowest value of a signed type: no file under src/
                    \* shows it

ASSUME BitsAssumption == Bits \in Nat \ {0}

ASSUME LowestAssumption == LowestConverts \in BOOLEAN

VARIABLE
    classes   \* the registered classes: name |-> [ctor, props].  ctor says
              \* what the default constructor that is registered makes: an
              \* "object", a "shared" pointer, or that there is "none".
              \* props is a sequence of [name, type, hidden, readonly];
              \* hidden is the NO_SERIALIZE tag.

Int64 == <<"int", Bits>>
UInt64 == <<"uint", Bits>>

Invalid == <<<<"invalid">>, 0>>

TypeOf(v) == v[1]
Kind(t)   == t[1]

IsInteger(t)    == Kind(t) \in {"int", "uint"}
IsArithmetic(t) == IsInteger(t) \/ Kind(t) \in {"bool", "char", "double"}
IsBasic(t)      == IsArithmetic(t) \/ Kind(t) \in {"string", "enum"}

(* std::is_class: containers are classes too.                              *)
IsClass(t) == Kind(t) \in {"class", "vector", "set", "map"}

IsRegistered(t) == Kind(t) = "class" /\ t[2] \in DOMAIN classes

(* The properties of a type; a container has none, nor has a class that is *)
(* not registered.                                                         *)
Properties(t) == IF IsRegistered(t) THEN classes[t[2]].props ELSE <<>>

Lowest(t)  == CASE Kind(t) = "int" -> -(2 ^ (t[2] - 1)) [] Kind(t) = "char" -> -2 [] OTHER -> 0
Highest(t) == CASE Kind(t) = "int"  -> 2 ^ (t[2] - 1) - 1
                [] Kind(t) = "uint" -> 2 ^ t[2] - 1
                [] Kind(t) = "char" -> 1

(* The integer that a variant of arithmetic type becomes.                  *)
Whole(v) == CASE Kind(TypeOf(v)) = "bool"   -> IF v[2] THEN 1 ELSE 0
              [] Kind(TypeOf(v)) = "double" -> IF v[2] < 0 THEN -((-v[2]) \div 2) ELSE v[2] \div 2
              [] OTHER                      -> v[2]

NotZero(v) == IF Kind(TypeOf(v)) = "bool" THEN v[2] ELSE v[2] # 0

(* Whether n, within the limits of t, is converted to t.                   *)
Takes(t, n) == Kind(t) = "uint" \/ n # Lowest(t) \/ LowestConverts

(* variant::convert between basic types.  The text of a string is never a  *)
(* number here, and no number is given for an enumeration.                 *)
Convert(v, t) ==
    IF TypeOf(v) = t THEN v
    ELSE CASE IsArithmetic(TypeOf(v)) /\ Kind(t) = "bool"   -> <<t, NotZero(v)>>
           [] IsArithmetic(TypeOf(v)) /\ Kind(t) = "double" -> <<t, 2 * Whole(v)>>
           [] /\ IsArithmetic(TypeOf(v)) /\ (IsInteger(t) \/ Kind(t) = "char")
              /\ Whole(v) \in Lowest(t) .. Highest(t)
              /\ Takes(t, Whole(v))                         -> <<t, Whole(v)>>
           [] IsArithmetic(TypeOf(v)) /\ Kind(t) = "string" -> <<t, ToString(v[2])>>
           [] /\ Kind(TypeOf(v)) = "string" /\ Kind(t) = "enum"
              /\ \E i \in DOMAIN t[2] : t[2][i] = v[2]      ->
                 <<t, CHOOSE i \in DOMAIN t[2] : t[2][i] = v[2]>>
           [] OTHER -> Invalid

(* property::set_value and the views' set_value take a variant of the type *)
(* itself and refuse any other.                                            *)
Assign(old, v) == IF TypeOf(v) = TypeOf(old) THEN v ELSE old
=============================================================================
