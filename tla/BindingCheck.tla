---------------------------- MODULE BindingCheck ----------------------------
(***************************************************************************)
(* The binding of Method against what it is for.  A method is declared     *)
(* parameter by parameter and its params are given value by value, so the  *)
(* states are all parameter lists and all params within the bounds.        *)
(***************************************************************************)
EXTENDS Method

CONSTANTS
    Names,     \* names of parameters; "" is a parameter without a name
    Types,     \* types of parameters
    Values,    \* JSON values, [parses, fits] as in Method
    MaxParams  \* bound of the model: parameters, and values of the params

ASSUME ValuesAssumption ==
    \A v \in Values : v.fits \subseteq v.parses /\ v.parses \subseteq Types
ASSUME MaxParamsAssumption == MaxParams \in Nat

VARIABLES
    ps,       \* the parameters of the method
    params    \* the params of the request

vars == <<ps, params>>

NullParams     == [shape |-> "null"]
ArrayParams(a) == [shape |-> "array", array |-> a]

Init == ps = <<>> /\ params \in {NullParams, ArrayParams(<<>>), [shape |-> "scalar"],
                                 [shape |-> "object", object |-> [n \in {} |-> 0]]}

(* The names of the parameters of a C++ function differ.                   *)
Declare == /\ Len(ps) < MaxParams
           /\ \E p \in [name : Names, type : Types, default : BOOLEAN] :
                 /\ p.name = "" \/ \A i \in DOMAIN ps : ps[i].name # p.name
                 /\ ps' = Append(ps, p)
           /\ UNCHANGED params

GivePositional == /\ params.shape = "array" /\ Len(params.array) < MaxParams
                  /\ \E v \in Values : params' = [params EXCEPT !.array = Append(@, v)]
                  /\ UNCHANGED ps

GiveNamed == /\ params.shape = "object"
             /\ \E n \in Names \ DOMAIN params.object, v \in Values :
                   params' = [params EXCEPT !.object =
                                 [m \in DOMAIN @ \cup {n} |-> IF m = n THEN v ELSE @[m]]]
             /\ UNCHANGED ps

Next == Declare \/ GivePositional \/ GiveNamed

Spec == Init /\ [][Next]_vars

-----------------------------------------------------------------------------
(* What positional params mean: the i-th value is the i-th parameter's and *)
(* every parameter has a value or a default.                               *)
MeansPositional(array) ==
    \E source \in [DOMAIN ps -> {"value", "default"}] :
        /\ DOMAIN array = {i \in DOMAIN ps : source[i] = "value"}
        /\ \A i \in DOMAIN ps : IF source[i] = "value" THEN ps[i].type \in array[i].fits
                                                       ELSE ps[i].default

(* parse_array_arguments looks at one default only and lets values through *)
(* that the converter has not converted; with RTTR's own checks a method   *)
(* is still called exactly for the positional params it takes.             *)
PositionalIsExact ==
    params.shape = "array" => (Accepts(ps, params) <=> MeansPositional(params.array))

(* An object that names exactly the leading parameters calls the method    *)
(* as the array of the same values does, error for error.                  *)
NamedLikePositional ==
    params.shape = "object" /\ ValidNames(ps) =>
        \A n \in 0 .. Len(ps) :
            DOMAIN params.object = {ps[i].name : i \in 1 .. n} =>
                BindArguments(ps, params) =
                BindArguments(ps, ArrayParams([i \in 1 .. n |-> params.object[ps[i].name]]))

(* The check of method.cpp:134 never fires, and need not: a request        *)
(* without params calls a method exactly when one with an empty array      *)
(* does.                                                                   *)
NullLikeEmpty == Accepts(ps, NullParams) <=> Accepts(ps, ArrayParams(<<>>))
=============================================================================
