------------------------------- MODULE Method -------------------------------
(***************************************************************************)
(* How a method binds the params of a JSON-RPC request to its parameters:  *)
(* src/src/core/method.cpp.                                                *)
(*                                                                         *)
(* A JSON value is abstracted to the parameter types it can become:        *)
(*   parses   the types for which io::from_json returns a valid variant    *)
(*   fits     those for which that variant has the type itself.  The       *)
(*            converter returns an unconverted variant when it cannot      *)
(*            convert a basic value, so parses may hold more than fits.    *)
(* The params of a request are null (or absent), an array of values, an    *)
(* object from names to values, or another JSON value.                     *)
(***************************************************************************)
EXTENDS Naturals, Sequences

(* A parameter list is a sequence of [name, type, default]; default says   *)
(* whether the parameter has a default value.                              *)

Failed       == [ok |-> FALSE, args |-> <<>>]
Bound(args)  == [ok |-> TRUE,  args |-> args]

Parses(value, param) == param.type \in value.parses

ValidNames(ps) == \A i \in DOMAIN ps : ps[i].name # ""

ParseArrayArguments_Bug(ps, array) ==
    IF /\ Len(array) <= Len(ps)
       /\ \A i \in DOMAIN array : Parses(array[i], ps[i])
    THEN Bound(array)
    ELSE Failed

ParseArrayArguments_BugBound(ps, array) ==
    IF /\ Len(array) < Len(ps)
       /\ \A i \in DOMAIN array : Parses(array[i], ps[i])
       /\ ps[Len(array) + 1].default
    THEN Bound(array)
    ELSE Failed

(* Every element must parse as its parameter; the first parameter without  *)
(* an element must have a default value.                                   *)
ParseArrayArguments(ps, array) ==
    IF /\ Len(array) <= Len(ps)
       /\ \A i \in DOMAIN array : Parses(array[i], ps[i])
       /\ Len(array) < Len(ps) => ps[Len(array) + 1].default
    THEN Bound(array)
    ELSE Failed

(* How many leading parameters the object names; the parameters after the  *)
(* first one it does not name are not looked at.                           *)
LeadingNamed(ps, object) ==
    CHOOSE n \in 0 .. Len(ps) :
        /\ \A i \in 1 .. n : ps[i].name \in DOMAIN object
        /\ n < Len(ps) => ps[n + 1].name \notin DOMAIN object

ParseNamedArguments(ps, object) ==
    LET n == LeadingNamed(ps, object)
    IN  IF /\ ValidNames(ps)
           /\ \A i \in 1 .. n : Parses(object[ps[i].name], ps[i])
           /\ n < Len(ps) => ps[n + 1].default
        THEN Bound([i \in 1 .. n |-> object[ps[i].name]])
        ELSE Failed

(* method::invoke up to the call: no params is no arguments, whatever the  *)
(* method requires (the check before it looks at the empty vars).          *)
BindArguments(ps, params) ==
    CASE params.shape = "null"   -> Bound(<<>>)
      [] params.shape = "array"  -> ParseArrayArguments(ps, params.array)
      [] params.shape = "object" -> ParseNamedArguments(ps, params.object)
      [] OTHER                   -> Failed

(* RTTR's invoke_variadic: it calls the method when each argument has its  *)
(* parameter's type and the other parameters have default values, and      *)
(* returns an invalid variant otherwise.                                   *)
Invocable(ps, args) ==
    /\ Len(args) <= Len(ps)
    /\ \A i \in DOMAIN args : ps[i].type \in args[i].fits
    /\ \A i \in Len(args) + 1 .. Len(ps) : ps[i].default

(* What the method is called with, if the call succeeds.                   *)
Accepts(ps, params) ==
    LET b == BindArguments(ps, params) IN b.ok /\ Invocable(ps, b.args)
=============================================================================
