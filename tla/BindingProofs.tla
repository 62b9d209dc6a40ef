---------------------------- MODULE BindingProofs ----------------------------
(***************************************************************************)
(* Proofs about the binding of params: first about the operators of        *)
(* Method, for all parameter lists and params, then that BindingCheck's    *)
(* properties hold in all its states, for any names, types, values and     *)
(* bounds.                                                                 *)
(***************************************************************************)
EXTENDS BindingCheck, SequenceTheorems, TLAPS

Parameter(N, T) == [name : N, type : T, default : BOOLEAN]

(* What converts to a type is a value of some type.                        *)
IsValue(v) == v.fits \subseteq v.parses

-----------------------------------------------------------------------------
(***************************************************************************)
(* Positional params.                                                      *)
(***************************************************************************)

(* The values that fit, and defaults for all parameters after them.        *)
Exact(pl, array) ==
    /\ Len(array) <= Len(pl)
    /\ \A i \in 1 .. Len(array) : pl[i].type \in array[i].fits
    /\ \A i \in Len(array) + 1 .. Len(pl) : pl[i].default

(* The default that parse_array_arguments looks at and the conversions it  *)
(* lets through are among what RTTR checks again.                          *)
LEMMA PositionalBinding ==
    ASSUME NEW N, NEW T, NEW V, NEW pl \in Seq(Parameter(N, T)), NEW array \in Seq(V),
           \A v \in V : IsValue(v)
    PROVE  Accepts(pl, ArrayParams(array)) <=> Exact(pl, array)
<1> DEFINE b == ParseArrayArguments(pl, array)
<1>1. BindArguments(pl, ArrayParams(array)) = b
  BY DEF BindArguments, ArrayParams
<1>2. Accepts(pl, ArrayParams(array)) <=> b.ok /\ Invocable(pl, b.args)
  BY <1>1 DEF Accepts
<1>3. /\ Len(array) \in Nat /\ DOMAIN array = 1 .. Len(array)
      /\ Len(pl) \in Nat /\ DOMAIN pl = 1 .. Len(pl)
  OBVIOUS
<1>4. ASSUME b.ok
      PROVE  b.args = array
  BY <1>4 DEF ParseArrayArguments, Bound, Failed
<1>5. ASSUME Exact(pl, array)
      PROVE  b.ok
  <2>1. ASSUME NEW i \in 1 .. Len(array)
        PROVE  Parses(array[i], pl[i])
    <3>1. pl[i].type \in array[i].fits /\ IsValue(array[i])
      BY <1>5, ElementOfSeq DEF Exact
    <3> QED
      BY <3>1 DEF IsValue, Parses
  <2>2. ASSUME Len(array) < Len(pl)
        PROVE  pl[Len(array) + 1].default
    <3>1. Len(array) + 1 \in Len(array) + 1 .. Len(pl)
      BY <1>3, <2>2
    <3> QED
      BY <1>5, <3>1 DEF Exact
  <2>3. Len(array) <= Len(pl)
    BY <1>5 DEF Exact
  <2>4. b = Bound(array)
    BY <1>3, <2>1, <2>2, <2>3 DEF ParseArrayArguments
  <2> QED
    BY <2>4 DEF Bound
<1>6. Invocable(pl, array) <=> Exact(pl, array)
  BY <1>3 DEF Invocable, Exact
<1> HIDE DEF b
<1> QED
  BY <1>2, <1>4, <1>5, <1>6

(* No params and an empty array are accepted by the same methods, although *)
(* one skips the check of the first default.                               *)
LEMMA NullBinding ==
    ASSUME NEW N, NEW T, NEW pl \in Seq(Parameter(N, T))
    PROVE  Accepts(pl, NullParams) <=> Accepts(pl, ArrayParams(<<>>))
<1>1. Accepts(pl, NullParams) <=> Invocable(pl, <<>>)
  BY DEF Accepts, BindArguments, NullParams, Bound
<1>2. Invocable(pl, <<>>) <=> Exact(pl, <<>>)
  BY DEF Invocable, Exact
<1> DEFINE None == {}
<1>3. <<>> \in Seq(None) /\ \A v \in None : IsValue(v)
  OBVIOUS
<1> HIDE DEF None
<1>4. Accepts(pl, ArrayParams(<<>>)) <=> Exact(pl, <<>>)
  BY <1>3, PositionalBinding
<1> QED
  BY <1>1, <1>2, <1>4

-----------------------------------------------------------------------------
(***************************************************************************)
(* Named params.                                                           *)
(***************************************************************************)

Distinct(pl) == \A i, j \in 1 .. Len(pl) : pl[i].name = pl[j].name => i = j

(* An object that names exactly the first n parameters gives values to     *)
(* these, and to no other.                                                 *)
LEMMA LeadingExact ==
    ASSUME NEW N, NEW T, NEW pl \in Seq(Parameter(N, T)), Distinct(pl),
           NEW n \in 0 .. Len(pl), NEW object,
           DOMAIN object = {pl[i].name : i \in 1 .. n}
    PROVE  LeadingNamed(pl, object) = n
<1>1. Len(pl) \in Nat /\ n \in Nat /\ n <= Len(pl)
  OBVIOUS
<1> DEFINE Leads(k) == /\ \A i \in 1 .. k : pl[i].name \in DOMAIN object
                       /\ k < Len(pl) => pl[k + 1].name \notin DOMAIN object
<1>2. \A k \in 1 .. Len(pl) : pl[k].name \in DOMAIN object <=> k <= n
  <2> SUFFICES ASSUME NEW k \in 1 .. Len(pl)
               PROVE  pl[k].name \in DOMAIN object <=> k <= n
    OBVIOUS
  <2>1. ASSUME k <= n
        PROVE  pl[k].name \in DOMAIN object
    BY <1>1, <2>1
  <2>2. ASSUME pl[k].name \in DOMAIN object
        PROVE  k <= n
    <3>1. PICK i \in 1 .. n : pl[k].name = pl[i].name
      BY <2>2
    <3>2. i \in 1 .. Len(pl)
      BY <1>1
    <3>3. k = i
      BY <3>1, <3>2 DEF Distinct
    <3> QED
      BY <1>1, <3>3
  <2> QED
    BY <2>1, <2>2
<1>3. Leads(n)
  <2>1. \A i \in 1 .. n : i \in 1 .. Len(pl) /\ i <= n
    BY <1>1
  <2>2. n < Len(pl) => n + 1 \in 1 .. Len(pl) /\ ~(n + 1 <= n)
    BY <1>1
  <2> QED
    BY <1>2, <2>1, <2>2
<1>4. ASSUME NEW k \in 0 .. Len(pl), Leads(k)
      PROVE  k = n
  <2>1. CASE k < n
    <3>1. k + 1 \in 1 .. Len(pl) /\ k + 1 <= n /\ k < Len(pl)
      BY <1>1, <2>1
    <3> QED
      BY <1>2, <1>4, <3>1
  <2>2. CASE k > n
    <3>1. n + 1 \in 1 .. k /\ n + 1 \in 1 .. Len(pl) /\ ~(n + 1 <= n)
      BY <1>1, <2>2
    <3> QED
      BY <1>2, <1>4, <3>1
  <2> QED
    BY <1>1, <2>1, <2>2
<1>5. LeadingNamed(pl, object) = CHOOSE k \in 0 .. Len(pl) : Leads(k)
  BY DEF LeadingNamed
<1> HIDE DEF Leads
<1> QED
  BY <1>3, <1>4, <1>5

(* Such an object is bound as the array of its values is.                  *)
LEMMA NamedBinding ==
    ASSUME NEW N, NEW T, NEW pl \in Seq(Parameter(N, T)), Distinct(pl), ValidNames(pl),
           NEW n \in 0 .. Len(pl), NEW object,
           DOMAIN object = {pl[i].name : i \in 1 .. n}
    PROVE  BindArguments(pl, [shape |-> "object", object |-> object]) =
           BindArguments(pl, ArrayParams([i \in 1 .. n |-> object[pl[i].name]]))
<1> DEFINE array == [i \in 1 .. n |-> object[pl[i].name]]
<1>1. /\ Len(pl) \in Nat /\ n \in Nat /\ n <= Len(pl)
      /\ DOMAIN array = 1 .. n /\ Len(array) = n
      /\ \A i \in 1 .. n : array[i] = object[pl[i].name]
  OBVIOUS
<1>2. BindArguments(pl, [shape |-> "object", object |-> object]) = ParseNamedArguments(pl, object)
  BY DEF BindArguments
<1>3. BindArguments(pl, ArrayParams(array)) = ParseArrayArguments(pl, array)
  BY DEF BindArguments, ArrayParams
<1>4. LeadingNamed(pl, object) = n
  BY LeadingExact
<1> DEFINE Given == /\ \A i \in 1 .. n : Parses(object[pl[i].name], pl[i])
                    /\ n < Len(pl) => pl[n + 1].default
<1>5. ParseNamedArguments(pl, object) = IF Given THEN Bound(array) ELSE Failed
  BY <1>4 DEF ParseNamedArguments
<1> HIDE DEF array
<1>6. ParseArrayArguments(pl, array) = IF Given THEN Bound(array) ELSE Failed
  BY <1>1 DEF ParseArrayArguments
<1> QED
  BY <1>2, <1>3, <1>5, <1>6 DEF array

-----------------------------------------------------------------------------
(***************************************************************************)
(* The states of BindingCheck.                                             *)
(***************************************************************************)

(* The method has a parameter list, whose named parameters differ.         *)
ParametersInv ==
    /\ ps \in Seq(Parameter(Names, Types))
    /\ \A i, j \in 1 .. Len(ps) : ps[i].name = ps[j].name /\ ps[i].name # "" => i = j

(* The params are of one of the four shapes, and hold values.              *)
ParamsInv ==
    \/ params = NullParams
    \/ params = [shape |-> "scalar"]
    \/ \E a \in Seq(Values) : params = ArrayParams(a)
    \/ \E N \in SUBSET Names : \E f \in [N -> Values] :
          params = [shape |-> "object", object |-> f]

IInv == ParametersInv /\ ParamsInv

LEMMA InitInv == Init => IInv
<1> SUFFICES ASSUME Init
             PROVE  IInv
  OBVIOUS
<1>1. ParametersInv
  BY DEF Init, ParametersInv
<1>2. ParamsInv
  <2>1. CASE params = NullParams \/ params = [shape |-> "scalar"]
    BY <2>1 DEF ParamsInv
  <2>2. CASE params = ArrayParams(<<>>)
    <3>1. <<>> \in Seq(Values)
      OBVIOUS
    <3> QED
      BY <2>2, <3>1 DEF ParamsInv
  <2>3. CASE params = [shape |-> "object", object |-> [n \in {} |-> 0]]
    <3>1. [n \in {} |-> 0] \in [{} -> Values] /\ {} \in SUBSET Names
      OBVIOUS
    <3> QED
      BY <2>3, <3>1 DEF ParamsInv
  <2> QED
    BY <2>1, <2>2, <2>3 DEF Init
<1> QED
  BY <1>1, <1>2 DEF IInv

LEMMA DeclareInv == IInv /\ Declare => IInv'
<1> SUFFICES ASSUME IInv, Declare
             PROVE  IInv'
  OBVIOUS
<1>1. PICK p \in Parameter(Names, Types) :
         /\ p.name = "" \/ \A i \in DOMAIN ps : ps[i].name # p.name
         /\ ps' = Append(ps, p)
  BY DEF Declare, Parameter
<1>2. ps \in Seq(Parameter(Names, Types)) /\ DOMAIN ps = 1 .. Len(ps) /\ Len(ps) \in Nat
  BY LenProperties DEF IInv, ParametersInv
<1>3. ps' \in Seq(Parameter(Names, Types))
  BY <1>1, <1>2, AppendProperties
<1>4. /\ Len(ps') = Len(ps) + 1
      /\ \A i \in 1 .. Len(ps) : ps'[i] = ps[i]
      /\ ps'[Len(ps) + 1] = p
  <2>1. /\ Len(Append(ps, p)) = Len(ps) + 1
        /\ \A i \in 1 .. Len(ps) : Append(ps, p)[i] = ps[i]
        /\ Append(ps, p)[Len(ps) + 1] = p
    BY <1>2, AppendProperties
  <2> QED
    BY <1>1, <2>1, Zenon
<1>5. ASSUME NEW i \in 1 .. Len(ps'), NEW j \in 1 .. Len(ps'),
             ps'[i].name = ps'[j].name, ps'[i].name # ""
      PROVE  i = j
  <2>1. CASE i \in 1 .. Len(ps) /\ j \in 1 .. Len(ps)
    BY <1>4, <1>5, <2>1 DEF IInv, ParametersInv
  <2>2. CASE i = Len(ps) + 1 /\ j \in 1 .. Len(ps)
    BY <1>1, <1>2, <1>4, <1>5, <2>2
  <2>3. CASE i \in 1 .. Len(ps) /\ j = Len(ps) + 1
    BY <1>1, <1>2, <1>4, <1>5, <2>3
  <2>4. CASE i = Len(ps) + 1 /\ j = Len(ps) + 1
    BY <2>4
  <2> QED
    BY <1>2, <1>4, <2>1, <2>2, <2>3, <2>4
<1>6. ParametersInv'
  BY <1>3, <1>5 DEF ParametersInv
<1>7. ParamsInv'
  BY DEF Declare, IInv, ParamsInv
<1> QED
  BY <1>6, <1>7 DEF IInv

LEMMA GivePositionalInv == IInv /\ GivePositional => IInv'
<1> SUFFICES ASSUME IInv, GivePositional
             PROVE  IInv'
  OBVIOUS
<1>1. PICK a \in Seq(Values) : params = ArrayParams(a)
  BY DEF GivePositional, IInv, ParamsInv, NullParams
<1>2. PICK v \in Values : params' = [params EXCEPT !.array = Append(@, v)]
  BY DEF GivePositional
<1>3. Append(a, v) \in Seq(Values)
  BY AppendProperties
<1>4. params' = ArrayParams(Append(a, v))
  BY <1>1, <1>2 DEF ArrayParams
<1>5. ParamsInv'
  BY <1>3, <1>4 DEF ParamsInv
<1> QED
  BY <1>5 DEF GivePositional, IInv, ParametersInv

LEMMA GiveNamedInv == IInv /\ GiveNamed => IInv'
<1> SUFFICES ASSUME IInv, GiveNamed
             PROVE  IInv'
  OBVIOUS
<1>1. PICK N \in SUBSET Names : \E f \in [N -> Values] :
         params = [shape |-> "object", object |-> f]
  BY DEF GiveNamed, IInv, ParamsInv, NullParams, ArrayParams
<1> PICK f \in [N -> Values] : params = [shape |-> "object", object |-> f]
  BY <1>1
<1>2. PICK n \in Names \ DOMAIN params.object, v \in Values :
         params' = [params EXCEPT !.object =
                       [m \in DOMAIN @ \cup {n} |-> IF m = n THEN v ELSE @[m]]]
  BY DEF GiveNamed
<1> DEFINE g == [m \in N \cup {n} |-> IF m = n THEN v ELSE f[m]]
<1>3. params' = [shape |-> "object", object |-> g]
  BY <1>2
<1>4. N \cup {n} \in SUBSET Names /\ g \in [N \cup {n} -> Values]
  BY <1>2
<1>5. ParamsInv'
  BY <1>3, <1>4 DEF ParamsInv
<1> QED
  BY <1>5 DEF GiveNamed, IInv, ParametersInv

LEMMA Inductive == Spec => []IInv
<1>1. IInv /\ [Next]_vars => IInv'
  <2>1. IInv /\ UNCHANGED vars => IInv'
    BY DEF vars, IInv, ParametersInv, ParamsInv
  <2> QED
    BY <2>1, DeclareInv, GivePositionalInv, GiveNamedInv DEF Next
<1> QED
  BY <1>1, InitInv, PTL DEF Spec

-----------------------------------------------------------------------------
(***************************************************************************)
(* The theorems.                                                           *)
(***************************************************************************)

(* Positional params mean what Exact says of them.                         *)
LEMMA MeaningIsExact ==
    ASSUME ParametersInv, NEW array \in Seq(Values)
    PROVE  MeansPositional(array) <=> Exact(ps, array)
<1>1. /\ Len(array) \in Nat /\ DOMAIN array = 1 .. Len(array)
      /\ Len(ps) \in Nat /\ DOMAIN ps = 1 .. Len(ps)
  BY LenProperties DEF ParametersInv
<1>2. ASSUME MeansPositional(array)
      PROVE  Exact(ps, array)
  <2>1. PICK source \in [DOMAIN ps -> {"value", "default"}] :
           /\ DOMAIN array = {i \in DOMAIN ps : source[i] = "value"}
           /\ \A i \in DOMAIN ps : IF source[i] = "value" THEN ps[i].type \in array[i].fits
                                                          ELSE ps[i].default
    BY <1>2 DEF MeansPositional
  <2>2. Len(array) <= Len(ps)
    <3>1. CASE Len(array) = 0
      BY <1>1, <3>1
    <3>2. CASE Len(array) # 0
      <4>1. Len(array) \in 1 .. Len(array)
        BY <1>1, <3>2
      <4>2. Len(array) \in 1 .. Len(ps)
        BY <1>1, <2>1, <4>1
      <4> QED
        BY <1>1, <4>2
    <3> QED
      BY <3>1, <3>2
  <2>3. ASSUME NEW i \in 1 .. Len(array)
        PROVE  ps[i].type \in array[i].fits
    BY <1>1, <2>1
  <2>4. ASSUME NEW i \in Len(array) + 1 .. Len(ps)
        PROVE  ps[i].default
    <3>1. i \in 1 .. Len(ps) /\ i \notin 1 .. Len(array)
      BY <1>1
    <3> QED
      BY <1>1, <2>1, <3>1
  <2> QED
    BY <2>2, <2>3, <2>4 DEF Exact
<1>3. ASSUME Exact(ps, array)
      PROVE  MeansPositional(array)
  <2> DEFINE source == [i \in DOMAIN ps |-> IF i <= Len(array) THEN "value" ELSE "default"]
  <2>1. source \in [DOMAIN ps -> {"value", "default"}]
    OBVIOUS
  <2>2. DOMAIN array = {i \in DOMAIN ps : source[i] = "value"}
    <3>1. Len(array) <= Len(ps)
      BY <1>3 DEF Exact
    <3> QED
      BY <1>1, <3>1
  <2>3. ASSUME NEW i \in DOMAIN ps
        PROVE  IF source[i] = "value" THEN ps[i].type \in array[i].fits ELSE ps[i].default
    <3>1. CASE i <= Len(array)
      <4>1. i \in 1 .. Len(array) /\ source[i] = "value"
        BY <1>1, <3>1
      <4> QED
        BY <1>3, <4>1 DEF Exact
    <3>2. CASE ~(i <= Len(array))
      <4>1. i \in Len(array) + 1 .. Len(ps) /\ source[i] # "value"
        BY <1>1, <3>2
      <4> QED
        BY <1>3, <4>1 DEF Exact
    <3> QED
      BY <3>1, <3>2
  <2> HIDE DEF source
  <2> QED
    BY <2>1, <2>2, <2>3 DEF MeansPositional
<1> QED
  BY <1>2, <1>3

(* A method is called for positional params exactly when they give its     *)
(* leading parameters values of their types and the others have defaults,  *)
(* although parse_array_arguments looks at the default of one parameter    *)
(* only and lets unconverted values through.                               *)
THEOREM PositionalExact == Spec => []PositionalIsExact
<1>1. IInv => PositionalIsExact
  <2> SUFFICES ASSUME IInv, params.shape = "array"
               PROVE  Accepts(ps, params) <=> MeansPositional(params.array)
    BY DEF PositionalIsExact
  <2>1. PICK a \in Seq(Values) : params = ArrayParams(a)
    BY DEF IInv, ParamsInv, NullParams
  <2>2. params.array = a
    BY <2>1 DEF ArrayParams
  <2>3. \A v \in Values : IsValue(v)
    BY ValuesAssumption DEF IsValue
  <2>4. ps \in Seq(Parameter(Names, Types)) /\ ParametersInv
    BY DEF IInv, ParametersInv
  <2>5. Accepts(ps, params) <=> Exact(ps, a)
    BY <2>1, <2>3, <2>4, PositionalBinding
  <2> QED
    BY <2>2, <2>4, <2>5, MeaningIsExact
<1> QED
  BY <1>1, Inductive, PTL

(* An object that names exactly the leading parameters binds as the array  *)
(* of the same values does: the two forms of the params of parse_arguments *)
(* are interchangeable.                                                    *)
THEOREM NamedIsPositional == Spec => []NamedLikePositional
<1>1. IInv => NamedLikePositional
  <2> SUFFICES ASSUME IInv, params.shape = "object", ValidNames(ps),
                      NEW n \in 0 .. Len(ps),
                      DOMAIN params.object = {ps[i].name : i \in 1 .. n}
               PROVE  BindArguments(ps, params) =
                      BindArguments(ps, ArrayParams([i \in 1 .. n |-> params.object[ps[i].name]]))
    BY DEF NamedLikePositional
  <2>1. PICK f : params = [shape |-> "object", object |-> f]
    BY DEF IInv, ParamsInv, NullParams, ArrayParams
  <2>2. params.object = f
    BY <2>1
  <2>3. ps \in Seq(Parameter(Names, Types)) /\ DOMAIN ps = 1 .. Len(ps)
    BY LenProperties DEF IInv, ParametersInv
  <2>4. Distinct(ps)
    BY <2>3 DEF IInv, ParametersInv, ValidNames, Distinct
  <2> QED
    BY <2>1, <2>2, <2>3, <2>4, NamedBinding
<1> QED
  BY <1>1, Inductive, PTL

(* A request without params calls a method exactly when one with an empty  *)
(* array does, although method::invoke skips the check of the first        *)
(* default for it.                                                         *)
THEOREM NullIsEmpty == Spec => []NullLikeEmpty
<1>1. IInv => NullLikeEmpty
  BY NullBinding DEF IInv, ParametersInv, NullLikeEmpty
<1> QED
  BY <1>1, Inductive, PTL
=============================================================================
