----------------------------- MODULE JsonProofs -----------------------------
(***************************************************************************)
(* Proofs about JSON: what the JSON of a basic value carries and what the  *)
(* schema of a basic parameter is worth, for integers of every width and   *)
(* every enumeration; then the same for containers and classes, nested to  *)
(* any depth.                                                              *)
(***************************************************************************)
EXTENDS JsonContainers, Schema, FiniteSetTheorems, TLAPS

(* The functions of JsonIo.  No theorem can be about a RECURSIVE operator: *)
(* those on containers and classes assume of these only that they answer   *)
(* the calls of JsonContainers for the values in question (Calls), as the  *)
(* operators of JsonIo do by definition.  (Conforms is in TypesCheck.)     *)
CONSTANTS Default(_), ToJson(_), WriteItem(_), ReadItem(_, _), ReadProperty(_, _), Conforms(_, _)

(* from_json into a basic value or argument.                               *)
FromBasic(j, t) == Convert(ExtractBasic(j), t)

InLimits(n, t) == n \in Int /\ n \in Lowest(t) .. Highest(t)

(* The integers that are converted to t, whatever they come from.          *)
Accepted(n, t) == InLimits(n, t) /\ Takes(t, n)

IsEnum(t) == Kind(t) = "enum" /\ \A i, j \in DOMAIN t[2] : t[2][i] = t[2][j] => i = j

(* The basic values of C++ but those of char and, unless LowestConverts,   *)
(* the lowest of the signed types.  The value of an enumeration is an      *)
(* enumerator, and no two have the same name.                              *)
BasicValue(v) ==
    \E t, x : /\ v = <<t, x>>
              /\ \/ t = <<"bool">> /\ x \in BOOLEAN
                 \/ IsInteger(t) /\ Accepted(x, t)
                 \/ t = <<"double">> /\ x \in Int
                 \/ t = <<"string">>
                 \/ IsEnum(t) /\ x \in DOMAIN t[2]

-----------------------------------------------------------------------------
(* Reading.                                                                *)

LEMMA IntegerConverts ==
    ASSUME NEW t, IsInteger(t), NEW n, Accepted(n, t),
           NEW s, s \in {Int64, UInt64}
    PROVE  Convert(<<s, n>>, t) = <<t, n>>
<1> DEFINE v == <<s, n>>
<1>1. TypeOf(v) = s /\ v[2] = n
  BY DEF TypeOf
<1>2. IsArithmetic(s) /\ Kind(s) \notin {"bool", "double", "char", "string"}
  BY DEF IsArithmetic, IsInteger, Kind, Int64, UInt64
<1>3. Whole(v) = n
  BY <1>1, <1>2 DEF Whole
<1>4. Kind(t) \in {"int", "uint"}
  BY DEF IsInteger
<1> HIDE DEF v
<1>5. CASE s = t
  BY <1>1, <1>5 DEF Convert, v
<1>6. CASE s # t
  <2>1. Whole(v) \in Lowest(t) .. Highest(t) /\ Takes(t, Whole(v))
    BY <1>3 DEF Accepted, InLimits
  <2>2. Convert(v, t) = <<t, Whole(v)>>
    BY <1>1, <1>2, <1>4, <1>6, <2>1 DEF Convert, IsInteger
  <2> QED
    BY <1>3, <2>2 DEF v
<1> QED
  BY <1>5, <1>6

LEMMA IntegerReads ==
    ASSUME NEW t, IsInteger(t), NEW n, Accepted(n, t)
    PROVE  FromBasic(<<"integer", n>>, t) = <<t, n>>
<1>1. \E s \in {Int64, UInt64} : ExtractBasic(<<"integer", n>>) = <<s, n>>
  BY DEF ExtractBasic
<1> QED
  BY <1>1, IntegerConverts DEF FromBasic

LEMMA NameReads ==
    ASSUME NEW t, IsEnum(t), NEW i \in DOMAIN t[2]
    PROVE  FromBasic(<<"string", t[2][i]>>, t) = <<t, i>>
<1> DEFINE v == <<<<"string">>, t[2][i]>>
<1>1. ExtractBasic(<<"string", t[2][i]>>) = v
  BY DEF ExtractBasic
<1>2. TypeOf(v) = <<"string">> /\ v[2] = t[2][i] /\ Kind(TypeOf(v)) = "string"
  BY DEF TypeOf, Kind
<1>3. ~IsArithmetic(TypeOf(v)) /\ TypeOf(v) # t /\ Kind(t) = "enum"
  BY <1>2 DEF IsArithmetic, IsInteger, IsEnum, Kind
<1>4. (CHOOSE k \in DOMAIN t[2] : t[2][k] = v[2]) = i
  BY <1>2 DEF IsEnum
<1> HIDE DEF v
<1>5. Convert(v, t) = <<t, CHOOSE k \in DOMAIN t[2] : t[2][k] = v[2]>>
  BY <1>2, <1>3 DEF Convert
<1> QED
  BY <1>1, <1>4, <1>5 DEF FromBasic

LEMMA SameReads ==
    ASSUME NEW x
    PROVE  /\ FromBasic(<<"bool", x>>, <<"bool">>) = <<<<"bool">>, x>>
           /\ FromBasic(<<"float", x>>, <<"double">>) = <<<<"double">>, x>>
           /\ FromBasic(<<"string", x>>, <<"string">>) = <<<<"string">>, x>>
  BY DEF FromBasic, ExtractBasic, Convert, TypeOf

(* A basic value that a program or a client has serialised is read as the  *)
(* value it was, whatever its type and width; a char is not, and of the    *)
(* lowest value of a signed type nothing is said unless LowestConverts.    *)
THEOREM BasicTransport ==
    \A v : BasicValue(v) => FromBasic(WriteAtomic(v), TypeOf(v)) = v
<1> SUFFICES ASSUME NEW t, NEW x,
                    \/ t = <<"bool">> /\ x \in BOOLEAN
                    \/ IsInteger(t) /\ Accepted(x, t)
                    \/ t = <<"double">> /\ x \in Int
                    \/ t = <<"string">>
                    \/ IsEnum(t) /\ x \in DOMAIN t[2]
             PROVE  FromBasic(WriteAtomic(<<t, x>>), t) = <<t, x>>
  BY DEF BasicValue, TypeOf
<1> DEFINE v == <<t, x>>
<1>1. TypeOf(v) = t /\ v[2] = x
  BY DEF TypeOf
<1>2. CASE t = <<"bool">> /\ x \in BOOLEAN
  <2>1. WriteAtomic(v) = <<"bool", x>>
    BY <1>2 DEF WriteAtomic, NotZero, TypeOf, Kind, IsInteger
  <2> QED
    BY <1>2, <2>1, SameReads
<1>3. CASE IsInteger(t) /\ Accepted(x, t)
  <2>1. WriteAtomic(v) = <<"integer", x>>
    BY <1>3 DEF WriteAtomic, TypeOf, IsInteger
  <2> QED
    BY <1>3, <2>1, IntegerReads
<1>4. CASE t = <<"double">>
  <2>1. WriteAtomic(v) = <<"float", x>>
    BY <1>4 DEF WriteAtomic, TypeOf, Kind, IsInteger
  <2> QED
    BY <1>4, <2>1, SameReads
<1>5. CASE t = <<"string">>
  <2>1. WriteAtomic(v) = <<"string", x>>
    BY <1>5 DEF WriteAtomic, TypeOf, Kind, IsInteger
  <2> QED
    BY <1>5, <2>1, SameReads
<1>6. CASE IsEnum(t) /\ x \in DOMAIN t[2]
  <2>1. WriteAtomic(v) = <<"string", t[2][x]>>
    BY <1>6 DEF WriteAtomic, TypeOf, Kind, IsInteger, IsEnum
  <2> QED
    BY <1>6, <2>1, NameReads
<1> QED
  BY <1>2, <1>3, <1>4, <1>5, <1>6

(* A char is written as a truth value, and only two survive.               *)
THEOREM CharTransport ==
    \A n \in Lowest(<<"char">>) .. Highest(<<"char">>) :
        LET v == <<<<"char">>, n>>
        IN  FromBasic(WriteAtomic(v), <<"char">>) = v <=> n \in {0, 1}
<1> SUFFICES ASSUME NEW n \in -2 .. 1
             PROVE  FromBasic(WriteAtomic(<<<<"char">>, n>>), <<"char">>) = <<<<"char">>, n>>
                    <=> n \in {0, 1}
  BY DEF Lowest, Highest, Kind
<1> DEFINE b == n # 0
           k == IF b THEN 1 ELSE 0
<1>1. WriteAtomic(<<<<"char">>, n>>) = <<"bool", b>>
  BY DEF WriteAtomic, NotZero, TypeOf, Kind, IsInteger
<1>2. ExtractBasic(<<"bool", b>>) = <<<<"bool">>, b>>
  BY DEF ExtractBasic
<1>3. Whole(<<<<"bool">>, b>>) = k
  BY DEF Whole, TypeOf, Kind
<1>4. Convert(<<<<"bool">>, b>>, <<"char">>) = <<<<"char">>, k>>
  <2>1. k \in Lowest(<<"char">>) .. Highest(<<"char">>) /\ Takes(<<"char">>, k)
    BY DEF Lowest, Highest, Kind, Takes
  <2>2. TypeOf(<<<<"bool">>, b>>) = <<"bool">>
    BY DEF TypeOf
  <2> HIDE DEF b, k
  <2> QED
    BY <1>3, <2>1, <2>2 DEF Convert, Kind, IsArithmetic, IsInteger
<1>5. FromBasic(WriteAtomic(<<<<"char">>, n>>), <<"char">>) = <<<<"char">>, k>>
  BY <1>1, <1>2, <1>4 DEF FromBasic
<1>6. <<<<"char">>, k>> = <<<<"char">>, n>> <=> k = n
  OBVIOUS
<1> QED
  BY <1>5, <1>6

-----------------------------------------------------------------------------
(* The schema.                                                             *)

(* The JSON values that are neither array nor object nor null, an integer  *)
(* being one of the 64-bit integers that the JSON library holds.           *)
JsonInteger(n) == InLimits(n, IF n < 0 THEN Int64 ELSE UInt64)

BasicJson(j) ==
    \E x : \/ j = <<"bool", x>> /\ x \in BOOLEAN
           \/ j = <<"integer", x>> /\ JsonInteger(x)
           \/ j = <<"float", x>> /\ x \in Int
           \/ j = <<"string", x>>

(* j is no number that t might not take although it is within its limits:  *)
(* the lowest value of a signed type.                                      *)
Taken(j, t) == IsInteger(t) => /\ j[1] = "integer" => Takes(t, j[2])
                               /\ j[1] = "float"   => Takes(t, j[2] \div 2)

(* The basic types but char.                                               *)
BasicType(t) == t \in {<<"bool">>, <<"double">>, <<"string">>} \/ IsInteger(t) \/ IsEnum(t)

(* A float without a fraction becomes the integer that it is.              *)
LEMMA HalvesWhole ==
    ASSUME NEW h \in Int, h % 2 = 0
    PROVE  Whole(<<<<"double">>, h>>) = h \div 2
<1>1. Whole(<<<<"double">>, h>>) = IF h < 0 THEN -((-h) \div 2) ELSE h \div 2
  BY DEF Whole, TypeOf, Kind
<1>2. h < 0 => -((-h) \div 2) = h \div 2
  OBVIOUS
<1> QED
  BY <1>1, <1>2

LEMMA FloatReads ==
    ASSUME NEW t, IsInteger(t), NEW h \in Int, h % 2 = 0, Accepted(h \div 2, t)
    PROVE  FromBasic(<<"float", h>>, t) = <<t, h \div 2>>
<1> DEFINE v == <<<<"double">>, h>>
<1>1. ExtractBasic(<<"float", h>>) = v
  BY DEF ExtractBasic
<1>2. /\ TypeOf(v) = <<"double">> /\ Kind(TypeOf(v)) = "double" /\ IsArithmetic(TypeOf(v))
      /\ Kind(t) \in {"int", "uint"} /\ TypeOf(v) # t
  BY DEF TypeOf, Kind, IsArithmetic, IsInteger
<1>3. Whole(v) = h \div 2
  BY HalvesWhole
<1> HIDE DEF v
<1>4. Convert(v, t) = <<t, Whole(v)>>
  BY <1>2, <1>3 DEF Convert, Accepted, InLimits, IsInteger
<1> QED
  BY <1>1, <1>3, <1>4 DEF FromBasic

(* What a number becomes as a double.                                      *)
LEMMA DoubleReads ==
    ASSUME NEW n
    PROVE  TypeOf(FromBasic(<<"integer", n>>, <<"double">>)) = <<"double">>
<1>1. \E s \in {Int64, UInt64} : ExtractBasic(<<"integer", n>>) = <<s, n>>
  BY DEF ExtractBasic
<1>2. ASSUME NEW s \in {Int64, UInt64}
      PROVE  Convert(<<s, n>>, <<"double">>) = <<<<"double">>, 2 * Whole(<<s, n>>)>>
  <2>1. IsArithmetic(s) /\ s # <<"double">> /\ TypeOf(<<s, n>>) = s
    BY DEF IsArithmetic, IsInteger, Kind, Int64, UInt64, TypeOf
  <2>2. Kind(<<"double">>) = "double"
    BY DEF Kind
  <2> HIDE DEF Convert
  <2> QED
    BY <2>1, <2>2 DEF Convert, IsInteger
<1> QED
  BY <1>1, <1>2 DEF FromBasic, TypeOf

(* The schema of a basic parameter admits no value that from_json does not *)
(* make a value of the parameter's type, at the limits of every width;     *)
(* the limits are those that set_arithmetic_type_limits writes, and their  *)
(* lowest value is left out for signed types unless LowestConverts.        *)
THEOREM BasicSchemaAdmits ==
    \A t, j : BasicType(t) /\ BasicJson(j) /\ Taken(j, t) /\ BasicConforms(j, t)
                  => TypeOf(FromBasic(j, t)) = t
<1> SUFFICES ASSUME NEW t, NEW j, BasicType(t), BasicJson(j), Taken(j, t), BasicConforms(j, t)
             PROVE  TypeOf(FromBasic(j, t)) = t
  OBVIOUS
<1>1. PICK x : \/ j = <<"bool", x>> /\ x \in BOOLEAN
               \/ j = <<"integer", x>> /\ JsonInteger(x)
               \/ j = <<"float", x>> /\ x \in Int
               \/ j = <<"string", x>>
  BY DEF BasicJson
<1>2. j[2] = x
  BY <1>1
<1>3. CASE IsInteger(t)
  <2>1. Keyword(t) = "integer" /\ Kind(t) \in {"int", "uint"}
    BY <1>3 DEF Keyword, IsInteger
  <2>2. Limits(t) = Lowest(t) .. Highest(t)
    BY <1>3 DEF Limits
  <2>3. \/ j = <<"integer", x>> /\ Accepted(x, t)
        \/ j = <<"float", x>> /\ x \in Int /\ x % 2 = 0 /\ Accepted(x \div 2, t)
    BY <1>1, <1>2, <1>3, <2>1, <2>2 DEF BasicConforms, Taken, Accepted, InLimits, JsonInteger
  <2> QED
    BY <1>3, <2>3, IntegerReads, FloatReads DEF TypeOf
<1>4. CASE IsEnum(t)
  <2>1. Keyword(t) = "string" /\ Kind(t) = "enum"
    BY <1>4 DEF Keyword, IsInteger, IsEnum
  <2>2. j = <<"string", x>> /\ \E i \in DOMAIN t[2] : x = t[2][i]
    BY <1>1, <1>2, <2>1 DEF BasicConforms
  <2> QED
    BY <1>4, <2>2, NameReads DEF TypeOf
<1>5. CASE t = <<"bool">>
  <2>1. Keyword(t) = "boolean"
    BY <1>5 DEF Keyword, Kind, IsInteger
  <2>2. j = <<"bool", x>>
    BY <1>1, <2>1 DEF BasicConforms
  <2>3. FromBasic(j, t) = <<t, x>>
    BY <1>5, <2>2, SameReads
  <2> QED
    BY <2>3 DEF TypeOf
<1>6. CASE t = <<"string">>
  <2>1. Keyword(t) = "string"
    BY <1>6 DEF Keyword, Kind, IsInteger
  <2>2. j = <<"string", x>>
    BY <1>1, <2>1 DEF BasicConforms
  <2>3. FromBasic(j, t) = <<t, x>>
    BY <1>6, <2>2, SameReads
  <2> QED
    BY <2>3 DEF TypeOf
<1>7. CASE t = <<"double">>
  <2>1. Keyword(t) = "number"
    BY <1>7 DEF Keyword, Kind, IsInteger
  <2>2. j = <<"integer", x>> \/ j = <<"float", x>>
    BY <1>1, <2>1 DEF BasicConforms
  <2>3. FromBasic(<<"float", x>>, t) = <<t, x>>
    BY <1>7, SameReads
  <2>4. TypeOf(FromBasic(<<"float", x>>, t)) = t
    BY <2>3 DEF TypeOf
  <2> QED
    BY <1>7, <2>2, <2>4, DoubleReads
<1> QED
  BY <1>3, <1>4, <1>5, <1>6, <1>7 DEF BasicType

(* Of the integers, the schema of an integer parameter refuses none that   *)
(* from_json would convert: its limits are those of the conversion, but    *)
(* for the lowest value of a signed type, which the schema admits in any   *)
(* case.                                                                   *)
THEOREM LimitsExact ==
    \A t, n : IsInteger(t) /\ JsonInteger(n) /\ Takes(t, n) =>
        (BasicConforms(<<"integer", n>>, t) <=> FromBasic(<<"integer", n>>, t) # Invalid)
<1> SUFFICES ASSUME NEW t, IsInteger(t), NEW n, JsonInteger(n), Takes(t, n)
             PROVE  BasicConforms(<<"integer", n>>, t)
                    <=> FromBasic(<<"integer", n>>, t) # Invalid
  OBVIOUS
<1> DEFINE s == IF n < 0 THEN Int64 ELSE UInt64
           v == <<s, n>>
<1>1. n \in Int /\ InLimits(n, s)
  BY DEF JsonInteger, InLimits
<1>2. FromBasic(<<"integer", n>>, t) = Convert(v, t)
  BY DEF FromBasic, ExtractBasic
<1>3. BasicConforms(<<"integer", n>>, t) <=> InLimits(n, t)
  <2>1. Keyword(t) = "integer"
    BY DEF Keyword, IsInteger
  <2>2. Limits(t) = Lowest(t) .. Highest(t)
    BY DEF Limits
  <2> QED
    BY <1>1, <2>1, <2>2 DEF BasicConforms, InLimits
<1>4. s \in {Int64, UInt64}
  OBVIOUS
<1> HIDE DEF s
<1>5. ASSUME InLimits(n, t)
      PROVE  Convert(v, t) # Invalid
  <2>1. Convert(v, t) = <<t, n>>
    BY <1>4, <1>5, IntegerConverts DEF Accepted
  <2>2. t # <<"invalid">>
    BY DEF IsInteger, Kind
  <2> QED
    BY <2>1, <2>2 DEF Invalid
<1>6. ASSUME ~InLimits(n, t)
      PROVE  Convert(v, t) = Invalid
  <2>1. TypeOf(v) = s /\ s # t
    BY <1>1, <1>6 DEF TypeOf
  <2>2. IsArithmetic(s) /\ Kind(s) \notin {"bool", "double", "char", "string"}
    BY <1>4 DEF IsArithmetic, IsInteger, Kind, Int64, UInt64
  <2>3. Whole(v) = n
    BY <2>1, <2>2 DEF Whole
  <2>4. Kind(t) \in {"int", "uint"}
    BY DEF IsInteger
  <2> HIDE DEF v
  <2> QED
    BY <1>1, <1>6, <2>1, <2>2, <2>3, <2>4 DEF Convert, InLimits
<1> QED
  BY <1>2, <1>3, <1>5, <1>6

-----------------------------------------------------------------------------
(* What the proofs about containers need of numbers, sets and sequences.   *)

(* A set of natural numbers has a least element: induction over the depth  *)
(* of values and types rests on it.                                        *)
LEMMA Least ==
    ASSUME NEW T, T \subseteq Nat, NEW n \in T
    PROVE  \E m \in T : \A k \in T : m <= k
<1> DEFINE Below(k) == 0 .. k - 1
           U == {Below(k) : k \in {j \in T : j <= n}}
           W == 0 .. n
<1>1. IsFiniteSet(W)
  BY FS_Interval
<1>2. IsWellFoundedOn(StrictSubsetOrdering(W), SUBSET W)
  <2>1. FiniteSubsetsOf(W) = SUBSET W
    BY <1>1, FS_FiniteSubsetsOfFinite
  <2> QED
    BY <2>1, FS_StrictSubsetOrderingWellFounded
<1>3. U \subseteq SUBSET W /\ U # {}
  OBVIOUS
<1> HIDE DEF W
<1>4. PICK u \in U : \A y \in U : ~ (<<y, u>> \in StrictSubsetOrdering(W))
  <2> HIDE DEF U
  <2> QED
    BY <1>2, <1>3, WFMin
<1>5. PICK m \in T : m <= n /\ u = Below(m)
  OBVIOUS
<1>6. ASSUME NEW k \in T, k < m
      PROVE  FALSE
  <2>1. Below(k) \in U
    BY <1>5, <1>6
  <2>2. Below(k) \subseteq Below(m) /\ Below(k) # Below(m)
    <3>1. k \in Below(m) /\ k \notin Below(k)
      BY <1>6
    <3> QED
      BY <1>6, <3>1
  <2>3. <<Below(k), Below(m)>> \in StrictSubsetOrdering(W)
    BY <1>3, <1>5, <2>1, <2>2 DEF StrictSubsetOrdering
  <2> QED
    BY <1>4, <1>5, <2>1, <2>3
<1> QED
  BY <1>6

LEMMA ImageFinite ==
    ASSUME NEW S, IsFiniteSet(S), NEW f, DOMAIN f = S
    PROVE  IsFiniteSet({f[x] : x \in S})
<1> DEFINE T == {f[x] : x \in S}
           g == [x \in S |-> f[x]]
<1>1. g \in Surjection(S, T)
  BY DEF Surjection
<1> QED
  BY <1>1, FS_Surjection

(* SetToSeq lists every element of a finite set, once.                     *)
LEMMA Listed ==
    ASSUME NEW S, IsFiniteSet(S)
    PROVE  /\ DOMAIN SetToSeq(S) = 1 .. Cardinality(S) /\ Cardinality(S) \in Nat
           /\ \A i \in DOMAIN SetToSeq(S) : SetToSeq(S)[i] \in S
           /\ \A i, j \in DOMAIN SetToSeq(S) : SetToSeq(S)[i] = SetToSeq(S)[j] => i = j
           /\ \A x \in S : \E i \in DOMAIN SetToSeq(S) : SetToSeq(S)[i] = x
<1> DEFINE n == Cardinality(S)
           s == SetToSeq(S)
<1>1. n \in Nat /\ ExistsBijection(1 .. n, S)
  BY FS_CardinalityType
<1>2. \E f \in [1 .. n -> S] : IsInjective(f)
  BY <1>1 DEF ExistsBijection, Bijection, Injection
<1>3. s \in [1 .. n -> S] /\ IsInjective(s)
  BY <1>2 DEF SetToSeq
<1>4. s \in Surjection(1 .. n, S)
  <2>1. s \in Injection(1 .. n, S)
    BY <1>3 DEF Injection
  <2>2. Cardinality(1 .. n) = n
    BY <1>1, FS_Interval
  <2> QED
    BY <2>1, <2>2, FS_Injection
<1> HIDE DEF s
<1>5. DOMAIN s = 1 .. n
  BY <1>3
<1>6. \A i \in DOMAIN s : s[i] \in S
  BY <1>3
<1>7. \A i, j \in DOMAIN s : s[i] = s[j] => i = j
  BY <1>3 DEF IsInjective
<1>8. \A x \in S : \E i \in DOMAIN s : s[i] = x
  BY <1>4, <1>5 DEF Surjection
<1> QED
  BY <1>1, <1>5, <1>6, <1>7, <1>8 DEF s

-----------------------------------------------------------------------------
(* The values that JSON carries.                                           *)

Names(t) == {p.name : p \in ToSet(Properties(t))}

(* Every property of the class is written and read, and no two have the    *)
(* same name.                                                              *)
Open(t) ==
    /\ Kind(t) = "class"
    /\ \A p \in ToSet(Properties(t)) : ~p.hidden /\ ~p.readonly
    /\ \A p, q \in ToSet(Properties(t)) : p.name = q.name => p = q

IsMapped(t) == Kind(t) \in {"set", "map"}

(* What extract_value reads: a basic value, or an object that it can make  *)
(* and whose JSON is an object.                                            *)
Extracted(t) == \/ IsBasic(t)
                \/ Kind(t) = "class" /\ Constructor(t) = "object" /\ Properties(t) # <<>>

(* The values in the value of a vector, a set, a map or a class.           *)
Parts(v) ==
    CASE Kind(TypeOf(v)) \in {"vector", "class"} -> {v[2][i] : i \in DOMAIN v[2]}
      [] Kind(TypeOf(v)) = "set"                 -> v[2]
      [] Kind(TypeOf(v)) = "map"                 -> {e[1] : e \in v[2]} \cup {e[2] : e \in v[2]}
      [] OTHER                                   -> {}

VectorValue(v) ==
    /\ Kind(TypeOf(v)) = "vector" /\ ~IsMapped(TypeOf(v)[2])
    /\ IsList(v[2]) /\ v[2] = [i \in DOMAIN v[2] |-> v[2][i]]
    /\ \A i \in DOMAIN v[2] : TypeOf(v[2][i]) = TypeOf(v)[2]

SetValue(v) ==
    /\ Kind(TypeOf(v)) = "set" /\ IsFiniteSet(v[2])
    /\ \A k \in v[2] : BasicValue(k) /\ TypeOf(k) = TypeOf(v)[2]

MapValue(v) ==
    /\ Kind(TypeOf(v)) = "map" /\ IsFiniteSet(v[2])
    /\ Extracted(TypeOf(v)[2]) /\ Extracted(TypeOf(v)[3])
    /\ \A e \in v[2] : e = <<e[1], e[2]>> /\ TypeOf(e[1]) = TypeOf(v)[2] /\ TypeOf(e[2]) = TypeOf(v)[3]
    /\ \A e, f \in v[2] : e[1] = f[1] => e = f

(* The value of an object has all properties of its class.                 *)
Fields(v) ==
    /\ v[2] = [n \in Names(TypeOf(v)) |-> v[2][n]]
    /\ \A p \in ToSet(Properties(TypeOf(v))) : TypeOf(v[2][p.name]) = p.type

ObjectValue(v) == Open(TypeOf(v)) /\ Fields(v)

(* V is a set of values with all the values in them, and depth says how    *)
(* deep they are nested.                                                   *)
Carried(V, depth) ==
    /\ depth \in [V -> Nat]
    /\ \A v \in V :
          /\ v = <<TypeOf(v), v[2]>>
          /\ BasicValue(v) \/ VectorValue(v) \/ SetValue(v) \/ MapValue(v) \/ ObjectValue(v)
          /\ \A c \in Parts(v) : c \in V /\ depth[c] < depth[v]

Makes(O, t) == Default(t) \in O /\ TypeOf(Default(t)) = t

(* o can be read into: what is in it, and what from_json puts into it      *)
(* first, is in O, and a set or a map has no entry.                        *)
Fits(o, O) ==
    /\ o = <<TypeOf(o), o[2]>>
    /\ Kind(TypeOf(o)) = "vector" =>
          /\ Makes(O, TypeOf(o)[2])
          /\ \A i \in DOMAIN o[2] : o[2][i] \in O /\ TypeOf(o[2][i]) = TypeOf(o)[2]
    /\ Kind(TypeOf(o)) = "set" => o[2] = {}
    /\ Kind(TypeOf(o)) = "map" =>
          /\ o[2] = {}
          /\ \A t \in {TypeOf(o)[2], TypeOf(o)[3]} : ~IsBasic(t) => Makes(O, t)
    /\ Kind(TypeOf(o)) = "class" => Fields(o) /\ \A n \in DOMAIN o[2] : o[2][n] \in O

Receives(O) == \A o \in O : Fits(o, O)

(* The functions do for V and O what JsonContainers says.                  *)
Calls(V, O) ==
    /\ \A v \in V : /\ ToJson(v) = ToJsonWith(ToJson, WriteItem, v)
                    /\ WriteItem(v) = WriteItemWith(ToJson, WriteItem, v)
    /\ \A o \in O, j \in {ToJson(v) : v \in V} \cup {WriteItem(v) : v \in V} :
          /\ ReadItem(o, j) = ReadItemWith(Default, ReadItem, ReadProperty, o, j)
          /\ ReadProperty(o, j) = ReadPropertyWith(Default, ReadItem, ReadProperty, o, j)

ReadsProperty(o, v) == ReadProperty(o, ToJson(v)) = v
ReadsItem(o, v)     == ReadItem(o, WriteItem(v)) = v
Extracts(v)         == Extract(Default, ReadProperty, ToJson(v), TypeOf(v)) = v

(* v is read into every value of its type, as a property and as an element *)
(* of a vector, and as an argument if extract_value reads its type.        *)
Survives(v, O) ==
    /\ \A o \in O : TypeOf(o) = TypeOf(v) => ReadsProperty(o, v)
    /\ \A o \in O : TypeOf(o) = TypeOf(v) /\ ~IsMapped(TypeOf(v)) => ReadsItem(o, v)
    /\ Extracted(TypeOf(v)) /\ (IsBasic(TypeOf(v)) \/ Makes(O, TypeOf(v))) => Extracts(v)

LEMMA BasicKinds ==
    ASSUME NEW v, BasicValue(v)
    PROVE  /\ IsBasic(TypeOf(v))
           /\ Kind(TypeOf(v)) \notin {"vector", "set", "map", "class", "char", "invalid"}
           /\ WriteAtomic(v)[1] \in {"bool", "integer", "float", "string"}
<1> PICK t, x : /\ v = <<t, x>>
                /\ \/ t = <<"bool">> /\ x \in BOOLEAN
                   \/ IsInteger(t) /\ Accepted(x, t)
                   \/ t = <<"double">> /\ x \in Int
                   \/ t = <<"string">>
                   \/ IsEnum(t) /\ x \in DOMAIN t[2]
  BY DEF BasicValue
<1>1. TypeOf(v) = t /\ Kind(t) \in {"bool", "int", "uint", "double", "string", "enum"}
  BY DEF TypeOf, Kind, IsInteger, IsEnum
<1>2. IsBasic(t)
  BY <1>1 DEF IsBasic, IsArithmetic, IsInteger
<1> QED
  BY <1>1, <1>2 DEF WriteAtomic, IsInteger

LEMMA OtherKinds ==
    ASSUME NEW t, Kind(t) \in {"vector", "set", "map", "class"}
    PROVE  ~IsBasic(t)
  BY DEF IsBasic, IsArithmetic, IsInteger

(* What is no basic JSON value converts to nothing.                        *)
LEMMA NothingConverts ==
    ASSUME NEW t, Kind(t) # "invalid"
    PROVE  Convert(Invalid, t) = Invalid
<1>1. TypeOf(Invalid) = <<"invalid">> /\ TypeOf(Invalid) # t
  BY DEF Invalid, TypeOf, Kind
<1>2. ~IsArithmetic(TypeOf(Invalid)) /\ Kind(TypeOf(Invalid)) # "string"
  BY <1>1 DEF IsArithmetic, IsInteger, Kind
<1> QED
  BY <1>1, <1>2 DEF Convert

LEMMA ReadStructure ==
    ASSUME NEW j, j[1] \in {"null", "array", "object"}
    PROVE  ExtractBasic(j) = Invalid
  BY DEF ExtractBasic

LEMMA NoProperties ==
    ASSUME NEW t, Kind(t) # "class"
    PROVE  Properties(t) = <<>>
  BY DEF Properties, IsRegistered

LEMMA Called ==
    ASSUME NEW V, NEW O, Calls(V, O), NEW v \in V
    PROVE  /\ ToJson(v) = ToJsonWith(ToJson, WriteItem, v)
           /\ WriteItem(v) = WriteItemWith(ToJson, WriteItem, v)
  BY DEF Calls

(* Each kind of value survives when what is in it does.                    *)
LEMMA BasicSurvives ==
    ASSUME NEW V, NEW O, Calls(V, O), NEW v \in V, BasicValue(v)
    PROVE  Survives(v, O)
<1> DEFINE t == TypeOf(v)
           j == WriteAtomic(v)
<1>1. IsBasic(t) /\ Kind(t) \notin {"vector", "set", "map", "class", "invalid"}
  BY BasicKinds
<1>2. j[1] \notin {"null", "array", "object"}
  BY BasicKinds
<1>3. Convert(ExtractBasic(j), t) = v
  BY BasicTransport DEF FromBasic
<1>4. ToJson(v) = j /\ WriteItem(v) = j
  BY <1>1, Called, NoProperties DEF ToJsonWith, WriteItemWith
<1>5. v # Invalid
  BY <1>1 DEF Invalid, TypeOf, Kind
<1> HIDE DEF j
<1>6. ASSUME NEW o \in O, TypeOf(o) = t
      PROVE  ReadItem(o, j) = v /\ ReadProperty(o, j) = v
  <2>1. ReadItemWith(Default, ReadItem, ReadProperty, o, j) = v
    BY <1>2, <1>3, <1>6 DEF ReadItemWith, Assign
  <2>2. ReadPropertyWith(Default, ReadItem, ReadProperty, o, j) = v
    BY <1>2, <2>1 DEF ReadPropertyWith
  <2> QED
    BY <1>4, <2>1, <2>2 DEF Calls
<1>7. Extract(Default, ReadProperty, j, t) = v
  BY <1>3, <1>5 DEF Extract
<1> QED
  BY <1>4, <1>6, <1>7 DEF Survives, ReadsProperty, ReadsItem, Extracts

LEMMA VectorSurvives ==
    ASSUME NEW V, NEW O, Calls(V, O), Receives(O),
           NEW v \in V, v = <<TypeOf(v), v[2]>>, VectorValue(v),
           \A c \in Parts(v) : c \in V /\ Survives(c, O)
    PROVE  Survives(v, O)
<1> DEFINE t == TypeOf(v)
           w == [i \in DOMAIN v[2] |-> WriteItem(v[2][i])]
           j == <<"array", w>>
<1>1. Kind(t) = "vector" /\ ~IsBasic(t)
  BY OtherKinds DEF VectorValue
<1>2. ToJson(v) = j /\ WriteItem(v) = j
  <2>1. WriteItemWith(ToJson, WriteItem, v) = j
    BY <1>1 DEF WriteItemWith
  <2>2. ToJsonWith(ToJson, WriteItem, v) = WriteItemWith(ToJson, WriteItem, v)
    BY <1>1, NoProperties DEF ToJsonWith
  <2> QED
    BY <2>1, <2>2, Called
<1>3. ASSUME NEW o \in O, TypeOf(o) = t
      PROVE  ReadItem(o, j) = v /\ ReadProperty(o, j) = v
  <2> DEFINE old(i) == IF i \in DOMAIN o[2] THEN o[2][i] ELSE Default(t[2])
  <2>1. ASSUME NEW i \in DOMAIN v[2]
        PROVE  ReadItem(old(i), w[i]) = v[2][i]
    <3>1. old(i) \in O /\ TypeOf(old(i)) = t[2]
      BY <1>1, <1>3 DEF Receives, Fits, Makes
    <3>2. TypeOf(v[2][i]) = t[2] /\ ~IsMapped(t[2])
      BY DEF VectorValue
    <3>3. v[2][i] \in Parts(v)
      BY <1>1 DEF Parts
    <3> HIDE DEF old
    <3>4. ReadsItem(old(i), v[2][i])
      BY <3>1, <3>2, <3>3 DEF Survives
    <3> QED
      BY <3>4 DEF ReadsItem
  <2>2. ReadArray(Default, ReadItem, o, w) = <<t, [i \in DOMAIN v[2] |-> ReadItem(old(i), w[i])]>>
    BY <1>1, <1>3 DEF ReadArray, Resized
  <2>3. [i \in DOMAIN v[2] |-> ReadItem(old(i), w[i])] = v[2]
    <3> HIDE DEF old, w
    <3>1. [i \in DOMAIN v[2] |-> ReadItem(old(i), w[i])] = [i \in DOMAIN v[2] |-> v[2][i]]
      BY <2>1
    <3> QED
      BY <3>1 DEF VectorValue
  <2>4. ReadArray(Default, ReadItem, o, w) = v
    BY <2>2, <2>3
  <2> HIDE DEF w
  <2>5. ReadItemWith(Default, ReadItem, ReadProperty, o, j) = v
    BY <2>4 DEF ReadItemWith
  <2>6. ReadPropertyWith(Default, ReadItem, ReadProperty, o, j) = v
    BY <1>1, <1>3, <2>5 DEF ReadPropertyWith
  <2> QED
    BY <1>2, <2>5, <2>6 DEF Calls
<1>4. ~Extracted(t)
  BY <1>1 DEF Extracted
<1> QED
  BY <1>2, <1>3, <1>4 DEF Survives, ReadsProperty, ReadsItem

LEMMA SetSurvives ==
    ASSUME NEW V, NEW O, Calls(V, O), Receives(O),
           NEW v \in V, v = <<TypeOf(v), v[2]>>, SetValue(v), Parts(v) \subseteq V
    PROVE  Survives(v, O)
<1> DEFINE t == TypeOf(v)
           S == {ToJson(k) : k \in v[2]}
           s == SetToSeq(S)
           j == <<"array", s>>
           read(x) == Convert(ExtractBasic(x), t[2])
<1>1. Kind(t) = "set" /\ ~IsBasic(t)
  BY OtherKinds DEF SetValue
<1>2. ToJson(v) = j
  BY <1>1, Called, NoProperties DEF ToJsonWith
<1>3. IsFiniteSet(S)
  <2> DEFINE f == [k \in v[2] |-> ToJson(k)]
  <2>1. IsFiniteSet({f[k] : k \in v[2]})
    BY ImageFinite DEF SetValue
  <2>2. S = {f[k] : k \in v[2]}
    OBVIOUS
  <2> QED
    BY <2>1, <2>2
<1>4. ToSet(s) = S
  <2>1. (\A i \in DOMAIN s : s[i] \in S) /\ (\A x \in S : \E i \in DOMAIN s : s[i] = x)
    BY <1>3, Listed
  <2> HIDE DEF s, S
  <2> QED
    BY <2>1 DEF ToSet
<1>5. ASSUME NEW k \in v[2]
      PROVE  read(ToJson(k)) = k /\ k # Invalid
  <2>1. BasicValue(k) /\ TypeOf(k) = t[2] /\ k \in V
    BY <1>1 DEF SetValue, Parts
  <2>2. IsBasic(TypeOf(k)) /\ Kind(TypeOf(k)) \notin {"vector", "set", "map", "class", "invalid"}
    BY <2>1, BasicKinds
  <2>3. ToJson(k) = WriteAtomic(k)
    BY <2>1, <2>2, Called, NoProperties DEF ToJsonWith
  <2>4. k # Invalid
    BY <2>2 DEF Invalid, TypeOf, Kind
  <2> QED
    BY <2>1, <2>3, <2>4, BasicTransport DEF FromBasic
<1>6. {read(x) : x \in S} \ {Invalid} = v[2]
  <2> HIDE DEF read
  <2> QED
    BY <1>5
<1> HIDE DEF s, S
<1>7. ASSUME NEW o \in O, TypeOf(o) = t
      PROVE  ReadProperty(o, j) = v
  <2>1. o[2] = {}
    BY <1>1, <1>7 DEF Receives, Fits
  <2>2. ReadAssociative(Default, ReadProperty, o, s) = v
    BY <1>1, <1>4, <1>6, <1>7, <2>1 DEF ReadAssociative
  <2>3. ReadPropertyWith(Default, ReadItem, ReadProperty, o, j) = v
    BY <1>1, <1>7, <2>2 DEF ReadPropertyWith
  <2> QED
    BY <1>2, <2>3 DEF Calls
<1>8. ~Extracted(t) /\ IsMapped(t)
  BY <1>1 DEF Extracted, IsMapped
<1> QED
  BY <1>2, <1>7, <1>8 DEF Survives, ReadsProperty

LEMMA MapSurvives ==
    ASSUME NEW V, NEW O, Calls(V, O), Receives(O),
           NEW v \in V, v = <<TypeOf(v), v[2]>>, MapValue(v),
           \A c \in Parts(v) : c \in V /\ Survives(c, O)
    PROVE  Survives(v, O)
<1> DEFINE t == TypeOf(v)
           json(e) == <<"object", [key |-> ToJson(e[1]), value |-> ToJson(e[2])]>>
           S == {json(e) : e \in v[2]}
           s == SetToSeq(S)
           j == <<"array", s>>
           entry(x) == <<Extract(Default, ReadProperty, x[2]["key"], t[2]),
                         Extract(Default, ReadProperty, x[2]["value"], t[3])>>
           fits(x) == IsEntry(x) /\ TypeOf(entry(x)[1]) = t[2] /\ TypeOf(entry(x)[2]) = t[3]
           first(i) == /\ fits(s[i])
                       /\ \A k \in 1 .. i - 1 : fits(s[k]) => entry(s[k])[1] # entry(s[i])[1]
<1>1. Kind(t) = "map" /\ ~IsBasic(t)
  BY OtherKinds DEF MapValue
<1>2. ToJson(v) = j
  <2>1. ToJsonWith(ToJson, WriteItem, v) = j
    BY <1>1, NoProperties DEF ToJsonWith
  <2> QED
    BY <2>1, Called
<1>3. IsFiniteSet(S)
  <2> DEFINE f == [e \in v[2] |-> json(e)]
  <2>1. S = {f[e] : e \in v[2]}
    OBVIOUS
  <2>2. DOMAIN f = v[2] /\ IsFiniteSet(v[2])
    BY DEF MapValue
  <2> HIDE DEF f
  <2> QED
    BY <2>1, <2>2, ImageFinite
<1>4. ASSUME NEW o \in O, TypeOf(o) = t
      PROVE  ReadProperty(o, j) = v
  <2>1. ASSUME NEW e \in v[2]
        PROVE  IsEntry(json(e)) /\ entry(json(e)) = e /\ fits(json(e))
    <3>1. e[1] \in Parts(v) /\ e[2] \in Parts(v)
      BY <1>1 DEF Parts
    <3>2. /\ e = <<e[1], e[2]>> /\ TypeOf(e[1]) = t[2] /\ TypeOf(e[2]) = t[3]
          /\ Extracted(t[2]) /\ Extracted(t[3])
      BY DEF MapValue
    <3>3. (~IsBasic(t[2]) => Makes(O, t[2])) /\ (~IsBasic(t[3]) => Makes(O, t[3]))
      BY <1>1, <1>4 DEF Receives, Fits
    <3>4. Extracts(e[1]) /\ Extracts(e[2])
      BY <3>1, <3>2, <3>3 DEF Survives
    <3>5. Extract(Default, ReadProperty, ToJson(e[1]), t[2]) = e[1]
      BY <3>2, <3>4 DEF Extracts
    <3>6. Extract(Default, ReadProperty, ToJson(e[2]), t[3]) = e[2]
      BY <3>2, <3>4 DEF Extracts
    <3>7. json(e)[2]["key"] = ToJson(e[1]) /\ json(e)[2]["value"] = ToJson(e[2])
      OBVIOUS
    <3>8. entry(json(e)) = e
      BY <3>2, <3>5, <3>6, <3>7
    <3>9. IsEntry(json(e))
      BY DEF IsEntry
    <3> QED
      BY <3>2, <3>8, <3>9
  <2>2. ASSUME NEW i \in DOMAIN s
        PROVE  first(i) /\ entry(s[i]) \in v[2]
    <3>1. DOMAIN s = 1 .. Cardinality(S) /\ Cardinality(S) \in Nat
      BY <1>3, Listed
    <3>2. \A k \in DOMAIN s : s[k] \in S
      BY <1>3, Listed
    <3>3. \A k \in DOMAIN s : s[k] = s[i] => k = i
      BY <1>3, Listed
    <3> HIDE DEF s
    <3>4. \A k \in DOMAIN s : \E e \in v[2] : s[k] = json(e)
      BY <3>2
    <3> HIDE DEF S, json, entry, fits
    <3>5. PICK e \in v[2] : s[i] = json(e)
      BY <3>4
    <3>6. ASSUME NEW k \in 1 .. i - 1
          PROVE  entry(s[k])[1] # entry(s[i])[1]
      <4>1. k \in DOMAIN s /\ k # i
        BY <3>1
      <4>2. PICK d \in v[2] : s[k] = json(d)
        BY <3>4, <4>1
      <4>3. d # e
        BY <3>3, <3>5, <4>1, <4>2
      <4>4. d[1] # e[1]
        BY <4>3 DEF MapValue
      <4> QED
        BY <2>1, <3>5, <4>2, <4>4
    <3> QED
      BY <2>1, <3>5, <3>6
  <2>3. \A e \in v[2] : \E i \in DOMAIN s : entry(s[i]) = e
    <3>1. \A x \in S : \E i \in DOMAIN s : s[i] = x
      BY <1>3, Listed
    <3>2. \A e \in v[2] : json(e) \in S
      OBVIOUS
    <3> HIDE DEF s, S, json, entry
    <3> QED
      BY <2>1, <3>1, <3>2
  <2>4. {entry(s[i]) : i \in {k \in DOMAIN s : first(k)}} = v[2]
    <3> HIDE DEF s, S, entry, first
    <3> QED
      BY <2>2, <2>3
  <2>5. o[2] = {}
    BY <1>1, <1>4 DEF Receives, Fits
  <2> HIDE DEF s, S, json
  <2>6. ReadAssociative(Default, ReadProperty, o, s)
          = <<t, {} \cup {entry(s[i]) : i \in {k \in DOMAIN s : first(k)}}>>
    BY <1>1, <1>4, <2>5 DEF ReadAssociative
  <2> HIDE DEF entry, first, fits
  <2>7. ReadAssociative(Default, ReadProperty, o, s) = v
    BY <2>4, <2>6
  <2>8. ReadPropertyWith(Default, ReadItem, ReadProperty, o, j) = v
    BY <1>1, <1>4, <2>7 DEF ReadPropertyWith
  <2> QED
    BY <1>2, <2>8 DEF Calls
<1>5. ~Extracted(t) /\ IsMapped(t)
  BY <1>1 DEF Extracted, IsMapped
<1> HIDE DEF j
<1> QED
  BY <1>2, <1>4, <1>5 DEF Survives, ReadsProperty

LEMMA ObjectSurvives ==
    ASSUME NEW V, NEW O, Calls(V, O), Receives(O),
           NEW v \in V, v = <<TypeOf(v), v[2]>>, ObjectValue(v),
           \A c \in Parts(v) : c \in V /\ Survives(c, O)
    PROVE  Survives(v, O)
<1> DEFINE t == TypeOf(v)
           members == [n \in Names(t) |-> ToJson(v[2][n])]
           j == <<"object", members>>
<1>1. Kind(t) = "class" /\ ~IsBasic(t)
  BY OtherKinds DEF ObjectValue, Open
<1>2. WriteObject(ToJson, v) = j
  <2>1. {p.name : p \in Written(t)} = Names(t)
    BY DEF Written, Names, ObjectValue, Open
  <2> QED
    BY <2>1 DEF WriteObject
<1>3. WriteItem(v) = j
  <2>1. WriteItemWith(ToJson, WriteItem, v) = WriteObject(ToJson, v)
    BY <1>1 DEF WriteItemWith
  <2> QED
    BY <1>2, <2>1, Called
<1>4. ToJson(v) = IF Properties(t) = <<>> THEN Null ELSE j
  <2>1. ToJsonWith(ToJson, WriteItem, v) = IF Properties(t) = <<>> THEN Null ELSE WriteObject(ToJson, v)
    BY <1>1 DEF ToJsonWith
  <2> QED
    BY <1>2, <2>1, Called
<1>5. ASSUME NEW o \in O, TypeOf(o) = t
      PROVE  ReadObject(ReadProperty, o, members) = v
  <2>1. DOMAIN o[2] = Names(t)
    <3>1. Fields(o)
      BY <1>1, <1>5 DEF Receives, Fits
    <3> QED
      BY <1>5, <3>1 DEF Fields
  <2>2. ASSUME NEW n \in Names(t)
        PROVE  /\ ReadProperty(o[2][n], members[n]) = v[2][n]
               /\ \E p \in ToSet(Properties(t)) : p.name = n /\ ~p.readonly
    <3>1. PICK p \in ToSet(Properties(t)) : p.name = n
      BY DEF Names
    <3>2. ~p.readonly /\ TypeOf(v[2][n]) = p.type
      BY <3>1 DEF ObjectValue, Open, Fields
    <3>3. TypeOf(o[2][n]) = p.type /\ o[2][n] \in O
      BY <1>1, <1>5, <2>1, <3>1 DEF Receives, Fits, Fields
    <3>4. n \in DOMAIN v[2]
      BY DEF ObjectValue, Fields
    <3>5. v[2][n] \in Parts(v)
      BY <1>1, <3>4 DEF Parts
    <3>6. ReadsProperty(o[2][n], v[2][n])
      BY <3>2, <3>3, <3>5 DEF Survives
    <3> QED
      BY <3>1, <3>2, <3>6 DEF ReadsProperty
  <2>3. ReadObject(ReadProperty, o, members)
          = <<t, [n \in DOMAIN o[2] |->
                     IF n \in DOMAIN members /\ \E p \in ToSet(Properties(t)) : p.name = n /\ ~p.readonly
                     THEN ReadProperty(o[2][n], members[n]) ELSE o[2][n]]>>
    BY <1>1, <1>5 DEF ReadObject
  <2>4. DOMAIN members = Names(t)
    OBVIOUS
  <2> HIDE DEF members
  <2>5. ReadObject(ReadProperty, o, members) = <<t, [n \in Names(t) |-> v[2][n]]>>
    BY <2>1, <2>2, <2>3, <2>4
  <2> QED
    BY <2>5 DEF ObjectValue, Fields
<1> HIDE DEF members
<1>6. ASSUME NEW o \in O, TypeOf(o) = t
      PROVE  /\ ReadItemWith(Default, ReadItem, ReadProperty, o, j) = v
             /\ ReadPropertyWith(Default, ReadItem, ReadProperty, o, j) = v
  <2>1. ReadItemWith(Default, ReadItem, ReadProperty, o, j) = v
    BY <1>5, <1>6 DEF ReadItemWith
  <2> QED
    BY <1>6, <2>1 DEF ReadPropertyWith
<1>7. ASSUME NEW o \in O, TypeOf(o) = t, Properties(t) = <<>>
      PROVE  ReadPropertyWith(Default, ReadItem, ReadProperty, o, Null) = v
  <2>1. o = v
    <3>1. Fields(o) /\ Fields(v) /\ o = <<t, o[2]>>
      BY <1>1, <1>7 DEF Receives, Fits, ObjectValue
    <3>2. Names(t) = {}
      BY <1>7 DEF Names, ToSet
    <3>3. o[2] = v[2]
      BY <1>7, <3>1, <3>2 DEF Fields
    <3> QED
      BY <3>1, <3>3
  <2>2. Convert(ExtractBasic(Null), t) = Invalid
    BY <1>1, ReadStructure, NothingConverts DEF Null
  <2>3. TypeOf(Invalid) # t
    BY <1>1 DEF Invalid, TypeOf, Kind
  <2>4. ReadItemWith(Default, ReadItem, ReadProperty, o, Null) = o
    BY <1>7, <2>2, <2>3 DEF ReadItemWith, Assign, Null
  <2> QED
    BY <2>1, <2>4 DEF ReadPropertyWith, Null
<1>8. ASSUME NEW o \in O, TypeOf(o) = t
      PROVE  ReadsProperty(o, v) /\ ReadsItem(o, v)
  <2>1. ReadItem(o, WriteItem(v)) = v
    BY <1>3, <1>6, <1>8 DEF Calls
  <2>2. ReadProperty(o, ToJson(v)) = v
    BY <1>4, <1>6, <1>7, <1>8 DEF Calls
  <2> QED
    BY <2>1, <2>2 DEF ReadsProperty, ReadsItem
<1>9. ASSUME Extracted(t), Makes(O, t)
      PROVE  Extracts(v)
  <2>1. ToJson(v) = j /\ Constructor(t) = "object"
    BY <1>1, <1>4, <1>9 DEF Extracted
  <2>2. Convert(ExtractBasic(j), t) = Invalid
    BY <1>1, ReadStructure, NothingConverts
  <2>3. Construct(Default, t) = Default(t)
    BY <2>1 DEF Construct
  <2>4. ReadObject(ReadProperty, Default(t), members) = v
    BY <1>5, <1>9 DEF Makes
  <2>5. Extract(Default, ReadProperty, j, t) = v
    BY <2>2, <2>3, <2>4 DEF Extract
  <2> QED
    BY <2>1, <2>5 DEF Extracts
<1> QED
  BY <1>1, <1>8, <1>9 DEF Survives

(* Whatever to_json writes of a value, from_json reads as that value: into *)
(* any object or container of its type whose sets and maps have no entry,  *)
(* and as an argument where extract_value can make one.  Nested to any     *)
(* depth: vectors of vectors, classes in classes, maps of objects.         *)
THEOREM Transport ==
    ASSUME NEW V, NEW depth, Carried(V, depth), NEW O, Receives(O), Calls(V, O)
    PROVE  \A v \in V : Survives(v, O)
<1> DEFINE Lost == {v \in V : ~Survives(v, O)}
<1> SUFFICES ASSUME NEW u \in Lost
             PROVE  FALSE
  OBVIOUS
<1> DEFINE T == {depth[v] : v \in Lost}
<1>1. T \subseteq Nat /\ depth[u] \in T
  BY DEF Carried
<1>2. \E m \in T : \A k \in T : m <= k
  <2> HIDE DEF T
  <2> QED
    BY <1>1, Least
<1>3. PICK v \in Lost : \A w \in Lost : depth[v] <= depth[w]
  BY <1>2
<1>4. v \in V /\ ~Survives(v, O)
  OBVIOUS
<1>5. \A c \in Parts(v) : c \in V /\ depth[c] < depth[v] /\ depth[c] \in Nat /\ depth[v] \in Nat
  BY <1>4 DEF Carried
<1>6. \A c \in Parts(v) : c \in V /\ Survives(c, O)
  BY <1>3, <1>5
<1>7. /\ v = <<TypeOf(v), v[2]>>
      /\ BasicValue(v) \/ VectorValue(v) \/ SetValue(v) \/ MapValue(v) \/ ObjectValue(v)
  BY <1>4 DEF Carried
<1> HIDE DEF Lost
<1> QED
  BY <1>4, <1>6, <1>7, BasicSurvives, VectorSurvives, SetSurvives, MapSurvives, ObjectSurvives

(* T is a set of declared types with those of what is in their values.     *)
Declared(T) ==
    \A t \in T :
        /\ Kind(t) = "vector" => t[2] \in T
        /\ Kind(t) = "map" => \A u \in {t[2], t[3]} : ~IsBasic(u) => u \in T
        /\ Kind(t) = "class" =>
              /\ \A p \in ToSet(Properties(t)) : p.type \in T
              /\ \A p, q \in ToSet(Properties(t)) : p.name = q.name => p = q
        /\ Default(t) = DefaultWith(Default, t)

LEMMA DefaultTyped ==
    ASSUME NEW T, Declared(T), NEW t \in T
    PROVE  TypeOf(Default(t)) = t /\ Default(t) = <<t, Default(t)[2]>>
<1> DEFINE d == DefaultWith(Default, t)
<1>1. \E x : d = <<t, x>>
  BY DEF DefaultWith
<1>2. Default(t) = d
  BY DEF Declared
<1> HIDE DEF d
<1> QED
  BY <1>1, <1>2 DEF TypeOf

(* Every new object, whatever is in it, is one that from_json fills.       *)
LEMMA DefaultsReceive ==
    ASSUME NEW T, Declared(T)
    PROVE  Receives({Default(t) : t \in T})
<1> DEFINE O == {Default(t) : t \in T}
<1>1. ASSUME NEW t \in T
      PROVE  Makes(O, t)
  BY <1>1, DefaultTyped DEF Makes
<1> SUFFICES ASSUME NEW t \in T
             PROVE  Fits(Default(t), O)
  BY DEF Receives
<1> DEFINE o == Default(t)
<1>2. TypeOf(o) = t /\ o = <<t, o[2]>> /\ o = DefaultWith(Default, t)
  BY DefaultTyped DEF Declared
<1>3. ASSUME Kind(t) = "vector"
      PROVE  Makes(O, t[2]) /\ DOMAIN o[2] = {}
  <2>1. o = <<t, <<>>>>
    BY <1>2, <1>3 DEF DefaultWith
  <2>2. o[2] = <<>>
    BY <2>1
  <2>3. t[2] \in T
    BY <1>3 DEF Declared
  <2> QED
    BY <1>1, <2>2, <2>3
<1>4. ASSUME Kind(t) \in {"set", "map"}
      PROVE  o[2] = {}
  <2>1. o = <<t, {}>>
    BY <1>2, <1>4 DEF DefaultWith
  <2> QED
    BY <2>1
<1>5. ASSUME Kind(t) = "map", NEW u \in {t[2], t[3]}, ~IsBasic(u)
      PROVE  Makes(O, u)
  <2>1. u \in T
    BY <1>5 DEF Declared
  <2> QED
    BY <1>1, <2>1
<1>6. ASSUME Kind(t) = "class"
      PROVE  Fields(o) /\ \A n \in DOMAIN o[2] : o[2][n] \in O
  <2> DEFINE Of(n) == CHOOSE p \in ToSet(Properties(t)) : p.name = n
             f == [n \in Names(t) |-> Default(Of(n).type)]
  <2>1. o = <<t, f>>
    BY <1>2, <1>6 DEF DefaultWith, Names
  <2>2. o[2] = f
    <3> HIDE DEF f
    <3> QED
      BY <2>1
  <2>3. ASSUME NEW p \in ToSet(Properties(t))
        PROVE  Of(p.name) = p
    BY <1>6 DEF Declared
  <2>4. ASSUME NEW p \in ToSet(Properties(t))
        PROVE  /\ p.name \in Names(t) /\ f[p.name] = Default(p.type)
               /\ Default(p.type) \in O /\ TypeOf(Default(p.type)) = p.type
    <3>1. p.name \in Names(t)
      BY DEF Names
    <3>2. p.type \in T
      BY <1>6 DEF Declared
    <3>3. f[p.name] = Default(p.type)
      BY <2>3, <3>1
    <3> QED
      BY <3>1, <3>2, <3>3, DefaultTyped
  <2>5. DOMAIN f = Names(t) /\ f = [n \in Names(t) |-> f[n]]
    OBVIOUS
  <2> HIDE DEF f, O
  <2>6. Fields(o)
    BY <1>2, <2>2, <2>4, <2>5 DEF Fields
  <2>7. \A n \in DOMAIN o[2] : o[2][n] \in O
    BY <2>2, <2>4, <2>5 DEF Names
  <2> QED
    BY <2>6, <2>7
<1> HIDE DEF O, o
<1>7. Fits(o, O)
  BY <1>2, <1>3, <1>4, <1>5, <1>6 DEF Fits
<1> QED
  BY <1>7 DEF o

(* A client and a server that declare the same types: whatever a value of  *)
(* a declared type holds, the property it is written from and read into in *)
(* a new object gets that value.                                           *)
THEOREM NewObjectTransport ==
    ASSUME NEW V, NEW depth, Carried(V, depth), NEW T, Declared(T),
           Calls(V, {Default(t) : t \in T}),
           NEW v \in V, TypeOf(v) \in T
    PROVE  ReadProperty(Default(TypeOf(v)), ToJson(v)) = v
<1> DEFINE O == {Default(t) : t \in T}
<1>1. Receives(O)
  BY DefaultsReceive
<1>2. Default(TypeOf(v)) \in O /\ TypeOf(Default(TypeOf(v))) = TypeOf(v)
  BY DefaultTyped
<1> HIDE DEF O
<1>3. Survives(v, O)
  BY <1>1, Transport DEF O
<1> QED
  BY <1>2, <1>3 DEF Survives, ReadsProperty

(* An argument that a client has serialised is the argument the method is  *)
(* called with: a basic value, or an object of a class with properties and *)
(* a constructor that makes an object.                                     *)
THEOREM ArgumentTransport ==
    ASSUME NEW V, NEW depth, Carried(V, depth), NEW T, Declared(T),
           Calls(V, {Default(t) : t \in T}),
           NEW v \in V, TypeOf(v) \in T, Extracted(TypeOf(v))
    PROVE  Extract(Default, ReadProperty, ToJson(v), TypeOf(v)) = v
<1> DEFINE O == {Default(t) : t \in T}
<1>1. Receives(O)
  BY DefaultsReceive
<1>2. Makes(O, TypeOf(v))
  BY DefaultTyped DEF Makes
<1> HIDE DEF O
<1>3. Survives(v, O)
  BY <1>1, Transport DEF O
<1> QED
  BY <1>2, <1>3 DEF Survives, Extracts

(* to_json of an object and from_json into another one of its class, new   *)
(* or not, make them equal.                                                *)
THEOREM ObjectTransport ==
    ASSUME NEW V, NEW depth, Carried(V, depth), NEW O, Receives(O), Calls(V, O),
           NEW v \in V, Kind(TypeOf(v)) = "class", NEW o \in O, TypeOf(o) = TypeOf(v)
    PROVE  ReadObject(ReadProperty, o, WriteObject(ToJson, v)[2]) = v
<1> DEFINE j == WriteObject(ToJson, v)
<1>1. j[1] = "object"
  BY DEF WriteObject
<1>2. WriteItem(v) = j
  <2>1. ~IsBasic(TypeOf(v))
    BY OtherKinds
  <2>2. WriteItemWith(ToJson, WriteItem, v) = j
    BY <2>1 DEF WriteItemWith
  <2> QED
    BY <2>2, Called
<1>3. ReadItem(o, j) = v
  <2>1. Survives(v, O)
    BY Transport
  <2>2. ~IsMapped(TypeOf(v))
    BY DEF IsMapped
  <2> QED
    BY <1>2, <2>1, <2>2 DEF Survives, ReadsItem
<1> HIDE DEF j
<1>4. ReadItem(o, j) = ReadItemWith(Default, ReadItem, ReadProperty, o, j)
  BY <1>2 DEF Calls
<1> QED
  BY <1>1, <1>3, <1>4 DEF ReadItemWith, j

LEMMA CarriedKinds ==
    ASSUME NEW V, NEW depth, Carried(V, depth), NEW v \in V
    PROVE  /\ v = <<TypeOf(v), v[2]>>
           /\ Kind(TypeOf(v)) = "vector" => VectorValue(v)
           /\ Kind(TypeOf(v)) = "class" => ObjectValue(v)
           /\ Kind(TypeOf(v)) \in {"vector", "class"} => \A i \in DOMAIN v[2] : v[2][i] \in V
<1>1. /\ v = <<TypeOf(v), v[2]>>
      /\ BasicValue(v) \/ VectorValue(v) \/ SetValue(v) \/ MapValue(v) \/ ObjectValue(v)
      /\ \A c \in Parts(v) : c \in V
  BY DEF Carried
<1>2. BasicValue(v) => Kind(TypeOf(v)) \notin {"vector", "class"}
  BY BasicKinds
<1>3. /\ VectorValue(v) => Kind(TypeOf(v)) = "vector"
      /\ SetValue(v) => Kind(TypeOf(v)) = "set"
      /\ MapValue(v) => Kind(TypeOf(v)) = "map"
      /\ ObjectValue(v) => Kind(TypeOf(v)) = "class"
  BY DEF VectorValue, SetValue, MapValue, ObjectValue, Open
<1>4. Kind(TypeOf(v)) \in {"vector", "class"} => \A i \in DOMAIN v[2] : v[2][i] \in Parts(v)
  BY DEF Parts
<1> QED
  BY <1>1, <1>2, <1>3, <1>4

(* from_json replaces the whole value of an object that exists, whatever   *)
(* it was, when no set or map is in either.                                *)
THEOREM OverwriteTransport ==
    ASSUME NEW V, NEW depth, Carried(V, depth), \A v \in V : ~IsMapped(TypeOf(v)),
           NEW T, Declared(T), \A v \in V : TypeOf(v) \in T,
           Calls(V, V \cup {Default(t) : t \in T}),
           NEW v \in V, NEW old \in V, TypeOf(old) = TypeOf(v)
    PROVE  ReadProperty(old, ToJson(v)) = v
<1> DEFINE D == {Default(t) : t \in T}
           O == V \cup D
<1>1. Receives(D)
  BY DefaultsReceive
<1>2. ASSUME NEW t \in T
      PROVE  Makes(O, t)
  BY <1>2, DefaultTyped DEF Makes
<1> HIDE DEF D
<1>3. ASSUME NEW o \in V
      PROVE  Fits(o, O)
  <2>1. o = <<TypeOf(o), o[2]>> /\ Kind(TypeOf(o)) \notin {"set", "map"}
    BY CarriedKinds DEF IsMapped
  <2>2. ASSUME Kind(TypeOf(o)) = "vector"
        PROVE  /\ Makes(O, TypeOf(o)[2])
               /\ \A i \in DOMAIN o[2] : o[2][i] \in O /\ TypeOf(o[2][i]) = TypeOf(o)[2]
    <3>1. TypeOf(o)[2] \in T
      BY <2>2 DEF Declared
    <3>2. Makes(O, TypeOf(o)[2])
      BY <1>2, <3>1
    <3>3. VectorValue(o) /\ \A i \in DOMAIN o[2] : o[2][i] \in V
      BY <2>2, CarriedKinds
    <3>4. \A i \in DOMAIN o[2] : TypeOf(o[2][i]) = TypeOf(o)[2]
      BY <3>3 DEF VectorValue
    <3> QED
      BY <3>2, <3>3, <3>4
  <2>3. ASSUME Kind(TypeOf(o)) = "class"
        PROVE  Fields(o) /\ \A n \in DOMAIN o[2] : o[2][n] \in O
    <3>1. ObjectValue(o) /\ \A n \in DOMAIN o[2] : o[2][n] \in V
      BY <2>3, CarriedKinds
    <3> QED
      BY <3>1 DEF ObjectValue
  <2> HIDE DEF O
  <2> QED
    BY <2>1, <2>2, <2>3 DEF Fits
<1>4. ASSUME NEW o \in D
      PROVE  Fits(o, O)
  <2>1. Fits(o, D)
    BY <1>1, <1>4 DEF Receives
  <2>2. D \subseteq O
    OBVIOUS
  <2> HIDE DEF O
  <2> QED
    BY <2>1, <2>2 DEF Fits, Makes
<1>5. Receives(O)
  BY <1>3, <1>4 DEF Receives
<1>6. old \in O /\ Calls(V, O)
  BY DEF D
<1> HIDE DEF O
<1>7. Survives(v, O)
  BY <1>5, <1>6, Transport
<1> QED
  BY <1>6, <1>7 DEF Survives, ReadsProperty

(* What Transport leaves out, no reader could get back: vectors of sets or *)
(* maps have the same JSON whatever these hold.                            *)
THEOREM LostInVectors ==
    ASSUME NEW V, NEW O, Calls(V, O),
           NEW v \in V, NEW w \in V, Kind(TypeOf(v)) = "vector", TypeOf(w) = TypeOf(v),
           DOMAIN v[2] = DOMAIN w[2],
           \A i \in DOMAIN v[2] : /\ v[2][i] \in V /\ IsMapped(TypeOf(v[2][i]))
                                  /\ w[2][i] \in V /\ IsMapped(TypeOf(w[2][i]))
    PROVE  ToJson(v) = ToJson(w)
<1> DEFINE empty == <<"object", [n \in {} |-> 0]>>
<1>1. ASSUME NEW c \in V, IsMapped(TypeOf(c))
      PROVE  WriteItem(c) = empty
  <2>1. Kind(TypeOf(c)) \in {"set", "map"}
    BY <1>1 DEF IsMapped
  <2>2. ~IsBasic(TypeOf(c)) /\ Properties(TypeOf(c)) = <<>>
    BY <2>1, OtherKinds, NoProperties
  <2>3. {p.name : p \in Written(TypeOf(c))} = {}
    BY <2>2 DEF Written, ToSet
  <2>4. WriteObject(ToJson, c) = empty
    BY <2>3 DEF WriteObject
  <2>5. WriteItemWith(ToJson, WriteItem, c) = WriteObject(ToJson, c)
    BY <2>1, <2>2 DEF WriteItemWith
  <2> QED
    BY <2>4, <2>5, Called
<1> HIDE DEF empty
<1>2. ASSUME NEW u \in V, Kind(TypeOf(u)) = "vector"
      PROVE  ToJson(u) = <<"array", [i \in DOMAIN u[2] |-> WriteItem(u[2][i])]>>
  <2>1. ~IsBasic(TypeOf(u))
    BY <1>2, OtherKinds
  <2>2. ToJsonWith(ToJson, WriteItem, u) = WriteItemWith(ToJson, WriteItem, u)
    BY <1>2, <2>1, NoProperties DEF ToJsonWith
  <2>3. WriteItemWith(ToJson, WriteItem, u) = <<"array", [i \in DOMAIN u[2] |-> WriteItem(u[2][i])]>>
    BY <1>2, <2>1 DEF WriteItemWith
  <2> QED
    BY <2>2, <2>3, Called
<1>3. [i \in DOMAIN v[2] |-> WriteItem(v[2][i])] = [i \in DOMAIN w[2] |-> WriteItem(w[2][i])]
  BY <1>1
<1> QED
  BY <1>2, <1>3

-----------------------------------------------------------------------------
(* The schema of objects.                                                  *)

JsonValue(j) == BasicJson(j) \/ j[1] \in {"null", "array", "object"}

LEMMA BasicTypeKinds ==
    ASSUME NEW t, BasicType(t)
    PROVE  /\ ~IsClass(t)
           /\ Keyword(t) \in {"boolean", "string", "number", "integer"}
           /\ Kind(t) \notin {"vector", "set", "map", "class", "invalid"}
<1>1. Kind(t) \in {"bool", "double", "string", "int", "uint", "enum"}
  BY DEF BasicType, IsInteger, IsEnum, Kind
<1> QED
  BY <1>1 DEF IsClass, Keyword, IsInteger

(* A JSON value that conforms to the schema of a basic type is a basic     *)
(* value and is converted.                                                 *)
LEMMA BasicConverts ==
    ASSUME NEW t, BasicType(t), NEW j, JsonValue(j), Taken(j, t),
           ConformsWith(Conforms, j, t)
    PROVE  /\ j[1] \notin {"null", "array", "object"}
           /\ TypeOf(FromBasic(j, t)) = t
<1>1. BasicConforms(j, t)
  BY BasicTypeKinds DEF ConformsWith
<1>2. j[1] \notin {"null", "array", "object"}
  BY <1>1, BasicTypeKinds DEF BasicConforms
<1>3. BasicJson(j)
  BY <1>2 DEF JsonValue
<1> QED
  BY <1>1, <1>2, <1>3, BasicSchemaAdmits

(* What a client sends that keeps to the schema of a parameter, of a basic *)
(* type or of a class whose constructor makes an object, becomes a value   *)
(* of the parameter's type, so that RTTR can call the method (the lowest   *)
(* value of a signed type as in BasicSchemaAdmits).                        *)
THEOREM SchemaAdmitsArguments ==
    ASSUME NEW t,
           \/ BasicType(t)
           \/ Kind(t) = "class" /\ Constructor(t) = "object" /\ TypeOf(Default(t)) = t,
           NEW j, JsonValue(j), Taken(j, t), ConformsWith(Conforms, j, t)
    PROVE  TypeOf(Extract(Default, ReadProperty, j, t)) = t
<1>1. CASE BasicType(t)
  <2>1. TypeOf(FromBasic(j, t)) = t
    BY <1>1, BasicConverts
  <2>2. FromBasic(j, t) # Invalid
    BY <1>1, <2>1, BasicTypeKinds DEF Invalid, TypeOf, Kind
  <2> QED
    BY <2>1, <2>2 DEF Extract, FromBasic
<1>2. CASE Kind(t) = "class" /\ Constructor(t) = "object" /\ TypeOf(Default(t)) = t
  <2>1. j[1] = "object"
    BY <1>2 DEF ConformsWith, IsClass
  <2>2. Convert(ExtractBasic(j), t) = Invalid
    BY <1>2, <2>1, ReadStructure, NothingConverts
  <2>3. Construct(Default, t) = Default(t)
    BY <1>2 DEF Construct
  <2>4. Extract(Default, ReadProperty, j, t) = ReadObject(ReadProperty, Default(t), j[2])
    BY <2>1, <2>2, <2>3 DEF Extract
  <2>5. TypeOf(ReadObject(ReadProperty, Default(t), j[2])) = t
    BY <1>2 DEF ReadObject, TypeOf
  <2> QED
    BY <2>4, <2>5
<1> QED
  BY <1>1, <1>2

(* T is a set of types without containers, read-only properties and        *)
(* classes in themselves, with the types of their properties.              *)
Plain(T, depth) ==
    /\ depth \in [T -> Nat]
    /\ \A t \in T :
          \/ BasicType(t)
          \/ /\ Kind(t) = "class"
             /\ \A p \in ToSet(Properties(t)) :
                   ~p.readonly /\ p.type \in T /\ depth[p.type] < depth[t]

(* J is a set of JSON values with the members of its objects, W a set of   *)
(* C++ values with the properties of its objects.                          *)
JsonValues(J) == \A j \in J : /\ JsonValue(j)
                              /\ j[1] = "object" => \A n \in DOMAIN j[2] : j[2][n] \in J

ValuesRead(W) ==
    \A w \in W :
        /\ w = <<TypeOf(w), w[2]>>
        /\ Kind(TypeOf(w)) = "class" => Fields(w) /\ \A n \in DOMAIN w[2] : w[2][n] \in W

(* None of them is the lowest value of a signed type whose schema it       *)
(* conforms to (unless LowestConverts).                                    *)
AllTaken(T, J) == \A j \in J, t \in T : Conforms(j, t) => Taken(j, t)

SchemaCalls(T, J, W) ==
    /\ \A j \in J, t \in T : Conforms(j, t) <=> ConformsWith(Conforms, j, t)
    /\ \A w \in W, j \in J :
          ReadProperty(w, j) = ReadPropertyWith(Default, ReadItem, ReadProperty, w, j)

(* No value that conforms to the schema of t leaves anything of the value  *)
(* that was there.                                                         *)
Decided(t, J, W) ==
    \A j \in J, v, w \in W :
        Conforms(j, t) /\ TypeOf(v) = t /\ TypeOf(w) = t => ReadProperty(v, j) = ReadProperty(w, j)

ObjectsDecided(t, J, W) ==
    \A j \in J, v, w \in W :
        Conforms(j, t) /\ TypeOf(v) = t /\ TypeOf(w) = t =>
            ReadObject(ReadProperty, v, j[2]) = ReadObject(ReadProperty, w, j[2])

LEMMA BasicDecided ==
    ASSUME NEW t, BasicType(t), NEW T, t \in T, NEW J, JsonValues(J), AllTaken(T, J),
           NEW W, SchemaCalls(T, J, W)
    PROVE  Decided(t, J, W)
<1> SUFFICES ASSUME NEW j \in J, NEW v \in W, NEW w \in W,
                    Conforms(j, t), TypeOf(v) = t, TypeOf(w) = t
             PROVE  ReadProperty(v, j) = ReadProperty(w, j)
  BY DEF Decided
<1>1. ConformsWith(Conforms, j, t) /\ JsonValue(j) /\ Taken(j, t)
  BY DEF SchemaCalls, JsonValues, AllTaken
<1>2. j[1] \notin {"null", "array", "object"} /\ TypeOf(FromBasic(j, t)) = t
  BY <1>1, BasicConverts
<1>3. ASSUME NEW u \in W, TypeOf(u) = t
      PROVE  ReadProperty(u, j) = FromBasic(j, t)
  <2>1. ReadItemWith(Default, ReadItem, ReadProperty, u, j) = FromBasic(j, t)
    BY <1>2, <1>3 DEF ReadItemWith, Assign, FromBasic
  <2>2. ReadPropertyWith(Default, ReadItem, ReadProperty, u, j) = FromBasic(j, t)
    BY <1>2, <2>1 DEF ReadPropertyWith
  <2> QED
    BY <2>2 DEF SchemaCalls
<1> QED
  BY <1>3

(* An object is decided when its properties are: the schema requires every *)
(* one of them.                                                            *)
LEMMA ObjectDecided ==
    ASSUME NEW t, Kind(t) = "class", NEW T, t \in T, NEW J, JsonValues(J), NEW W, ValuesRead(W),
           SchemaCalls(T, J, W),
           \A p \in ToSet(Properties(t)) : ~p.readonly /\ Decided(p.type, J, W)
    PROVE  Decided(t, J, W) /\ ObjectsDecided(t, J, W)
<1> SUFFICES ASSUME NEW j \in J, NEW v \in W, NEW w \in W,
                    Conforms(j, t), TypeOf(v) = t, TypeOf(w) = t
             PROVE  /\ ReadObject(ReadProperty, v, j[2]) = ReadObject(ReadProperty, w, j[2])
                    /\ ReadProperty(v, j) = ReadProperty(w, j)
  BY DEF Decided, ObjectsDecided
<1> DEFINE m == j[2]
           reads(n) == n \in DOMAIN m /\ \E p \in ToSet(Properties(t)) : p.name = n /\ ~p.readonly
<1>1. ConformsWith(Conforms, j, t)
  BY DEF SchemaCalls
<1>2. /\ j[1] = "object"
      /\ \A i \in DOMAIN Properties(t) :
            Properties(t)[i].name \in DOMAIN m /\ Conforms(m[Properties(t)[i].name], Properties(t)[i].type)
  BY <1>1 DEF ConformsWith, IsClass
<1>3. \A p \in ToSet(Properties(t)) : p.name \in DOMAIN m /\ Conforms(m[p.name], p.type)
  BY <1>2 DEF ToSet
<1>4. \A n \in DOMAIN m : m[n] \in J
  BY <1>2 DEF JsonValues
<1> HIDE DEF m
<1>5. \A u \in {v, w} : Fields(u) /\ \A n \in DOMAIN u[2] : u[2][n] \in W
  <2> SUFFICES ASSUME NEW u \in W, TypeOf(u) = t
               PROVE  Fields(u) /\ \A n \in DOMAIN u[2] : u[2][n] \in W
    OBVIOUS
  <2>1. Kind(TypeOf(u)) = "class"
    OBVIOUS
  <2> QED
    BY <2>1 DEF ValuesRead
<1>6. DOMAIN v[2] = Names(t) /\ DOMAIN w[2] = Names(t)
  BY <1>5 DEF Fields
<1>7. ASSUME NEW n \in Names(t)
      PROVE  reads(n) /\ ReadProperty(v[2][n], m[n]) = ReadProperty(w[2][n], m[n])
  <2>1. PICK p \in ToSet(Properties(t)) : p.name = n
    BY DEF Names
  <2>2. TypeOf(v[2][n]) = p.type /\ TypeOf(w[2][n]) = p.type
    BY <1>5, <2>1 DEF Fields
  <2>3. v[2][n] \in W /\ w[2][n] \in W
    BY <1>5, <1>6
  <2>4. n \in DOMAIN m /\ m[n] \in J /\ Conforms(m[n], p.type)
    BY <1>3, <1>4, <2>1
  <2>5. Decided(p.type, J, W) /\ ~p.readonly
    BY <2>1
  <2> QED
    BY <2>1, <2>2, <2>3, <2>4, <2>5 DEF Decided
<1>8. ASSUME NEW u \in W, TypeOf(u) = t, DOMAIN u[2] = Names(t)
      PROVE  ReadObject(ReadProperty, u, m) = <<t, [n \in Names(t) |-> ReadProperty(u[2][n], m[n])]>>
  <2>1. ReadObject(ReadProperty, u, m)
          = <<t, [n \in DOMAIN u[2] |-> IF reads(n) THEN ReadProperty(u[2][n], m[n]) ELSE u[2][n]]>>
    BY <1>8 DEF ReadObject
  <2> HIDE DEF reads
  <2> QED
    BY <1>7, <1>8, <2>1
<1>9. ReadObject(ReadProperty, v, m) = ReadObject(ReadProperty, w, m)
  BY <1>6, <1>7, <1>8
<1>10. ASSUME NEW u \in W, TypeOf(u) = t
       PROVE  ReadProperty(u, j) = ReadObject(ReadProperty, u, m)
  <2>1. ReadPropertyWith(Default, ReadItem, ReadProperty, u, j) = ReadObject(ReadProperty, u, m)
    BY <1>2, <1>10 DEF ReadPropertyWith, ReadItemWith, m
  <2> QED
    BY <2>1 DEF SchemaCalls
<1> QED
  BY <1>9, <1>10 DEF m

(* A value that conforms to the schema of a class, at any depth of classes *)
(* in classes, decides the whole object: every property is required, and   *)
(* none keeps the value it had.                                            *)
THEOREM SchemaDecidesObjects ==
    ASSUME NEW T, NEW depth, Plain(T, depth), NEW J, JsonValues(J), AllTaken(T, J),
           NEW W, ValuesRead(W), SchemaCalls(T, J, W),
           NEW t \in T, Kind(t) = "class"
    PROVE  ObjectsDecided(t, J, W)
<1> DEFINE Undecided == {u \in T : ~Decided(u, J, W)}
           N == {depth[u] : u \in Undecided}
<1>1. ASSUME NEW s \in Undecided
      PROVE  FALSE
  <2>1. N \subseteq Nat /\ depth[s] \in N
    BY <1>1 DEF Plain
  <2>2. \E m \in N : \A k \in N : m <= k
    <3> HIDE DEF N
    <3> QED
      BY <2>1, Least
  <2>3. PICK u \in Undecided : \A x \in Undecided : depth[u] <= depth[x]
    BY <2>2
  <2>4. u \in T /\ ~Decided(u, J, W)
    OBVIOUS
  <2>5. Kind(u) = "class"
    BY <2>4, BasicDecided DEF Plain
  <2>6. \A p \in ToSet(Properties(u)) :
           /\ ~p.readonly /\ p.type \in T /\ depth[p.type] < depth[u]
           /\ depth[p.type] \in Nat /\ depth[u] \in Nat
    BY <2>4, <2>5, BasicTypeKinds DEF Plain
  <2>7. \A p \in ToSet(Properties(u)) : ~p.readonly /\ Decided(p.type, J, W)
    BY <2>3, <2>6
  <2>8. Decided(u, J, W)
    BY <2>4, <2>5, <2>7, ObjectDecided
  <2> QED
    BY <2>4, <2>8
<1>2. \A u \in T : Decided(u, J, W)
  BY <1>1
<1>3. \A p \in ToSet(Properties(t)) : ~p.readonly /\ p.type \in T
  BY BasicTypeKinds DEF Plain
<1>4. \A p \in ToSet(Properties(t)) : ~p.readonly /\ Decided(p.type, J, W)
  BY <1>2, <1>3
<1> QED
  BY <1>4, ObjectDecided
=============================================================================
