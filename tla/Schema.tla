------------------------------- MODULE Schema -------------------------------
(***************************************************************************)
(* The JSON schema of a method that clients get from __init__:             *)
(* method::create_json_schema and src/src/core/parameter.cpp.              *)
(*                                                                         *)
(* A class is described once, in the definitions of the method's params,   *)
(* and referred to by name everywhere else.  create_class_definition and   *)
(* create_parameter_description call each other; here their calls are a    *)
(* stack and every property is a step.                                     *)
(*                                                                         *)
(* defs[class_name] = create_class_definition(type, defs): C++17 evaluates *)
(* the right side first, so the name is not in defs during the call; up to *)
(* C++14 the compiler chooses (the build asks for the newest standard the  *)
(* compiler has, and for C++11 at least).                                  *)
(***************************************************************************)
EXTENDS Reflection, FiniteSets

CONSTANTS
    Declarations,   \* what programs declare: [classes, roots], roots being the
                    \* parameter types of a method and, last, what it returns
    Orders,         \* the orders of evaluation of the builds
    MaxDepth        \* how many calls the thread's stack holds

NameFirst  == "name first"
ValueFirst == "value first"

ASSUME OrdersAssumption == Orders \subseteq {NameFirst, ValueFirst}
ASSUME DepthAssumption  == MaxDepth \in Nat

(* What is iterated over is a list.                                        *)
IsList(s) == Len(s) \in Nat /\ DOMAIN s = 1 .. Len(s)

ASSUME DeclarationsAssumption ==
    \A d \in Declarations :
        IsList(d.roots) /\ \A c \in DOMAIN d.classes : IsList(d.classes[c].props)

VARIABLES
    up,      \* the stack has not overflowed
    order,   \* the order of evaluation of this build
    roots,   \* the parameters and the result
    root,    \* the next one to describe
    stack,   \* calls of create_class_definition: [type, next property]
    defs,    \* defs: the classes it has a definition of
    refs     \* history: the classes that a "$ref" of the params points to

declVars == <<classes, roots, order>>
vars == <<up, declVars, root, stack, defs, refs>>

Init ==
    /\ \E d \in Declarations : classes = d.classes /\ roots = d.roots
    /\ up = TRUE
    /\ order \in Orders
    /\ root = 1 /\ stack = <<>>
    /\ defs = {} /\ refs = {}

InProgress(s) == {s[i].type : i \in DOMAIN s}

Known_Bug == {}

(* defs.count(class_name) # 0                                              *)
Known == IF order = NameFirst THEN defs \cup InProgress(stack) ELSE defs

Describe_Bug(t, s) ==
    /\ refs' = IF IsClass(t) THEN refs \cup {t} ELSE refs
    /\ stack' = IF IsClass(t) /\ t \notin Known
                THEN Append(s, [type |-> t, next |-> 0]) ELSE s

(* create_parameter_description of a type, called with the stack s.        *)
Describe(t, s) ==
    /\ refs' = IF IsClass(t) THEN refs \cup {t} ELSE refs
    /\ stack' = IF IsClass(t) /\ t \notin Known
                THEN Append(s, [type |-> t, next |-> 1]) ELSE s

(* create_parameter_description of what is not a class: the JSON type and  *)
(* the limits of the value.  The limits of double hold every double.       *)
Keyword(t) == CASE Kind(t) = "bool"                   -> "boolean"
                [] Kind(t) \in {"string", "enum"}     -> "string"
                [] IsInteger(t)                       -> "integer"
                [] Kind(t) \in {"double", "char"}     -> "number"
                [] OTHER                              -> "undefined"

Limits_Bug(t) == IF IsInteger(t) THEN 0 .. Highest(t) + 1 ELSE {}

(* set_arithmetic_type_limits                                              *)
Limits(t) == IF IsInteger(t) THEN Lowest(t) .. Highest(t) ELSE {}

(* The JSON values that these allow, which are the values of JSON Schema:  *)
(* a number without a fraction is an integer.                              *)
BasicConforms(j, t) ==
    \/ Keyword(t) = "boolean" /\ j[1] = "bool"
    \/ /\ Keyword(t) = "string" /\ j[1] = "string"
       /\ Kind(t) = "enum" => \E i \in DOMAIN t[2] : j[2] = t[2][i]
    \/ Keyword(t) = "number" /\ j[1] \in {"integer", "float"}
    \/ /\ Keyword(t) = "integer"
       /\ \/ j[1] = "integer" /\ j[2] \in Limits(t)
          \/ j[1] = "float" /\ j[2] % 2 = 0 /\ j[2] \div 2 \in Limits(t)

(* The same for a class, whose definition requires all its properties;     *)
(* conforms is for the values of these.                                    *)
ConformsWith(conforms(_, _), j, t) ==
    IF IsClass(t)
    THEN /\ t \in defs
         /\ j[1] = "object"
         /\ \A i \in DOMAIN Properties(t) :
               LET p == Properties(t)[i]
               IN  p.name \in DOMAIN j[2] /\ conforms(j[2][p.name], p.type)
    ELSE BasicConforms(j, t)

(* create_json_schema describes its parameters, then the result.           *)
DescribeRoot ==
    /\ up /\ stack = <<>> /\ root \in DOMAIN roots
    /\ Describe(roots[root], stack)
    /\ root' = root + 1
    /\ UNCHANGED <<up, declVars, defs>>

Top == stack[Len(stack)]

(* create_class_definition describes the next property.                    *)
DescribeProperty ==
    /\ up /\ stack # <<>> /\ Len(stack) <= MaxDepth
    /\ Top.next \in DOMAIN Properties(Top.type)
    /\ Describe(Properties(Top.type)[Top.next].type,
                [stack EXCEPT ![Len(stack)].next = @ + 1])
    /\ UNCHANGED <<up, declVars, root, defs>>

Define_Bug ==
    /\ up /\ stack # <<>> /\ Len(stack) <= MaxDepth
    /\ Top.next \notin DOMAIN Properties(Top.type)
    /\ defs' = IF Len(stack) = 1 THEN defs \cup {Top.type} ELSE defs
    /\ stack' = SubSeq(stack, 1, Len(stack) - 1)
    /\ UNCHANGED <<up, declVars, root, refs>>

(* It returns, and the definition is stored.                               *)
Define ==
    /\ up /\ stack # <<>> /\ Len(stack) <= MaxDepth
    /\ Top.next \notin DOMAIN Properties(Top.type)
    /\ defs' = defs \cup {Top.type}
    /\ stack' = SubSeq(stack, 1, Len(stack) - 1)
    /\ UNCHANGED <<up, declVars, root, refs>>

(* The thread's stack overflows, which ends the process.                   *)
Overflow ==
    /\ up /\ Len(stack) > MaxDepth
    /\ up' = FALSE
    /\ UNCHANGED <<declVars, root, stack, defs, refs>>

Described == stack = <<>> /\ root \notin DOMAIN roots

Done == (Described \/ ~up) /\ UNCHANGED vars

Step == DescribeRoot \/ DescribeProperty \/ Define \/ Overflow

Next == Step \/ Done

Spec     == Init /\ [][Next]_vars
FairSpec == Spec /\ WF_vars(Step)

-----------------------------------------------------------------------------
PropertyTypes(t) == {Properties(t)[i].type : i \in DOMAIN Properties(t)}

Types == {roots[i] : i \in DOMAIN roots}
            \cup UNION {PropertyTypes(<<"class", c>>) : c \in DOMAIN classes}

ClassTypes == {t \in Types : IsClass(t)}

(* No class has a property of its own type, directly or through others.    *)
Acyclic == ~\E S \in (SUBSET ClassTypes) \ {{}} :
               \A t \in S : PropertyTypes(t) \cap S # {}

(* Every "$ref" that has been written points to a definition that is there *)
(* or still being made, so in the finished schema all of them resolve.     *)
RefsResolve ==
    /\ refs \subseteq defs \cup InProgress(stack)
    /\ Described => refs \subseteq defs

(* Each class is described by one call at a time, and not again when its   *)
(* definition is there, unless a class contains itself and the value is    *)
(* evaluated first.                                                        *)
DescribedOnce ==
    order = NameFirst \/ Acyclic =>
        /\ \A i, j \in DOMAIN stack : stack[i].type = stack[j].type => i = j
        /\ InProgress(stack) \cap defs = {}

(* The description comes to an end, and only a class that contains itself, *)
(* in a build that evaluates the value first, overflows the stack.         *)
Completes == <>(Described \/ (~up /\ order = ValueFirst /\ ~Acyclic))
=============================================================================
