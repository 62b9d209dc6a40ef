---------------------------- MODULE SchemaProofs ----------------------------
(***************************************************************************)
(* Proofs about Schema, for any declarations: classes of any shape, also   *)
(* cyclic ones, both orders of evaluation and any depth of the stack.      *)
(***************************************************************************)
EXTENDS Schema, SequenceTheorems, FiniteSetTheorems, TLAPS

LEMMA NextCases ==
    ASSUME [Next]_vars
    PROVE  DescribeRoot \/ DescribeProperty \/ Define \/ Overflow \/ UNCHANGED vars
  BY DEF Next, Step, Done

-----------------------------------------------------------------------------
(* Stacks of calls, whatever types they are about.                         *)

Frames(T)  == [type : T, next : Nat]
IsStack(s) == \E T : s \in Seq(Frames(T))

LEMMA StackLength ==
    ASSUME NEW s, IsStack(s)
    PROVE  Len(s) \in Nat /\ DOMAIN s = 1 .. Len(s) /\ (s = <<>> <=> Len(s) = 0)
<1>1. PICK T : s \in Seq(Frames(T))
  BY DEF IsStack
<1> QED
  BY <1>1

(* create_class_definition goes on to its next property: the calls stay.   *)
LEMMA Advance ==
    ASSUME NEW s, IsStack(s), s # <<>>
    PROVE  LET a == [s EXCEPT ![Len(s)].next = @ + 1]
           IN  /\ IsStack(a) /\ Len(a) = Len(s)
               /\ \A i \in 1 .. Len(s) : a[i].type = s[i].type
<1>1. PICK T : s \in Seq(Frames(T))
  BY DEF IsStack
<1> DEFINE n == Len(s)
           f == [s[n] EXCEPT !.next = @ + 1]
           a == [s EXCEPT ![n] = f]
<1>2. n \in 1 .. Len(s) /\ s[n] \in Frames(T)
  BY <1>1, EmptySeq, ElementOfSeq
<1>3. f \in Frames(T) /\ f.type = s[n].type
  BY <1>2 DEF Frames
<1> HIDE DEF f, n
<1>4. a \in Seq(Frames(T)) /\ Len(a) = Len(s)
      /\ \A j \in 1 .. Len(s) : a[j] = IF j = n THEN f ELSE s[j]
  BY <1>1, <1>2, <1>3, ExceptSeq
<1>5. a = [s EXCEPT ![Len(s)].next = @ + 1]
  BY DEF f, n
<1> QED
  BY <1>3, <1>4, <1>5 DEF IsStack

(* A call of create_class_definition.                                      *)
LEMMA Push ==
    ASSUME NEW s, IsStack(s), NEW t
    PROVE  LET a == Append(s, [type |-> t, next |-> 1])
           IN  /\ IsStack(a) /\ Len(a) = Len(s) + 1
               /\ \A i \in 1 .. Len(s) : a[i] = s[i]
               /\ a[Len(s) + 1].type = t
<1>1. PICK T : s \in Seq(Frames(T))
  BY DEF IsStack
<1> DEFINE e == [type |-> t, next |-> 1]
<1>2. Frames(T) \subseteq Frames(T \cup {t}) /\ e \in Frames(T \cup {t})
  BY DEF Frames
<1>3. s \in Seq(Frames(T \cup {t}))
  BY <1>1, <1>2, SeqMonotonic
<1>4. e.type = t
  OBVIOUS
<1> HIDE DEF e
<1>5. Append(s, e) \in Seq(Frames(T \cup {t})) /\ Len(Append(s, e)) = Len(s) + 1
  BY <1>2, <1>3
<1>6. (\A i \in 1 .. Len(s) : Append(s, e)[i] = s[i]) /\ Append(s, e)[Len(s) + 1] = e
  BY <1>3
<1> QED
  BY <1>4, <1>5, <1>6 DEF IsStack, e

(* It returns.                                                             *)
LEMMA Pop ==
    ASSUME NEW s, IsStack(s), s # <<>>
    PROVE  LET a == SubSeq(s, 1, Len(s) - 1)
           IN  /\ IsStack(a) /\ Len(a) = Len(s) - 1
               /\ \A i \in 1 .. Len(s) - 1 : a[i] = s[i]
<1>1. PICK T : s \in Seq(Frames(T))
  BY DEF IsStack
<1> DEFINE n == Len(s) - 1
           a == SubSeq(s, 1, n)
<1>2. Len(s) \in Nat \ {0} /\ n \in Nat /\ n \in Int /\ 1 \in Int
  BY <1>1, EmptySeq
<1>3. \A i \in 1 .. n : s[i] \in Frames(T)
  BY <1>1, <1>2, ElementOfSeq
<1> HIDE DEF n
<1>4. /\ a \in Seq(Frames(T))
      /\ Len(a) = IF 1 <= n THEN n - 1 + 1 ELSE 0
      /\ \A i \in 1 .. n - 1 + 1 : a[i] = s[1 + i - 1]
  BY <1>2, <1>3, SubSeqProperties
<1>5. Len(a) = n /\ 1 .. n - 1 + 1 = 1 .. n
  BY <1>2, <1>4
<1>6. \A i \in 1 .. n : 1 + i - 1 = i
  BY <1>2
<1>7. \A i \in 1 .. n : a[i] = s[i]
  BY <1>4, <1>5, <1>6
<1> QED
  BY <1>4, <1>5, <1>7 DEF IsStack, n

-----------------------------------------------------------------------------
(* What one step does to the stack and to the definitions.                 *)

Stacked == IsStack(stack)

SameCalls(a, b) == Len(a) = Len(b) /\ \A i \in 1 .. Len(b) : a[i].type = b[i].type

(* The type has a definition, or is being described: the calls stay.       *)
Refer(t) ==
    /\ SameCalls(stack', stack)
    /\ refs' = IF IsClass(t) THEN refs \cup {t} ELSE refs
    /\ IsClass(t) => t \in Known
    /\ defs' = defs

(* A call for a class that has none is added to the calls.                 *)
Enter(t) ==
    /\ IsClass(t) /\ t \notin Known
    /\ Len(stack') = Len(stack) + 1
    /\ \A i \in 1 .. Len(stack) : stack'[i].type = stack[i].type
    /\ stack'[Len(stack) + 1].type = t
    /\ refs' = refs \cup {t} /\ defs' = defs

(* The last call returns.                                                  *)
Leave ==
    /\ stack # <<>>
    /\ Len(stack') = Len(stack) - 1
    /\ \A i \in 1 .. Len(stack) - 1 : stack'[i].type = stack[i].type
    /\ defs' = defs \cup {stack[Len(stack)].type} /\ refs' = refs

LEMMA DescribeCases ==
    ASSUME Stacked, NEW s, IsStack(s), SameCalls(s, stack), NEW t,
           Describe(t, s), defs' = defs
    PROVE  Stacked' /\ (Refer(t) \/ Enter(t))
<1>1. Len(stack) \in Nat
  BY StackLength DEF Stacked
<1>2. CASE IsClass(t) /\ t \notin Known
  <2>1. stack' = Append(s, [type |-> t, next |-> 1]) /\ refs' = refs \cup {t}
    BY <1>2 DEF Describe
  <2>2. /\ IsStack(stack') /\ Len(stack') = Len(s) + 1
        /\ \A i \in 1 .. Len(s) : stack'[i] = s[i]
        /\ stack'[Len(s) + 1].type = t
    BY <2>1, Push
  <2> QED
    BY <1>2, <2>1, <2>2 DEF SameCalls, Enter, Stacked
<1>3. CASE ~(IsClass(t) /\ t \notin Known)
  <2>1. stack' = s /\ refs' = IF IsClass(t) THEN refs \cup {t} ELSE refs
    BY <1>3 DEF Describe
  <2> QED
    BY <1>3, <2>1 DEF Refer, Stacked
<1> QED
  BY <1>2, <1>3

LEMMA StepCases ==
    ASSUME Stacked, [Next]_vars
    PROVE  /\ Stacked'
           /\ \/ UNCHANGED <<stack, defs, refs>>
              \/ \E t : /\ Refer(t) \/ Enter(t)
                        /\ \/ stack = <<>> /\ t \in {roots[i] : i \in DOMAIN roots}
                           \/ stack # <<>> /\ t \in PropertyTypes(Top.type)
              \/ Leave
<1>1. CASE DescribeRoot
  <2>1. Describe(roots[root], stack) /\ defs' = defs /\ stack = <<>> /\ root \in DOMAIN roots
    BY <1>1 DEF DescribeRoot
  <2>2. SameCalls(stack, stack)
    BY DEF SameCalls
  <2> QED
    BY <2>1, <2>2, DescribeCases DEF Stacked
<1>2. CASE DescribeProperty
  <2> DEFINE a == [stack EXCEPT ![Len(stack)].next = @ + 1]
             t == Properties(Top.type)[Top.next].type
  <2>1. /\ Describe(t, a) /\ defs' = defs /\ stack # <<>>
        /\ t \in PropertyTypes(Top.type)
    BY <1>2 DEF DescribeProperty, PropertyTypes
  <2>2. IsStack(a) /\ SameCalls(a, stack)
    BY <2>1, Advance DEF Stacked, SameCalls
  <2> HIDE DEF a, t
  <2>3. Stacked' /\ (Refer(t) \/ Enter(t))
    BY <2>1, <2>2, DescribeCases
  <2> QED
    BY <2>1, <2>3
<1>3. CASE Define
  <2>1. /\ stack # <<>> /\ refs' = refs
        /\ stack' = SubSeq(stack, 1, Len(stack) - 1)
        /\ defs' = defs \cup {stack[Len(stack)].type}
    BY <1>3 DEF Define, Top
  <2>2. /\ IsStack(stack') /\ Len(stack') = Len(stack) - 1
        /\ \A i \in 1 .. Len(stack) - 1 : stack'[i] = stack[i]
    BY <2>1, Pop DEF Stacked
  <2>3. Leave
    BY <2>1, <2>2 DEF Leave
  <2> QED
    BY <2>2, <2>3 DEF Stacked
<1>4. CASE Overflow \/ UNCHANGED vars
  BY <1>4 DEF Overflow, vars, Stacked, declVars
<1> QED
  BY <1>1, <1>2, <1>3, <1>4, NextCases

LEMMA InitStacked == Init => Stacked /\ Len(stack) = 0
<1>1. <<>> \in Seq(Frames({}))
  OBVIOUS
<1> QED
  BY <1>1 DEF Init, Stacked, IsStack

LEMMA Calls ==
    ASSUME Stacked
    PROVE  /\ Len(stack) \in Nat /\ DOMAIN stack = 1 .. Len(stack)
           /\ (stack = <<>> <=> Len(stack) = 0)
           /\ InProgress(stack) = {stack[i].type : i \in 1 .. Len(stack)}
  BY StackLength DEF Stacked, InProgress

-----------------------------------------------------------------------------
(* References.                                                             *)

Referred == refs \subseteq defs \cup InProgress(stack)

LEMMA ReferredStep ==
    ASSUME Stacked, Referred, [Next]_vars
    PROVE  Referred'
<1>1. /\ Len(stack) \in Nat
      /\ InProgress(stack) = {stack[i].type : i \in 1 .. Len(stack)}
      /\ InProgress(stack)' = {stack'[i].type : i \in 1 .. Len(stack')}
      /\ stack = <<>> <=> Len(stack) = 0
  <2>1. Stacked'
    BY StepCases
  <2> QED
    BY <2>1, Calls, StackLength DEF Stacked, InProgress
<1>2. CASE UNCHANGED <<stack, defs, refs>>
  BY <1>2 DEF Referred, InProgress
<1>3. ASSUME NEW t, Refer(t)
      PROVE  Referred'
  <2>1. InProgress(stack)' = InProgress(stack) /\ defs' = defs
    BY <1>1, <1>3 DEF Refer, SameCalls
  <2>2. refs' \subseteq refs \cup Known
    BY <1>3 DEF Refer
  <2>3. Known \subseteq defs \cup InProgress(stack)
    BY DEF Known
  <2> QED
    BY <2>1, <2>2, <2>3 DEF Referred
<1>4. ASSUME NEW t, Enter(t)
      PROVE  Referred'
  <2>1. t \in InProgress(stack)' /\ InProgress(stack) \subseteq InProgress(stack)'
    BY <1>1, <1>4 DEF Enter
  <2> QED
    BY <1>4, <2>1 DEF Enter, Referred
<1>5. CASE Leave
  <2>1. InProgress(stack) \subseteq InProgress(stack)' \cup {stack[Len(stack)].type}
    <3>1. ASSUME NEW i \in 1 .. Len(stack), i # Len(stack)
          PROVE  stack[i].type \in InProgress(stack)'
      BY <1>1, <1>5, <3>1 DEF Leave
    <3> QED
      BY <1>1, <3>1
  <2> QED
    BY <1>5, <2>1 DEF Leave, Referred
<1> QED
  BY <1>2, <1>3, <1>4, <1>5, StepCases

(* Every "$ref" that has been written points to a definition that is there *)
(* or being made; when the description is complete, all of them resolve.   *)
THEOREM ReferencesResolve == Spec => []RefsResolve
<1>1. Init => Stacked /\ Referred
  BY InitStacked DEF Init, Referred
<1>2. Stacked /\ Referred /\ [Next]_vars => (Stacked /\ Referred)'
  BY StepCases, ReferredStep
<1>3. Stacked /\ Referred => RefsResolve
  BY DEF Referred, RefsResolve, Described, InProgress
<1> QED
  BY <1>1, <1>2, <1>3, PTL DEF Spec

-----------------------------------------------------------------------------
(* Each class once.  The calls in progress are a path through the types:   *)
(* each is about the type of a property of the one before.                 *)

Path ==
    /\ \A i \in 1 .. Len(stack) : stack[i].type \in ClassTypes
    /\ \A i \in 1 .. Len(stack) - 1 :
          stack[i + 1].type \in PropertyTypes(stack[i].type)

Fresh ==
    order = NameFirst \/ Acyclic =>
        /\ \A i, j \in 1 .. Len(stack) : stack[i].type = stack[j].type => i = j
        /\ \A i \in 1 .. Len(stack) : stack[i].type \notin defs

LEMMA SameProgram ==
    ASSUME [Next]_vars
    PROVE  UNCHANGED declVars
  BY NextCases DEF DescribeRoot, DescribeProperty, Define, Overflow, vars

LEMMA SameTypes ==
    ASSUME UNCHANGED declVars
    PROVE  /\ ClassTypes' = ClassTypes
           /\ \A t : PropertyTypes(t)' = PropertyTypes(t)
           /\ Acyclic' <=> Acyclic
           /\ order' = order
<1>1. classes' = classes /\ roots' = roots /\ order' = order
  BY DEF declVars
<1>2. \A t : Properties(t)' = Properties(t)
  BY <1>1 DEF Properties, IsRegistered
<1>3. \A t : PropertyTypes(t)' = PropertyTypes(t)
  BY <1>2 DEF PropertyTypes
<1>4. ClassTypes' = ClassTypes
  BY <1>1, <1>3 DEF ClassTypes, Types
<1>5. Acyclic' <=> Acyclic
  BY <1>3, <1>4 DEF Acyclic
<1> QED
  BY <1>1, <1>3, <1>4, <1>5

(* A property of a registered class whose type is a class is one of the    *)
(* program's types.                                                        *)
LEMMA PropertyInClassTypes ==
    ASSUME NEW u, NEW t \in PropertyTypes(u), IsClass(t)
    PROVE  t \in ClassTypes
<1>1. PICK i \in DOMAIN Properties(u) : t = Properties(u)[i].type
  BY DEF PropertyTypes
<1>2. IsRegistered(u)
  BY <1>1 DEF Properties
<1> DEFINE c == u[2]
<1>3. c \in DOMAIN classes /\ Properties(<<"class", c>>) = Properties(u)
  BY <1>2 DEF Properties, IsRegistered, Kind
<1> HIDE DEF c
<1>4. t \in PropertyTypes(<<"class", c>>)
  BY <1>1, <1>3 DEF PropertyTypes
<1> QED
  BY <1>3, <1>4 DEF ClassTypes, Types

LEMMA RootInClassTypes ==
    ASSUME NEW t \in {roots[i] : i \in DOMAIN roots}, IsClass(t)
    PROVE  t \in ClassTypes
  BY DEF ClassTypes, Types

LEMMA PathStep ==
    ASSUME Stacked, Path, [Next]_vars
    PROVE  Path'
<1>1. /\ ClassTypes' = ClassTypes
      /\ \A t : PropertyTypes(t)' = PropertyTypes(t)
  BY SameProgram, SameTypes
<1>2. Len(stack) \in Nat /\ (stack = <<>> <=> Len(stack) = 0)
  BY Calls
<1> SUFFICES
      /\ \A i \in 1 .. Len(stack') : stack'[i].type \in ClassTypes
      /\ \A i \in 1 .. Len(stack') - 1 :
            stack'[i + 1].type \in PropertyTypes(stack'[i].type)
  BY <1>1 DEF Path
<1>3. CASE UNCHANGED <<stack, defs, refs>>
  BY <1>3 DEF Path
<1>4. ASSUME NEW t, Refer(t)
      PROVE  /\ \A i \in 1 .. Len(stack') : stack'[i].type \in ClassTypes
             /\ \A i \in 1 .. Len(stack') - 1 :
                   stack'[i + 1].type \in PropertyTypes(stack'[i].type)
  <2>1. Len(stack') = Len(stack) /\ \A i \in 1 .. Len(stack) : stack'[i].type = stack[i].type
    BY <1>4 DEF Refer, SameCalls
  <2>2. \A i \in 1 .. Len(stack) - 1 : i \in 1 .. Len(stack) /\ i + 1 \in 1 .. Len(stack)
    BY <1>2
  <2> QED
    BY <2>1, <2>2 DEF Path
<1>5. ASSUME NEW t, Enter(t),
             \/ stack = <<>> /\ t \in {roots[i] : i \in DOMAIN roots}
             \/ stack # <<>> /\ t \in PropertyTypes(Top.type)
      PROVE  /\ \A i \in 1 .. Len(stack') : stack'[i].type \in ClassTypes
             /\ \A i \in 1 .. Len(stack') - 1 :
                   stack'[i + 1].type \in PropertyTypes(stack'[i].type)
  <2>1. t \in ClassTypes
    BY <1>5, PropertyInClassTypes, RootInClassTypes DEF Enter
  <2>2. /\ Len(stack') = Len(stack) + 1
        /\ \A i \in 1 .. Len(stack) : stack'[i].type = stack[i].type
        /\ stack'[Len(stack) + 1].type = t
    BY <1>5 DEF Enter
  <2>3. ASSUME NEW i \in 1 .. Len(stack)
        PROVE  stack'[i + 1].type \in PropertyTypes(stack'[i].type)
    <3>1. CASE i = Len(stack)
      BY <1>2, <1>5, <2>2, <3>1 DEF Top
    <3>2. CASE i # Len(stack)
      <4>1. i \in 1 .. Len(stack) - 1 /\ i + 1 \in 1 .. Len(stack)
        BY <1>2, <3>2
      <4> QED
        BY <2>2, <4>1 DEF Path
    <3> QED
      BY <3>1, <3>2
  <2>4. /\ \A i \in 1 .. Len(stack') : i \in 1 .. Len(stack) \/ i = Len(stack) + 1
        /\ 1 .. Len(stack') - 1 = 1 .. Len(stack)
    BY <1>2, <2>2
  <2> QED
    BY <2>1, <2>2, <2>3, <2>4 DEF Path
<1>6. CASE Leave
  <2>1. /\ Len(stack') = Len(stack) - 1
        /\ \A i \in 1 .. Len(stack') : stack'[i].type = stack[i].type
        /\ \A i \in 1 .. Len(stack') : i \in 1 .. Len(stack)
        /\ \A i \in 1 .. Len(stack') - 1 :
              i \in 1 .. Len(stack') /\ i + 1 \in 1 .. Len(stack') /\ i \in 1 .. Len(stack) - 1
    BY <1>2, <1>6 DEF Leave
  <2>2. ASSUME NEW i \in 1 .. Len(stack') - 1
        PROVE  stack'[i + 1].type \in PropertyTypes(stack'[i].type)
    <3>1. stack'[i + 1].type = stack[i + 1].type /\ stack'[i].type = stack[i].type
      BY <2>1
    <3>2. stack[i + 1].type \in PropertyTypes(stack[i].type)
      BY <2>1 DEF Path
    <3> QED
      BY <3>1, <3>2
  <2> QED
    BY <2>1, <2>2 DEF Path
<1> QED
  BY <1>3, <1>4, <1>5, <1>6, StepCases

(* A class that is entered has no call in progress: else the calls from    *)
(* that one on would be a cycle of classes.                                *)
LEMMA EnteredIsNew ==
    ASSUME Stacked, Path, order = NameFirst \/ Acyclic, NEW t, Enter(t),
           stack = <<>> \/ t \in PropertyTypes(Top.type)
    PROVE  \A i \in 1 .. Len(stack) : stack[i].type # t
<1>1. CASE order = NameFirst
  BY <1>1, Calls DEF Enter, Known
<1>2. CASE Acyclic
  <2> SUFFICES ASSUME NEW i \in 1 .. Len(stack), stack[i].type = t
               PROVE  FALSE
    OBVIOUS
  <2> DEFINE S == {stack[k].type : k \in i .. Len(stack)}
  <2>1. Len(stack) \in Nat /\ i \in i .. Len(stack) /\ stack # <<>>
        /\ \A k \in i .. Len(stack) : k \in 1 .. Len(stack)
    BY Calls
  <2>2. S \in (SUBSET ClassTypes) \ {{}} /\ t \in S
    BY <2>1 DEF Path
  <2>3. ASSUME NEW k \in i .. Len(stack)
        PROVE  PropertyTypes(stack[k].type) \cap S # {}
    <3>1. CASE k = Len(stack)
      BY <2>1, <2>2, <3>1 DEF Top
    <3>2. CASE k # Len(stack)
      <4>1. k \in 1 .. Len(stack) - 1 /\ k + 1 \in i .. Len(stack)
        BY <2>1, <3>2
      <4>2. stack[k + 1].type \in S /\ stack[k + 1].type \in PropertyTypes(stack[k].type)
        BY <4>1 DEF Path
      <4> QED
        BY <4>2
    <3> QED
      BY <3>1, <3>2
  <2>4. \A u \in S : PropertyTypes(u) \cap S # {}
    BY <2>3
  <2> HIDE DEF S
  <2> QED
    BY <1>2, <2>2, <2>4 DEF Acyclic
<1> QED
  BY <1>1, <1>2

LEMMA FreshStep ==
    ASSUME Stacked, Path, Fresh, [Next]_vars
    PROVE  Fresh'
<1>1. (Acyclic' <=> Acyclic) /\ order' = order
  BY SameProgram, SameTypes
<1>2. Len(stack) \in Nat /\ (stack = <<>> <=> Len(stack) = 0)
  BY Calls
<1> SUFFICES ASSUME order = NameFirst \/ Acyclic
             PROVE  /\ \A i, j \in 1 .. Len(stack') :
                          stack'[i].type = stack'[j].type => i = j
                    /\ \A i \in 1 .. Len(stack') : stack'[i].type \notin defs'
  BY <1>1 DEF Fresh
<1>3. /\ \A i, j \in 1 .. Len(stack) : stack[i].type = stack[j].type => i = j
      /\ \A i \in 1 .. Len(stack) : stack[i].type \notin defs
  BY DEF Fresh
<1>4. CASE UNCHANGED <<stack, defs, refs>>
  BY <1>3, <1>4
<1>5. ASSUME NEW t, Refer(t)
      PROVE  /\ \A i, j \in 1 .. Len(stack') : stack'[i].type = stack'[j].type => i = j
             /\ \A i \in 1 .. Len(stack') : stack'[i].type \notin defs'
  BY <1>3, <1>5 DEF Refer, SameCalls
<1>6. ASSUME NEW t, Enter(t), stack = <<>> \/ t \in PropertyTypes(Top.type)
      PROVE  /\ \A i, j \in 1 .. Len(stack') : stack'[i].type = stack'[j].type => i = j
             /\ \A i \in 1 .. Len(stack') : stack'[i].type \notin defs'
  <2>1. \A i \in 1 .. Len(stack) : stack[i].type # t
    BY <1>6, EnteredIsNew
  <2>2. /\ Len(stack') = Len(stack) + 1
        /\ \A i \in 1 .. Len(stack) : stack'[i].type = stack[i].type
        /\ stack'[Len(stack) + 1].type = t /\ defs' = defs /\ t \notin defs
    BY <1>6 DEF Enter, Known
  <2>3. \A i \in 1 .. Len(stack') : i \in 1 .. Len(stack) \/ i = Len(stack) + 1
    BY <1>2, <2>2
  <2> QED
    BY <1>3, <2>1, <2>2, <2>3
<1>7. CASE Leave
  <2>1. /\ \A i \in 1 .. Len(stack') : /\ i \in 1 .. Len(stack) /\ i # Len(stack)
                                       /\ stack'[i].type = stack[i].type
        /\ Len(stack) \in 1 .. Len(stack)
        /\ defs' = defs \cup {stack[Len(stack)].type}
    BY <1>2, <1>7 DEF Leave
  <2> QED
    BY <1>3, <2>1
<1> QED
  BY <1>4, <1>5, <1>6, <1>7, StepCases

(* Each class is described by one call at a time and never again, unless a *)
(* class contains itself and the value is evaluated first.                 *)
THEOREM EachClassOnce == Spec => []DescribedOnce
<1>1. Init => Stacked /\ Path /\ Fresh
  BY InitStacked DEF Path, Fresh
<1>2. Stacked /\ Path /\ Fresh /\ [Next]_vars => (Stacked /\ Path /\ Fresh)'
  BY StepCases, PathStep, FreshStep
<1>3. Stacked /\ Path /\ Fresh => DescribedOnce
  <2> SUFFICES ASSUME Stacked, Fresh, order = NameFirst \/ Acyclic
               PROVE  /\ \A i, j \in DOMAIN stack : stack[i].type = stack[j].type => i = j
                      /\ InProgress(stack) \cap defs = {}
    BY DEF DescribedOnce
  <2> QED
    BY Calls DEF Fresh
<1> QED
  BY <1>1, <1>2, <1>3, PTL DEF Spec

-----------------------------------------------------------------------------
(* The thread's stack.                                                     *)

(* Calls about different classes of the program are at most as many.       *)
LEMMA CallsBounded ==
    ASSUME Stacked, Path, Fresh, order = NameFirst \/ Acyclic, IsFiniteSet(ClassTypes)
    PROVE  Len(stack) <= Cardinality(ClassTypes)
<1> DEFINE f == [i \in 1 .. Len(stack) |-> stack[i].type]
<1>1. Len(stack) \in Nat
  BY Calls
<1>2. f \in [1 .. Len(stack) -> ClassTypes]
  BY DEF Path
<1>3. \A i, j \in 1 .. Len(stack) : f[i] = f[j] => i = j
  BY DEF Fresh
<1> HIDE DEF f
<1>4. f \in Injection(1 .. Len(stack), ClassTypes)
  BY <1>2, <1>3 DEF Injection, IsInjective
<1>5. Cardinality(1 .. Len(stack)) <= Cardinality(ClassTypes)
  BY <1>4, FS_Injection
<1>6. Cardinality(1 .. Len(stack)) = Len(stack)
  BY <1>1, FS_Interval
<1> QED
  BY <1>5, <1>6

(* A stack with room for one call per class of the program.                *)
RoomForAll == IsFiniteSet(ClassTypes) /\ Cardinality(ClassTypes) <= MaxDepth

NeverOverflows == (order = NameFirst \/ Acyclic) /\ RoomForAll => up

LEMMA RoomStep ==
    ASSUME Stacked, Path, Fresh, NeverOverflows, [Next]_vars
    PROVE  NeverOverflows'
<1>1. ClassTypes' = ClassTypes /\ (Acyclic' <=> Acyclic) /\ order' = order
  BY SameProgram, SameTypes
<1> SUFFICES ASSUME order = NameFirst \/ Acyclic, RoomForAll
             PROVE  up'
  BY <1>1 DEF NeverOverflows, RoomForAll
<1>2. up
  BY DEF NeverOverflows
<1>3. ~Overflow
  <2>1. Len(stack) <= Cardinality(ClassTypes) /\ Cardinality(ClassTypes) <= MaxDepth
    BY CallsBounded DEF RoomForAll
  <2>2. Len(stack) \in Nat /\ Cardinality(ClassTypes) \in Nat /\ MaxDepth \in Nat
    BY Calls, DepthAssumption, FS_CardinalityType DEF RoomForAll
  <2> QED
    BY <2>1, <2>2 DEF Overflow
<1> QED
  BY <1>2, <1>3, NextCases DEF DescribeRoot, DescribeProperty, Define, vars

(* The description never overflows the thread's stack when this has room   *)
(* for one call per class the program declares, unless a class contains    *)
(* itself and the value is evaluated first: how deep                       *)
(* create_class_definition recurses is bounded by the declarations.        *)
THEOREM StackSuffices == Spec => []NeverOverflows
<1>1. Init => Stacked /\ Path /\ Fresh /\ NeverOverflows
  BY InitStacked DEF Init, Path, Fresh, NeverOverflows
<1>2. Stacked /\ Path /\ Fresh /\ NeverOverflows /\ [Next]_vars
         => (Stacked /\ Path /\ Fresh /\ NeverOverflows)'
  BY StepCases, PathStep, FreshStep, RoomStep
<1> QED
  BY <1>1, <1>2, PTL DEF Spec

-----------------------------------------------------------------------------
(* The finished schema contains everything it speaks of.  What a call has  *)
(* been described up to its next property, and the parameters up to the    *)
(* next one, has been encountered: it is defined or being defined.         *)

Encountered == defs \cup InProgress(stack)

ClassesOf(T) == {t \in T : IsClass(t)}

Lists == IsList(roots) /\ \A c \in DOMAIN classes : IsList(classes[c].props)

Bounds ==
    /\ root \in 1 .. Len(roots) + 1
    /\ \A i \in 1 .. Len(stack) :
          stack[i].next \in 1 .. Len(Properties(stack[i].type)) + 1

Covered ==
    /\ \A d \in defs : ClassesOf(PropertyTypes(d)) \subseteq Encountered
    /\ \A i \in 1 .. Len(stack) : \A k \in 1 .. stack[i].next - 1 :
          ClassesOf({Properties(stack[i].type)[k].type}) \subseteq Encountered
    /\ \A r \in 1 .. root - 1 : ClassesOf({roots[r]}) \subseteq Encountered

ClosureInv == Stacked /\ Lists /\ Bounds /\ Covered

(* In the finished schema each class that a parameter, the result or a     *)
(* property of a defined class has as its type is defined itself.          *)
SelfContained ==
    Described =>
        /\ \A d \in defs : ClassesOf(PropertyTypes(d)) \subseteq defs
        /\ ClassesOf({roots[r] : r \in DOMAIN roots}) \subseteq defs

LEMMA PropertiesList ==
    ASSUME Lists, NEW t
    PROVE  IsList(Properties(t))
<1>1. IsList(<<>>)
  BY DEF IsList
<1> QED
  BY <1>1 DEF Lists, Properties, IsRegistered

LEMMA SameProperties ==
    ASSUME UNCHANGED declVars
    PROVE  /\ \A t : Properties(t)' = Properties(t) /\ PropertyTypes(t)' = PropertyTypes(t)
           /\ roots' = roots
<1>1. classes' = classes /\ roots' = roots
  BY DEF declVars
<1>2. \A t : Properties(t)' = Properties(t)
  BY <1>1 DEF Properties, IsRegistered
<1> QED
  BY <1>1, <1>2 DEF PropertyTypes

(* A call that goes on to its next property keeps the others as they are.  *)
LEMMA AdvanceNext ==
    ASSUME NEW s, IsStack(s), s # <<>>
    PROVE  LET a == [s EXCEPT ![Len(s)].next = @ + 1]
           IN  /\ Len(s) \in 1 .. Len(s) /\ s[Len(s)].next \in Nat
               /\ a[Len(s)].next = s[Len(s)].next + 1
               /\ \A i \in 1 .. Len(s) - 1 : a[i] = s[i]
<1>1. PICK T : s \in Seq(Frames(T))
  BY DEF IsStack
<1> DEFINE n == Len(s)
           f == [s[n] EXCEPT !.next = @ + 1]
           a == [s EXCEPT ![n] = f]
<1>2. n \in Nat \ {0} /\ n \in 1 .. Len(s) /\ s[n] \in Frames(T)
  BY <1>1, EmptySeq, ElementOfSeq
<1>3. f \in Frames(T) /\ f.next = s[n].next + 1 /\ s[n].next \in Nat
  BY <1>2 DEF Frames
<1> HIDE DEF f, n
<1>4. \A j \in 1 .. Len(s) : a[j] = IF j = n THEN f ELSE s[j]
  BY <1>1, <1>2, <1>3, ExceptSeq
<1>5. \A j \in 1 .. n - 1 : j \in 1 .. Len(s) /\ j # n
  BY <1>2 DEF n
<1>6. a = [s EXCEPT ![Len(s)].next = @ + 1]
  BY DEF f, n
<1> QED
  BY <1>2, <1>3, <1>4, <1>5, <1>6 DEF n

LEMMA PushNext ==
    ASSUME NEW s, IsStack(s), NEW t
    PROVE  Append(s, [type |-> t, next |-> 1])[Len(s) + 1].next = 1
<1>1. PICK T : s \in Seq(Frames(T))
  BY DEF IsStack
<1> DEFINE e == [type |-> t, next |-> 1]
<1>2. Frames(T) \subseteq Frames(T \cup {t}) /\ e \in Frames(T \cup {t}) /\ e.next = 1
  BY DEF Frames
<1>3. s \in Seq(Frames(T \cup {t}))
  BY <1>1, <1>2, SeqMonotonic
<1> HIDE DEF e
<1>4. Append(s, e)[Len(s) + 1] = e
  BY <1>3
<1> QED
  BY <1>2, <1>4 DEF e

LEMMA EncounteredIs ==
    ASSUME Stacked
    PROVE  Encountered = defs \cup {stack[i].type : i \in 1 .. Len(stack)}
BY Calls DEF Encountered

(* What the description of a type does to the calls and to the classes     *)
(* that have been encountered.                                             *)
Referring(t, s) == stack' = s /\ Encountered' = Encountered

Entering(t, s) ==
    /\ IsClass(t) /\ t \notin Known
    /\ Len(stack') = Len(s) + 1
    /\ \A i \in 1 .. Len(s) : stack'[i] = s[i]
    /\ stack'[Len(s) + 1].type = t /\ stack'[Len(s) + 1].next = 1
    /\ Encountered' = Encountered \cup {t}

LEMMA DescribeDetails ==
    ASSUME Stacked, NEW s, IsStack(s), SameCalls(s, stack), NEW t,
           Describe(t, s), defs' = defs
    PROVE  /\ Stacked'
           /\ Referring(t, s) \/ Entering(t, s)
           /\ Encountered \subseteq Encountered'
           /\ IsClass(t) => t \in Encountered'
<1>1. Len(stack) \in Nat /\ Len(s) = Len(stack)
      /\ {s[i].type : i \in 1 .. Len(s)} = {stack[i].type : i \in 1 .. Len(stack)}
  BY Calls DEF SameCalls
<1>2. Stacked'
  BY DescribeCases
<1>3. /\ Encountered  = defs \cup {stack[i].type  : i \in 1 .. Len(stack)}
      /\ Encountered' = defs \cup {stack'[i].type : i \in 1 .. Len(stack')}
  <2>1. DOMAIN stack' = 1 .. Len(stack')
    BY <1>2, StackLength DEF Stacked
  <2> QED
    BY <2>1, EncounteredIs DEF Encountered, InProgress
<1>4. Known \subseteq Encountered
  BY DEF Known, Encountered
<1>5. CASE IsClass(t) /\ t \notin Known
  <2>1. stack' = Append(s, [type |-> t, next |-> 1])
    BY <1>5 DEF Describe
  <2>2. /\ Len(stack') = Len(s) + 1
        /\ \A i \in 1 .. Len(s) : stack'[i] = s[i]
        /\ stack'[Len(s) + 1].type = t
    BY <2>1, Push
  <2>3. stack'[Len(s) + 1].next = 1
    BY <2>1, PushNext
  <2>4. {stack'[i].type : i \in 1 .. Len(stack')}
           = {stack[i].type : i \in 1 .. Len(stack)} \cup {t}
    <3>1. 1 .. Len(stack') = 1 .. Len(s) \cup {Len(s) + 1}
      BY <1>1, <2>2
    <3>2. {stack'[i].type : i \in 1 .. Len(stack')}
             = {stack'[i].type : i \in 1 .. Len(s)} \cup {stack'[Len(s) + 1].type}
      BY <3>1
    <3>3. {stack'[i].type : i \in 1 .. Len(s)} = {s[i].type : i \in 1 .. Len(s)}
      BY <2>2
    <3> QED
      BY <1>1, <2>2, <3>2, <3>3
  <2>5. Encountered' = Encountered \cup {t}
    BY <1>3, <2>4
  <2> QED
    BY <1>2, <1>5, <2>2, <2>3, <2>5 DEF Entering
<1>6. CASE ~(IsClass(t) /\ t \notin Known)
  <2>1. stack' = s
    BY <1>6 DEF Describe
  <2>2. Encountered' = Encountered
    BY <1>1, <1>3, <2>1
  <2> QED
    BY <1>2, <1>4, <1>6, <2>1, <2>2 DEF Referring
<1> QED
  BY <1>5, <1>6

(* The steps in detail.                                                    *)
LEMMA RootDetails ==
    ASSUME Stacked, DescribeRoot
    PROVE  /\ root \in DOMAIN roots /\ root' = root + 1 /\ Len(stack) = 0 /\ Stacked'
           /\ Referring(roots[root], stack) \/ Entering(roots[root], stack)
           /\ Encountered \subseteq Encountered'
           /\ IsClass(roots[root]) => roots[root] \in Encountered'
<1>1. SameCalls(stack, stack)
  BY DEF SameCalls
<1>2. Describe(roots[root], stack) /\ defs' = defs
  BY DEF DescribeRoot
<1> QED
  BY <1>1, <1>2, DescribeDetails, Calls DEF DescribeRoot, Stacked

Onward == [stack EXCEPT ![Len(stack)].next = @ + 1]

NextType == Properties(Top.type)[Top.next].type

LEMMA PropertyDetails ==
    ASSUME Stacked, DescribeProperty
    PROVE  /\ Len(stack) \in 1 .. Len(stack) /\ Top.next \in DOMAIN Properties(Top.type)
           /\ root' = root /\ Stacked' /\ defs' = defs
           /\ SameCalls(Onward, stack) /\ Onward[Len(stack)].next = Top.next + 1
           /\ \A i \in 1 .. Len(stack) - 1 : Onward[i] = stack[i]
           /\ Referring(NextType, Onward) \/ Entering(NextType, Onward)
           /\ Encountered \subseteq Encountered'
           /\ IsClass(NextType) => NextType \in Encountered'
<1>1. stack # <<>> /\ Describe(NextType, Onward) /\ defs' = defs /\ root' = root
      /\ Top.next \in DOMAIN Properties(Top.type)
  BY DEF DescribeProperty, NextType, Onward
<1>2. IsStack(Onward) /\ SameCalls(Onward, stack)
  BY <1>1, Advance DEF Stacked, SameCalls, Onward
<1>3. /\ Len(stack) \in 1 .. Len(stack) /\ Onward[Len(stack)].next = Top.next + 1
      /\ \A i \in 1 .. Len(stack) - 1 : Onward[i] = stack[i]
  BY <1>1, AdvanceNext DEF Stacked, Onward, Top
<1> HIDE DEF Onward, NextType
<1> QED
  BY <1>1, <1>2, <1>3, DescribeDetails

LEMMA DefineDetails ==
    ASSUME Stacked, Define
    PROVE  /\ Len(stack) \in 1 .. Len(stack) /\ Top.next \notin DOMAIN Properties(Top.type)
           /\ root' = root /\ Stacked' /\ defs' = defs \cup {Top.type}
           /\ Len(stack') = Len(stack) - 1
           /\ \A i \in 1 .. Len(stack) - 1 : stack'[i] = stack[i]
           /\ Encountered' = Encountered
<1>1. /\ stack # <<>> /\ stack' = SubSeq(stack, 1, Len(stack) - 1)
      /\ defs' = defs \cup {Top.type} /\ root' = root
      /\ Top.next \notin DOMAIN Properties(Top.type)
  BY DEF Define
<1>2. /\ IsStack(stack') /\ Len(stack') = Len(stack) - 1
      /\ \A i \in 1 .. Len(stack) - 1 : stack'[i] = stack[i]
  BY <1>1, Pop DEF Stacked
<1>3. Len(stack) \in Nat /\ Len(stack) \in 1 .. Len(stack) /\ Stacked'
  BY <1>1, <1>2, Calls DEF Stacked
<1>4. Encountered' = Encountered
  <2>1. DOMAIN stack' = 1 .. Len(stack')
    BY <1>2, StackLength
  <2>2. Encountered' = defs' \cup {stack'[i].type : i \in 1 .. Len(stack')}
    BY <2>1 DEF Encountered, InProgress
  <2>3. 1 .. Len(stack) = 1 .. Len(stack') \cup {Len(stack)}
    BY <1>2, <1>3
  <2>4. {stack[i].type : i \in 1 .. Len(stack)}
           = {stack[i].type : i \in 1 .. Len(stack')} \cup {Top.type}
    BY <2>3 DEF Top
  <2>5. {stack'[i].type : i \in 1 .. Len(stack')} = {stack[i].type : i \in 1 .. Len(stack')}
    BY <1>2
  <2> QED
    BY <1>1, <2>2, <2>4, <2>5, EncounteredIs
<1> QED
  BY <1>1, <1>2, <1>3, <1>4

LEMMA SameLists ==
    ASSUME Lists, UNCHANGED declVars
    PROVE  Lists'
<1>1. classes' = classes /\ roots' = roots
  BY DEF declVars
<1> QED
  BY <1>1 DEF Lists

LEMMA BoundsStep ==
    ASSUME ClosureInv, [Next]_vars
    PROVE  Bounds'
<1>1. /\ \A t : Properties(t)' = Properties(t)
      /\ roots' = roots
  BY SameProgram, SameProperties
<1>2. Stacked /\ Lists /\ Bounds /\ Len(stack) \in Nat
  BY Calls DEF ClosureInv
<1>3. /\ root \in 1 .. Len(roots) + 1 /\ Len(roots) \in Nat /\ DOMAIN roots = 1 .. Len(roots)
      /\ \A t : Len(Properties(t)) \in Nat /\ DOMAIN Properties(t) = 1 .. Len(Properties(t))
      /\ \A i \in 1 .. Len(stack) :
            stack[i].next \in 1 .. Len(Properties(stack[i].type)) + 1
  BY <1>2, PropertiesList DEF Bounds, Lists, IsList
<1> SUFFICES /\ root' \in 1 .. Len(roots) + 1
             /\ \A i \in 1 .. Len(stack') :
                   stack'[i].next \in 1 .. Len(Properties(stack'[i].type)) + 1
  BY <1>1 DEF Bounds
<1>4. CASE DescribeRoot
  <2>1. /\ root \in DOMAIN roots /\ root' = root + 1 /\ Len(stack) = 0
        /\ Referring(roots[root], stack) \/ Entering(roots[root], stack)
    BY <1>2, <1>4, RootDetails
  <2>2. ASSUME NEW i \in 1 .. Len(stack') PROVE i = 1 /\ stack'[i].next = 1
    <3>1. ~Referring(roots[root], stack)
      BY <2>1 DEF Referring
    <3>2. /\ Len(stack) + 1 = 1 /\ Len(stack') = Len(stack) + 1
          /\ stack'[Len(stack) + 1].next = 1
      BY <2>1, <3>1 DEF Entering
    <3>3. i = Len(stack) + 1
      BY <3>2
    <3> QED
      BY <3>2, <3>3
  <2> QED
    BY <1>3, <2>1, <2>2
<1>5. CASE DescribeProperty
  <2>1. /\ Len(stack) \in 1 .. Len(stack) /\ Top.next \in DOMAIN Properties(Top.type)
        /\ root' = root /\ SameCalls(Onward, stack) /\ Onward[Len(stack)].next = Top.next + 1
        /\ \A i \in 1 .. Len(stack) - 1 : Onward[i] = stack[i]
        /\ Referring(NextType, Onward) \/ Entering(NextType, Onward)
    BY <1>2, <1>5, PropertyDetails
  <2>2. /\ Len(Onward) = Len(stack)
        /\ \A i \in 1 .. Len(stack) : Onward[i].type = stack[i].type
    BY <2>1 DEF SameCalls
  <2>3. ASSUME NEW i \in 1 .. Len(stack)
        PROVE  Onward[i].next \in 1 .. Len(Properties(Onward[i].type)) + 1
    <3>1. CASE i = Len(stack)
      <4>1. Onward[i].next = Top.next + 1 /\ Onward[i].type = Top.type
        BY <2>1, <2>2, <3>1 DEF Top
      <4>2. Top.next \in 1 .. Len(Properties(Top.type))
        BY <1>3, <2>1
      <4> QED
        BY <1>3, <4>1, <4>2
    <3>2. CASE i # Len(stack)
      <4>1. i \in 1 .. Len(stack) - 1
        BY <1>2, <3>2
      <4> QED
        BY <1>3, <2>1, <4>1
    <3> QED
      BY <3>1, <3>2
  <2>4. CASE Referring(NextType, Onward)
    BY <1>3, <2>1, <2>2, <2>3, <2>4 DEF Referring
  <2>5. CASE Entering(NextType, Onward)
    <3>1. \A i \in 1 .. Len(stack') : i \in 1 .. Len(stack) \/ i = Len(stack) + 1
      BY <1>2, <2>2, <2>5 DEF Entering
    <3>2. \A i \in 1 .. Len(stack) : stack'[i] = Onward[i]
      BY <2>2, <2>5 DEF Entering
    <3>3. stack'[Len(stack) + 1].next = 1
      BY <2>2, <2>5 DEF Entering
    <3>4. \A t : 1 \in 1 .. Len(Properties(t)) + 1
      BY <1>3
    <3>5. ASSUME NEW i \in 1 .. Len(stack')
          PROVE  stack'[i].next \in 1 .. Len(Properties(stack'[i].type)) + 1
      <4>1. CASE i \in 1 .. Len(stack)
        BY <2>3, <3>2, <4>1
      <4>2. CASE i = Len(stack) + 1
        BY <3>3, <3>4, <4>2
      <4> QED
        BY <3>1, <4>1, <4>2
    <3> QED
      BY <1>3, <2>1, <3>5
  <2> QED
    BY <2>1, <2>4, <2>5
<1>6. CASE Define
  <2>1. /\ root' = root /\ Len(stack') = Len(stack) - 1
        /\ \A i \in 1 .. Len(stack) - 1 : stack'[i] = stack[i]
    BY <1>2, <1>6, DefineDetails
  <2>2. \A i \in 1 .. Len(stack') : i \in 1 .. Len(stack) /\ stack'[i] = stack[i]
    BY <1>2, <2>1
  <2> QED
    BY <1>3, <2>1, <2>2
<1>7. CASE Overflow \/ UNCHANGED vars
  BY <1>3, <1>7 DEF Overflow, vars
<1> QED
  BY <1>4, <1>5, <1>6, <1>7, NextCases

LEMMA CoveredStep ==
    ASSUME ClosureInv, [Next]_vars
    PROVE  Covered'
<1>1. /\ \A t : Properties(t)' = Properties(t) /\ PropertyTypes(t)' = PropertyTypes(t)
      /\ roots' = roots
  BY SameProgram, SameProperties
<1>2. Stacked /\ Lists /\ Bounds /\ Covered /\ Len(stack) \in Nat
  BY Calls DEF ClosureInv
<1>3. /\ root \in 1 .. Len(roots) + 1 /\ Len(roots) \in Nat /\ DOMAIN roots = 1 .. Len(roots)
      /\ \A t : Len(Properties(t)) \in Nat /\ DOMAIN Properties(t) = 1 .. Len(Properties(t))
      /\ \A i \in 1 .. Len(stack) :
            stack[i].next \in 1 .. Len(Properties(stack[i].type)) + 1
  BY <1>2, PropertiesList DEF Bounds, Lists, IsList
<1> DEFINE Seen(t)  == ClassesOf({t}) \subseteq Encountered
           Later(t) == ClassesOf({t}) \subseteq Encountered'
<1>4. /\ \A d \in defs : ClassesOf(PropertyTypes(d)) \subseteq Encountered
      /\ \A i \in 1 .. Len(stack) : \A k \in 1 .. stack[i].next - 1 :
            Seen(Properties(stack[i].type)[k].type)
      /\ \A r \in 1 .. root - 1 : Seen(roots[r])
  BY <1>2 DEF Covered
<1>5. \A t : IsClass(t)' <=> IsClass(t)
  BY DEF IsClass, Kind
<1> SUFFICES
      /\ \A d \in defs' : ClassesOf(PropertyTypes(d)) \subseteq Encountered'
      /\ \A i \in 1 .. Len(stack') : \A k \in 1 .. stack'[i].next - 1 :
            Later(Properties(stack'[i].type)[k].type)
      /\ \A r \in 1 .. root' - 1 : Later(roots[r])
  BY <1>1, <1>5 DEF Covered, ClassesOf
<1>6. ASSUME Encountered \subseteq Encountered'
      PROVE  /\ \A t : Seen(t) => Later(t)
             /\ \A d \in defs : ClassesOf(PropertyTypes(d)) \subseteq Encountered'
  BY <1>4, <1>6
<1>7. ASSUME NEW t, IsClass(t) => t \in Encountered'
      PROVE  Later(t)
  BY <1>7 DEF ClassesOf
<1> HIDE DEF Seen, Later
<1>8. CASE DescribeRoot
  <2>1. /\ root \in DOMAIN roots /\ root' = root + 1 /\ Len(stack) = 0
        /\ Referring(roots[root], stack) \/ Entering(roots[root], stack)
        /\ Encountered \subseteq Encountered' /\ Later(roots[root]) /\ defs' = defs
    BY <1>2, <1>7, <1>8, RootDetails DEF DescribeRoot
  <2>2. ASSUME NEW i \in 1 .. Len(stack') PROVE stack'[i].next = 1
    <3>1. ~Referring(roots[root], stack)
      BY <2>1 DEF Referring
    <3>2. /\ Len(stack) + 1 = 1 /\ Len(stack') = Len(stack) + 1
          /\ stack'[Len(stack) + 1].next = 1
      BY <2>1, <3>1 DEF Entering
    <3>3. i = Len(stack) + 1
      BY <3>2
    <3> QED
      BY <3>2, <3>3
  <2>3. \A i \in 1 .. Len(stack') : 1 .. stack'[i].next - 1 = {}
    BY <2>2
  <2>4. \A r \in 1 .. root' - 1 : r \in 1 .. root - 1 \/ r = root
    BY <1>3, <2>1
  <2> QED
    BY <1>4, <1>6, <2>1, <2>3, <2>4
<1>9. CASE DescribeProperty
  <2>1. /\ Len(stack) \in 1 .. Len(stack) /\ Top.next \in DOMAIN Properties(Top.type)
        /\ root' = root /\ defs' = defs
        /\ SameCalls(Onward, stack) /\ Onward[Len(stack)].next = Top.next + 1
        /\ \A i \in 1 .. Len(stack) - 1 : Onward[i] = stack[i]
        /\ Referring(NextType, Onward) \/ Entering(NextType, Onward)
        /\ Encountered \subseteq Encountered' /\ Later(NextType)
    BY <1>2, <1>7, <1>9, PropertyDetails
  <2>2. /\ Len(Onward) = Len(stack)
        /\ \A i \in 1 .. Len(stack) : Onward[i].type = stack[i].type
    BY <2>1 DEF SameCalls
  <2>3. ASSUME NEW i \in 1 .. Len(stack), NEW k \in 1 .. Onward[i].next - 1
        PROVE  Later(Properties(Onward[i].type)[k].type)
    <3>1. CASE i = Len(stack)
      <4>1. Onward[i].next = Top.next + 1 /\ Onward[i].type = Top.type /\ Top = stack[i]
        BY <2>1, <2>2, <3>1 DEF Top
      <4>2. Top.next \in Nat
        BY <1>3, <2>1
      <4>3. k \in 1 .. Top.next - 1 \/ k = Top.next
        BY <4>1, <4>2
      <4>4. CASE k = Top.next
        BY <2>1, <4>1, <4>4 DEF NextType
      <4>5. CASE k \in 1 .. Top.next - 1
        BY <1>4, <1>6, <2>1, <4>1, <4>5
      <4> QED
        BY <4>3, <4>4, <4>5
    <3>2. CASE i # Len(stack)
      <4>1. i \in 1 .. Len(stack) - 1
        BY <1>2, <3>2
      <4>2. Onward[i] = stack[i]
        BY <2>1, <4>1
      <4> QED
        BY <1>4, <1>6, <2>1, <2>3, <4>2
    <3> QED
      BY <3>1, <3>2
  <2>4. CASE Referring(NextType, Onward)
    BY <1>4, <1>6, <2>1, <2>2, <2>3, <2>4 DEF Referring
  <2>5. CASE Entering(NextType, Onward)
    <3>1. \A i \in 1 .. Len(stack') : i \in 1 .. Len(stack) \/ i = Len(stack) + 1
      BY <1>2, <2>2, <2>5 DEF Entering
    <3>2. \A i \in 1 .. Len(stack) : stack'[i] = Onward[i]
      BY <2>2, <2>5 DEF Entering
    <3>3. stack'[Len(stack) + 1].next = 1
      BY <2>2, <2>5 DEF Entering
    <3>4. 1 .. stack'[Len(stack) + 1].next - 1 = {}
      BY <3>3
    <3> QED
      BY <1>4, <1>6, <2>1, <2>3, <3>1, <3>2, <3>4
  <2> QED
    BY <2>1, <2>4, <2>5
<1>10. CASE Define
  <2>1. /\ Len(stack) \in 1 .. Len(stack) /\ Top.next \notin DOMAIN Properties(Top.type)
        /\ root' = root /\ defs' = defs \cup {Top.type}
        /\ Len(stack') = Len(stack) - 1
        /\ \A i \in 1 .. Len(stack) - 1 : stack'[i] = stack[i]
        /\ Encountered' = Encountered
    BY <1>2, <1>10, DefineDetails
  <2>2. \A i \in 1 .. Len(stack') : i \in 1 .. Len(stack) /\ stack'[i] = stack[i]
    BY <1>2, <2>1
  <2>3. ClassesOf(PropertyTypes(Top.type)) \subseteq Encountered'
    <3>1. Top.next - 1 = Len(Properties(Top.type)) /\ Top = stack[Len(stack)]
      BY <1>3, <2>1 DEF Top
    <3>2. \A k \in DOMAIN Properties(Top.type) : Later(Properties(Top.type)[k].type)
      BY <1>3, <1>4, <1>6, <2>1, <3>1
    <3> QED
      BY <3>2 DEF PropertyTypes, ClassesOf, Later
  <2> QED
    BY <1>4, <1>6, <2>1, <2>2, <2>3
<1>11. CASE Overflow \/ UNCHANGED vars
  <2>1. UNCHANGED <<stack, defs, root>>
    BY <1>11 DEF Overflow, vars
  <2>2. Encountered' = Encountered
    BY <2>1 DEF Encountered, InProgress
  <2> QED
    BY <1>4, <1>6, <2>1, <2>2
<1> QED
  BY <1>8, <1>9, <1>10, <1>11, NextCases

(* A client that has the description of a method has the definition of     *)
(* every class it can meet in it, to any depth: create_class_definition    *)
(* leaves no class out, whichever order the build evaluates in.            *)
THEOREM SchemaIsClosed == Spec => []SelfContained
<1>1. Init => ClosureInv
  <2> SUFFICES ASSUME Init PROVE ClosureInv
    OBVIOUS
  <2>1. Stacked /\ Len(stack) = 0 /\ defs = {} /\ root = 1
    BY InitStacked DEF Init
  <2>2. Lists
    BY DeclarationsAssumption DEF Init, Lists
  <2>3. Len(roots) \in Nat
    BY <2>2 DEF Lists, IsList
  <2> QED
    BY <2>1, <2>2, <2>3 DEF ClosureInv, Bounds, Covered
<1>2. ClosureInv /\ [Next]_vars => ClosureInv'
  <2> SUFFICES ASSUME ClosureInv, [Next]_vars PROVE ClosureInv'
    OBVIOUS
  <2>1. Stacked' /\ Lists'
    BY StepCases, SameProgram, SameLists DEF ClosureInv
  <2> QED
    BY <2>1, BoundsStep, CoveredStep DEF ClosureInv
<1>3. ClosureInv => SelfContained
  <2> SUFFICES ASSUME ClosureInv, Described
               PROVE  /\ \A d \in defs : ClassesOf(PropertyTypes(d)) \subseteq defs
                      /\ ClassesOf({roots[r] : r \in DOMAIN roots}) \subseteq defs
    BY DEF SelfContained
  <2>1. stack = <<>> /\ root \notin DOMAIN roots
    BY DEF Described
  <2>2. Encountered = defs
    BY <2>1 DEF Encountered, InProgress
  <2>3. DOMAIN roots = 1 .. root - 1
    BY <2>1 DEF ClosureInv, Bounds, Lists, IsList
  <2> QED
    BY <2>2, <2>3 DEF ClosureInv, Covered, ClassesOf
<1> QED
  BY <1>1, <1>2, <1>3, PTL DEF Spec

-----------------------------------------------------------------------------
(* The way to the end of the description.                                  *)

InTypes == Encountered \subseteq ClassTypes

(* A step begins with the next parameter; or else encounters one more      *)
(* class; or else ends a call; or else goes on to the next property of the *)
(* same call.                                                              *)
Advances ==
    \/ ~up'
    \/ root' = root + 1
    \/ /\ root' = root
       /\ \/ Encountered \subseteq Encountered' /\ Encountered' # Encountered
          \/ /\ Encountered' = Encountered
             /\ Len(stack') = Len(stack) - 1 \/ stack' = Onward

(* No class is described within its own description.                       *)
NoLoop == order = NameFirst \/ Acyclic

LEMMA InTypesStep ==
    ASSUME Stacked, InTypes, [Next]_vars
    PROVE  InTypes'
<1>1. ClassTypes' = ClassTypes
  BY SameProgram, SameTypes
<1>2. ASSUME NEW t, NEW s, Referring(t, s) \/ Entering(t, s), IsClass(t) => t \in ClassTypes
      PROVE  InTypes'
  BY <1>1, <1>2 DEF Referring, Entering, InTypes
<1>3. CASE DescribeRoot
  <2>1. /\ root \in DOMAIN roots
        /\ Referring(roots[root], stack) \/ Entering(roots[root], stack)
    BY <1>3, RootDetails
  <2>2. roots[root] \in {roots[i] : i \in DOMAIN roots}
    BY <2>1
  <2> QED
    BY <1>2, <2>1, <2>2, RootInClassTypes
<1>4. CASE DescribeProperty
  <2>1. /\ Top.next \in DOMAIN Properties(Top.type)
        /\ Referring(NextType, Onward) \/ Entering(NextType, Onward)
    BY <1>4, PropertyDetails
  <2>2. NextType \in PropertyTypes(Top.type)
    BY <2>1 DEF NextType, PropertyTypes
  <2> QED
    BY <1>2, <2>1, <2>2, PropertyInClassTypes
<1>5. CASE Define
  BY <1>1, <1>5, DefineDetails DEF InTypes
<1>6. CASE Overflow \/ UNCHANGED vars
  <2>1. UNCHANGED <<stack, defs>>
    BY <1>6 DEF Overflow, vars
  <2> QED
    BY <1>1, <2>1 DEF InTypes, Encountered, InProgress
<1> QED
  BY <1>3, <1>4, <1>5, <1>6, NextCases

(* What is entered has not been encountered before.                        *)
LEMMA EnteringIsNew ==
    ASSUME Stacked, Path, NoLoop, NEW s, IsStack(s), SameCalls(s, stack), NEW t,
           Describe(t, s), defs' = defs, Entering(t, s),
           stack = <<>> \/ t \in PropertyTypes(Top.type)
    PROVE  Encountered \subseteq Encountered' /\ Encountered' # Encountered
<1>1. Enter(t)
  <2>1. Refer(t) \/ Enter(t)
    BY DescribeCases
  <2> QED
    BY <2>1 DEF Entering, Refer
<1>2. \A i \in 1 .. Len(stack) : stack[i].type # t
  BY <1>1, EnteredIsNew DEF NoLoop
<1>3. t \notin Known /\ defs \subseteq Known
  BY DEF Entering, Known
<1>4. t \notin Encountered
  BY <1>2, <1>3, EncounteredIs
<1> QED
  BY <1>4 DEF Entering

LEMMA StepAdvances ==
    ASSUME Stacked, Path, NoLoop, Step
    PROVE  Advances
<1>1. CASE DescribeRoot
  BY <1>1, RootDetails DEF Advances
<1>2. CASE DescribeProperty
  <2>1. /\ root' = root /\ Top.next \in DOMAIN Properties(Top.type)
        /\ SameCalls(Onward, stack)
        /\ Referring(NextType, Onward) \/ Entering(NextType, Onward)
    BY <1>2, PropertyDetails
  <2>2. CASE Referring(NextType, Onward)
    BY <2>1, <2>2 DEF Referring, Advances
  <2>3. CASE Entering(NextType, Onward)
    <3>1. /\ IsStack(Onward) /\ Describe(NextType, Onward) /\ defs' = defs
          /\ NextType \in PropertyTypes(Top.type)
      BY <1>2, <2>1, Advance
         DEF DescribeProperty, NextType, Onward, PropertyTypes, Stacked
    <3>2. Encountered \subseteq Encountered' /\ Encountered' # Encountered
      BY <2>1, <2>3, <3>1, EnteringIsNew
    <3> QED
      BY <2>1, <3>2 DEF Advances
  <2> QED
    BY <2>1, <2>2, <2>3
<1>3. CASE Define
  BY <1>3, DefineDetails DEF Advances
<1>4. CASE Overflow
  BY <1>4 DEF Overflow, Advances
<1> QED
  BY <1>1, <1>2, <1>3, <1>4 DEF Step

(* Unless a class contains itself and the value is evaluated first, every  *)
(* step brings the description nearer to its end, in an order in which it  *)
(* can only go so far: there are as many parameters, classes and           *)
(* properties as the program declares.  This is what Completes rests on.   *)
THEOREM DescriptionAdvances ==
    Spec => []Bounds /\ []InTypes /\ [][NoLoop /\ Step => Advances]_vars
<1>1. Init => ClosureInv /\ Path /\ InTypes
  <2> SUFFICES ASSUME Init PROVE ClosureInv /\ Path /\ InTypes
    OBVIOUS
  <2>1. Stacked /\ Len(stack) = 0 /\ defs = {} /\ root = 1
    BY InitStacked DEF Init
  <2>2. Lists
    BY DeclarationsAssumption DEF Init, Lists
  <2>3. Len(roots) \in Nat
    BY <2>2 DEF Lists, IsList
  <2>4. InTypes
    BY <2>1, EncounteredIs DEF InTypes
  <2> QED
    BY <2>1, <2>2, <2>3, <2>4 DEF ClosureInv, Bounds, Covered, Path
<1>2. ClosureInv /\ Path /\ InTypes /\ [Next]_vars => (ClosureInv /\ Path /\ InTypes)'
  <2> SUFFICES ASSUME ClosureInv, Path, InTypes, [Next]_vars
               PROVE  ClosureInv' /\ Path' /\ InTypes'
    OBVIOUS
  <2>1. Stacked /\ Stacked' /\ Lists'
    BY StepCases, SameProgram, SameLists DEF ClosureInv
  <2> QED
    BY <2>1, BoundsStep, CoveredStep, PathStep, InTypesStep DEF ClosureInv
<1>3. ClosureInv /\ Path => (NoLoop /\ Step => Advances)
  BY StepAdvances DEF ClosureInv
<1>4. ClosureInv => Bounds
  BY DEF ClosureInv
<1> QED
  BY <1>1, <1>2, <1>3, <1>4, PTL DEF Spec
=============================================================================
