-------------------------- MODULE RepositoryProofs --------------------------
(***************************************************************************)
(* Proofs about Repository, for any number of threads, any instances,      *)
(* methods and overloads, and any documents.                               *)
(***************************************************************************)
EXTENDS Repository, TLAPS

USE HalfAssumption, InstanceAssumption, OneName, DocsAssumption, RepositoryBounds,
    ThreadsAssumption

(* The steps of Next, one by one, for the proofs by cases below.           *)
LEMMA NextCases ==
    ASSUME Next
    PROVE  \/ \E r \in Registrations : AddService(r[1], r[2])
           \/ \E n \in DOMAIN services : RemoveService(n)
           \/ \E t \in Threads : \/ Receive(t) \/ Process(t) \/ Bind(t) \/ Enter(t)
                                 \/ Reject(t) \/ Finish(t) \/ Throw(t)
                                 \/ Return(t) \/ Crash(t)
           \/ UNCHANGED vars
BY DEF Next, Step, Stopped

-----------------------------------------------------------------------------
(***************************************************************************)
(* Messages and replies.                                                   *)
(***************************************************************************)

(* An integer id wraps around into the range of int.                       *)
LEMMA TruncateRange == \A v \in Int : Truncate(v) \in IntRange
<1> SUFFICES ASSUME NEW v \in Int PROVE Truncate(v) \in IntRange
  OBVIOUS
<1> DEFINE n == 2 * Half
<1>1. n \in Nat \ {0}
  OBVIOUS
<1> HIDE DEF n
<1>2. (v + Half) % n \in 0 .. n - 1
  BY <1>1, SMT
<1> QED
  BY <1>2 DEF Truncate, IntRange, n

LEMMA IdShape ==
    ASSUME NEW id \in [type : {"none", "null", "integer", "string", "other"}, value : Int],
           IdParses(id)
    PROVE  ParseId(id) \in MessageIds
<1>1. Truncate(id.value) \in IntRange
  BY TruncateRange
<1>2. \A v \in IntRange : v \in Int
  BY DEF IntRange
<1> QED
  BY <1>1, <1>2 DEF ParseId, IdParses, MessageIds, NullId

LEMMA NullIdShape == NullId \in MessageIds
BY DEF NullId, MessageIds

LEMMA NoParamsShape == /\ NoParams \in DocParams
                       /\ NoName \in DocNames
BY DEF DocParams, DocNames

LEMMA ErrorShape == \A code \in Codes : ErrorMessage(code) \in MessageShape
BY NullIdShape, NoParamsShape DEF ErrorMessage, Message, MessageShape

LEMMA NoMessageShape == NoMessage \in MessageShape
BY NullIdShape, NoParamsShape DEF NoMessage, Message, MessageShape, Codes

LEMMA MessageMade ==
    ASSUME NEW entity \in {"none", "request", "notification", "response", "batch", "error"},
           NEW id \in MessageIds, NEW name \in DocNames, NEW params \in DocParams
    PROVE  Message(entity, id, name, params) \in MessageShape
BY DEF Message, MessageShape, Codes

(* What the parser returns is a message, for every document.               *)
LEMMA ParseShape == \A d \in Docs : Parse(d) \in MessageShape
<1> SUFFICES ASSUME NEW d \in Docs PROVE Parse(d) \in MessageShape
  OBVIOUS
<1>1. /\ ErrorMessage("ParseError") \in MessageShape
      /\ ErrorMessage("InvalidRequest") \in MessageShape
      /\ ErrorMessage("InternalError") \in MessageShape
  BY ErrorShape DEF Codes
<1>2. d.params \in DocParams /\ d.method.name \in DocNames
  BY DEF DocParams, DocNames
<1>3. IdParses(d.id) => ParseId(d.id) \in MessageIds
  BY IdShape
<1>4. ParseRequest(d) \in MessageShape
  BY <1>1, <1>2, <1>3, MessageMade DEF ParseRequest
<1>5. ParseNotification(d) \in MessageShape
  BY <1>1, <1>2, NullIdShape, MessageMade DEF ParseNotification
<1>6. ParseResponse(d) \in MessageShape
  BY <1>1, <1>3, NoParamsShape, MessageMade DEF ParseResponse
<1>7. ParseBatch(d) \in MessageShape
  BY <1>1, NullIdShape, NoParamsShape, MessageMade DEF ParseBatch
<1> QED
  BY <1>1, <1>4, <1>5, <1>6, <1>7 DEF Parse

ReplyShape == [kind : {"none", "result", "error", "throw"}, id : MessageIds, code : Codes]

LEMMA NoReplyShape == NoReply \in ReplyShape
BY NullIdShape DEF NoReply, Reply, ReplyShape, Codes

LEMMA InvalidRequestShape == InvalidRequestReply \in ReplyShape
BY NullIdShape DEF InvalidRequestReply, Reply, ReplyShape, Codes

LEMMA ErrorReplyShape ==
    ASSUME NEW m \in MessageShape, NEW code \in Codes
    PROVE  CreateErrorResponse(m, code) \in ReplyShape
BY NullIdShape DEF CreateErrorResponse, Reply, ReplyShape, MessageShape

LEMMA ResultReplyShape ==
    ASSUME NEW m \in MessageShape, NEW result
    PROVE  CreateResponse(m, result) \in ReplyShape
BY NullIdShape DEF CreateResponse, ThrownReply, Reply, ReplyShape, MessageShape, Codes

LEMMA DirectShape ==
    ASSUME NEW m \in MessageShape, NEW r \in DirectReplies(m)
    PROVE  r \in ReplyShape
BY NoReplyShape, InvalidRequestShape, ErrorReplyShape, ResultReplyShape
   DEF DirectReplies, Codes

-----------------------------------------------------------------------------
(***************************************************************************)
(* Type correctness.                                                       *)
(***************************************************************************)

Serving == {"bind", "enter", "inside"}

(* A call keeps the service it was routed to: the repository cannot change *)
(* while the call lasts.                                                   *)
Routed ==
    \A t \in Threads :
        LET c == call[t]
        IN  c.pc \in Serving => /\ ServiceName(c.msg.name) \in DOMAIN services
                                /\ c.service = services[ServiceName(c.msg.name)]

Shape == [name : {r[1] : r \in Registrations}, instance : Instances]

TypeInv == TypeOK /\ Routed /\ Len(created) <= MaxServices

LEMMA IdleShape == IdleCall \in CallShape
BY NoReplyShape, NoMessageShape DEF IdleCall, CallShape, ReplyShape

(* An answered call keeps its shape.                                       *)
LEMMA AnswerShape ==
    ASSUME NEW c \in CallShape, NEW r \in ReplyShape
    PROVE  /\ Answer(c, r) \in CallShape
           /\ Answer(c, r).pc = "reply"
           /\ Answer(c, r).reply = r
           /\ Answer(c, r).runs = c.runs /\ Answer(c, r).msg = c.msg
           /\ Answer(c, r).service = c.service /\ Answer(c, r).doc = c.doc
BY DEF Answer, CallShape, ReplyShape

(* After an overload has failed the call is answered with an error, or     *)
(* tries the next overload.                                                *)
LEMMA NextOverloadShape ==
    ASSUME NEW c \in CallShape
    PROVE  /\ NextOverload(c) \in CallShape
           /\ NextOverload(c).pc \in {"bind", "reply"}
           /\ NextOverload(c).runs = c.runs /\ NextOverload(c).msg = c.msg
           /\ NextOverload(c).service = c.service /\ NextOverload(c).doc = c.doc
           /\ NextOverload(c).pc = "reply" =>
                 \E code \in Codes : NextOverload(c).reply = CreateErrorResponse(c.msg, code)
<1>1. c.msg \in MessageShape /\ c.alt \in Nat
  BY DEF CallShape
<1>2. InvalidParams \in Codes /\ "MethodNotFound" \in Codes
  BY DEF InvalidParams, Codes
<1> DEFINE Retry(a) == [c EXCEPT !.pc = "bind", !.alt = a]
           Try == Retry(c.alt + 1)
<1>3. /\ Try \in CallShape /\ Try.pc = "bind" /\ Try.runs = c.runs
      /\ Try.msg = c.msg /\ Try.service = c.service /\ Try.doc = c.doc
  <2>1. ASSUME NEW a \in Nat
        PROVE  /\ Retry(a) \in CallShape /\ Retry(a).pc = "bind"
               /\ Retry(a).runs = c.runs /\ Retry(a).msg = c.msg
               /\ Retry(a).service = c.service /\ Retry(a).doc = c.doc
    BY DEF CallShape
  <2>2. c.alt + 1 \in Nat
    BY <1>1
  <2> HIDE DEF Retry
  <2> QED
    BY <2>1, <2>2
<1> DEFINE Refusal(code) == Answer(c, CreateErrorResponse(c.msg, code))
<1>4. \A code \in Codes : /\ Refusal(code) \in CallShape
                          /\ Refusal(code).pc = "reply"
                          /\ Refusal(code).reply = CreateErrorResponse(c.msg, code)
                          /\ Refusal(code).runs = c.runs /\ Refusal(code).msg = c.msg
                          /\ Refusal(code).service = c.service
                          /\ Refusal(code).doc = c.doc
  BY <1>1, ErrorReplyShape, AnswerShape
<1>5. NextOverload(c) \in {Try, Refusal(InvalidParams), Refusal("MethodNotFound")}
  BY DEF NextOverload, CallShape
<1> HIDE DEF Try, Refusal
<1> QED
  BY <1>2, <1>3, <1>4, <1>5

LEMMA TypeInvInit == Init => TypeInv
<1> SUFFICES ASSUME Init PROVE TypeInv
  OBVIOUS
<1>1. up \in BOOLEAN
  BY DEF Init
<1>2. services \in [DOMAIN services -> DOMAIN created] /\ info.known \in BOOLEAN
  BY DEF Init
<1>3. created \in Seq(Shape) /\ Len(created) <= MaxServices
  BY DEF Init
<1>4. call \in [Threads -> CallShape]
  BY IdleShape DEF Init
<1>5. Routed
  BY DEF Init, Routed, IdleCall, Serving
<1>6. /\ mutex \in [Services -> Threads \cup {NoThread}]
      /\ cell \in [Instances -> Nat]
      /\ received \in 0 .. MaxMessages
  BY DEF Init
<1> QED
  BY <1>1, <1>2, <1>3, <1>4, <1>5, <1>6 DEF TypeInv, TypeOK, Shape

(* What a thread does to its own call keeps the types, if the call stays   *)
(* with its message and its service.                                       *)
LEMMA StepTypes ==
    ASSUME TypeInv, NEW t \in Threads, NEW c \in CallShape,
           call' = [call EXCEPT ![t] = c],
           c.pc \in Serving => /\ ServiceName(c.msg.name) \in DOMAIN services
                               /\ c.service = services[ServiceName(c.msg.name)],
           up' \in BOOLEAN, UNCHANGED <<created, services, info>>,
           mutex' \in [Services -> Threads \cup {NoThread}],
           cell' \in [Instances -> Nat],
           received' \in 0 .. MaxMessages
    PROVE  TypeInv'
<1>1. call' \in [Threads -> CallShape]
  BY DEF TypeInv, TypeOK
<1>2. Routed'
  BY DEF TypeInv, TypeOK, Routed
<1>3. DocNames' = DocNames /\ DocParams' = DocParams
  BY DEF DocNames, DocParams
<1> QED
  BY <1>1, <1>2 DEF TypeInv, TypeOK

(* The main thread changes the services only while every thread is idle.   *)
LEMMA MainTypes ==
    ASSUME TypeInv,
           \/ \E r \in Registrations : AddService(r[1], r[2])
           \/ \E n \in DOMAIN services : RemoveService(n)
    PROVE  TypeInv'
<1>1. \A t \in Threads : call[t].pc = "idle"
  BY DEF AddService, RemoveService, Quiet
<1>2. UNCHANGED <<mutex, cell, call, received>> /\ up' = up /\ info'.known = TRUE
  <2>1. ASSUME NEW r \in Registrations, AddService(r[1], r[2])
        PROVE  <1>2
    BY <2>1 DEF AddService, ServicesInfo
  <2>2. ASSUME NEW n \in DOMAIN services, RemoveService(n)
        PROVE  <1>2
    BY <2>2 DEF RemoveService, ServicesInfo
  <2> QED
    BY <2>1, <2>2
<1>3. /\ created' \in Seq(Shape) /\ Len(created') <= MaxServices
      /\ services' \in [DOMAIN services' -> DOMAIN created']
  <2>1. ASSUME NEW r \in Registrations, AddService(r[1], r[2])
        PROVE  <1>3
    <3>1. [name |-> r[1], instance |-> r[2]] \in Shape
      BY DEF Shape
    <3>2. created \in Seq(Shape) /\ Len(created) < MaxServices
      BY <2>1 DEF AddService, TypeInv, TypeOK, Shape
    <3>3. created' = Append(created, [name |-> r[1], instance |-> r[2]])
      BY <2>1 DEF AddService
    <3>4. /\ created' \in Seq(Shape) /\ Len(created') = Len(created) + 1
          /\ DOMAIN created' = 1 .. Len(created')
      BY <3>1, <3>2, <3>3
    <3>5. DOMAIN created \subseteq DOMAIN created' /\ Len(created') \in DOMAIN created'
      BY <3>2, <3>4
    <3>6. services' = [m \in DOMAIN services \cup {r[1]} |->
                          IF m = r[1] THEN Len(created') ELSE services[m]]
      BY <2>1 DEF AddService
    <3>7. \A m \in DOMAIN services : services[m] \in DOMAIN created
      BY DEF TypeInv, TypeOK
    <3> QED
      BY <3>2, <3>4, <3>5, <3>6, <3>7
  <2>2. ASSUME NEW n \in DOMAIN services, RemoveService(n)
        PROVE  <1>3
    BY <2>2 DEF RemoveService, TypeInv, TypeOK, Shape
  <2> QED
    BY <2>1, <2>2
<1>4. Routed'
  BY <1>1, <1>2 DEF Routed, Serving
<1>5. DocNames' = DocNames /\ DocParams' = DocParams
  BY DEF DocNames, DocParams
<1>6. up' \in BOOLEAN /\ info'.known \in BOOLEAN
  BY <1>2 DEF TypeInv, TypeOK
<1> QED
  BY <1>2, <1>3, <1>4, <1>6 DEF TypeInv, TypeOK, Shape

(* What holds of a call that is being served.                              *)
LEMMA ServingCall ==
    ASSUME TypeInv, NEW t \in Threads
    PROVE  /\ call[t] \in CallShape /\ call[t].msg \in MessageShape
           /\ call[t].pc \in Serving =>
                 /\ call[t].service \in DOMAIN created
                 /\ call[t].service \in Services
                 /\ InstanceOf(call[t]) \in Instances
                 /\ ServiceName(call[t].msg.name) \in DOMAIN services
                 /\ call[t].service = services[ServiceName(call[t].msg.name)]
<1>1. call[t] \in CallShape /\ call[t].msg \in MessageShape
  BY DEF TypeInv, TypeOK, CallShape
<1>2. ASSUME call[t].pc \in Serving
      PROVE  /\ ServiceName(call[t].msg.name) \in DOMAIN services
             /\ call[t].service = services[ServiceName(call[t].msg.name)]
  BY <1>2 DEF TypeInv, Routed
<1>3. \A n \in DOMAIN services : services[n] \in DOMAIN created
  BY DEF TypeInv, TypeOK
<1>4. created \in Seq(Shape) /\ Len(created) <= MaxServices
  BY DEF TypeInv, TypeOK, Shape
<1>5. \A s \in DOMAIN created : s \in Services /\ created[s].instance \in Instances
  <2>1. \A s \in DOMAIN created : s \in 1 .. Len(created) /\ created[s] \in Shape
    BY <1>4
  <2>2. \A x \in Shape : x.instance \in Instances
    BY DEF Shape
  <2> QED
    BY <1>4, <2>1, <2>2 DEF Services
<1> QED
  BY <1>1, <1>2, <1>3, <1>5 DEF InstanceOf

LEMMA UnlockTypes ==
    ASSUME NEW c, Unlock(c), mutex \in [Services -> Threads \cup {NoThread}]
    PROVE  mutex' \in [Services -> Threads \cup {NoThread}]
BY DEF Unlock

LEMMA TypeInvStep == TypeInv /\ [Next]_vars => TypeInv'
<1> SUFFICES ASSUME TypeInv, [Next]_vars PROVE TypeInv'
  OBVIOUS
<1>0. /\ up \in BOOLEAN
      /\ mutex \in [Services -> Threads \cup {NoThread}]
      /\ cell \in [Instances -> Nat]
      /\ call \in [Threads -> CallShape]
      /\ received \in 0 .. MaxMessages
  BY DEF TypeInv, TypeOK
<1>1. ASSUME NEW t \in Threads, Receive(t)
      PROVE  TypeInv'
  <2>1. PICK d \in Docs :
           call' = [call EXCEPT ![t] =
                       [IdleCall EXCEPT !.pc = "process", !.doc = d, !.msg = Parse(d)]]
    BY <1>1 DEF Receive
  <2> DEFINE c == [IdleCall EXCEPT !.pc = "process", !.doc = d, !.msg = Parse(d)]
  <2>2. c \in CallShape /\ c.pc = "process"
    BY IdleShape, ParseShape DEF CallShape
  <2>3. received' \in 0 .. MaxMessages
    BY <1>0, <1>1 DEF Receive
  <2>4. UNCHANGED <<up, created, services, info, mutex, cell>>
    BY <1>1 DEF Receive
  <2>5. c.pc \notin Serving
    BY <2>2 DEF Serving
  <2>6. call' = [call EXCEPT ![t] = c]
    BY <2>1
  <2> HIDE DEF c
  <2> QED
    BY <1>0, <2>2, <2>3, <2>4, <2>5, <2>6, StepTypes
<1>2. ASSUME NEW t \in Threads, Process(t)
      PROVE  TypeInv'
  <2> DEFINE c == call'[t]
  <2>1. UNCHANGED <<up, created, services, info, mutex, cell, received>>
    BY <1>2 DEF Process
  <2>2. call[t] \in CallShape /\ call[t].msg \in MessageShape
    BY ServingCall
  <2>3. CASE \E r \in DirectReplies(call[t].msg) : call' = [call EXCEPT ![t] = Answer(@, r)]
    <3>1. PICK r \in DirectReplies(call[t].msg) : call' = [call EXCEPT ![t] = Answer(call[t], r)]
      BY <2>3
    <3>2. Answer(call[t], r) \in CallShape /\ Answer(call[t], r).pc = "reply"
      BY <2>2, DirectShape, AnswerShape
    <3>3. Answer(call[t], r).pc \notin Serving
      BY <3>2 DEF Serving
    <3> QED
      BY <1>0, <2>1, <3>1, <3>2, <3>3, StepTypes
  <2>4. CASE /\ DirectReplies(call[t].msg) = {}
             /\ call' = [call EXCEPT ![t].pc = "bind", ![t].alt = 1,
                             ![t].service = services[ServiceName(call[t].msg.name)]]
    <3> DEFINE s == services[ServiceName(call[t].msg.name)]
               b == [call[t] EXCEPT !.pc = "bind", !.alt = 1, !.service = s]
    <3>1. ServiceName(call[t].msg.name) \in DOMAIN services
      BY <2>4 DEF DirectReplies
    <3>2. s \in Nat
      BY <3>1 DEF TypeInv, TypeOK
    <3>3. b \in CallShape /\ b.service = s /\ b.msg = call[t].msg
      <4> HIDE DEF s
      <4> QED
        BY <2>2, <3>2 DEF CallShape
    <3>4. call' = [call EXCEPT ![t] = b]
      BY <1>0, <2>4
    <3> HIDE DEF b
    <3> QED
      BY <1>0, <2>1, <3>1, <3>3, <3>4, StepTypes
  <2> QED
    BY <1>2, <2>3, <2>4 DEF Process
<1>3. ASSUME NEW t \in Threads, Bind(t)
      PROVE  TypeInv'
  <2>1. UNCHANGED <<up, created, services, info, mutex, cell, received>>
    BY <1>3 DEF Bind
  <2>2. /\ call[t] \in CallShape
        /\ ServiceName(call[t].msg.name) \in DOMAIN services
        /\ call[t].service = services[ServiceName(call[t].msg.name)]
    BY <1>3, ServingCall DEF Bind, Serving
  <2>3. CASE call' = [call EXCEPT ![t] = NextOverload(@)]
    BY <1>0, <2>1, <2>2, <2>3, NextOverloadShape, StepTypes
  <2>4. CASE call' = [call EXCEPT ![t] = [@ EXCEPT !.pc = "enter"]]
    <3> DEFINE b == [call[t] EXCEPT !.pc = "enter"]
    <3>1. b \in CallShape /\ b.service = call[t].service /\ b.msg = call[t].msg
      BY <2>2 DEF CallShape
    <3>2. call' = [call EXCEPT ![t] = b]
      BY <2>4
    <3> HIDE DEF b
    <3> QED
      BY <1>0, <2>1, <2>2, <3>1, <3>2, StepTypes
  <2> QED
    BY <1>3, <2>3, <2>4 DEF Bind
<1>4. ASSUME NEW t \in Threads, Enter(t)
      PROVE  TypeInv'
  <2>1. UNCHANGED <<up, created, services, info, cell, received>>
    BY <1>4 DEF Enter
  <2>2. /\ call[t] \in CallShape /\ InstanceOf(call[t]) \in Instances
        /\ ServiceName(call[t].msg.name) \in DOMAIN services
        /\ call[t].service = services[ServiceName(call[t].msg.name)]
    BY <1>4, ServingCall DEF Enter, Serving
  <2>3. mutex' \in [Services -> Threads \cup {NoThread}]
    BY <1>0, <1>4 DEF Enter
  <2> DEFINE l == cell[InstanceOf(call[t])]
             b == [call[t] EXCEPT !.pc = "inside", !.local = l]
  <2>4. l \in Nat
    BY <1>0, <2>2
  <2>5. call' = [call EXCEPT ![t] = b]
    BY <1>0, <1>4 DEF Enter
  <2>6. b \in CallShape /\ b.service = call[t].service /\ b.msg = call[t].msg
    <3> HIDE DEF l
    <3> QED
      BY <2>2, <2>4 DEF CallShape
  <2> HIDE DEF b
  <2> QED
    BY <1>0, <2>1, <2>2, <2>3, <2>5, <2>6, StepTypes
<1>5. ASSUME NEW t \in Threads, Reject(t)
      PROVE  TypeInv'
  <2>1. UNCHANGED <<up, created, services, info, cell, received>>
    BY <1>5 DEF Reject
  <2>2. /\ call[t] \in CallShape
        /\ ServiceName(call[t].msg.name) \in DOMAIN services
        /\ call[t].service = services[ServiceName(call[t].msg.name)]
    BY <1>5, ServingCall DEF Reject, Serving
  <2>3. mutex' \in [Services -> Threads \cup {NoThread}]
    BY <1>0, <1>5, UnlockTypes DEF Reject
  <2>4. call' = [call EXCEPT ![t] = NextOverload(call[t])]
    BY <1>5 DEF Reject
  <2> QED
    BY <1>0, <2>1, <2>2, <2>3, <2>4, NextOverloadShape, StepTypes
<1>6. ASSUME NEW t \in Threads, Finish(t)
      PROVE  TypeInv'
  <2>1. UNCHANGED <<up, created, services, info, received>>
    BY <1>6 DEF Finish
  <2>2. call[t] \in CallShape /\ call[t].msg \in MessageShape
    BY ServingCall
  <2>3. mutex' \in [Services -> Threads \cup {NoThread}]
    BY <1>0, <1>6, UnlockTypes DEF Finish
  <2>4. cell' \in [Instances -> Nat]
    <3> DEFINE i == InstanceOf(call[t])
               v == 1 + IF i \in ThreadSafe THEN cell[i] ELSE call[t].local
    <3>1. i \in Instances
      BY <1>6, ServingCall DEF Finish, Serving
    <3>2. cell[i] \in Nat /\ call[t].local \in Nat
      BY <1>0, <2>2, <3>1 DEF CallShape
    <3>3. cell' = [cell EXCEPT ![i] = v]
      BY <1>0, <1>6, <3>1 DEF Finish
    <3>4. v \in Nat
      BY <3>2
    <3> HIDE DEF v, i
    <3> QED
      BY <1>0, <3>3, <3>4
  <2> DEFINE r == CreateResponse(call[t].msg, Overload(call[t]).result)
             a == Answer(call[t], r)
             b == [a EXCEPT !.runs = @ + 1]
  <2>5. r \in ReplyShape
    BY <2>2, ResultReplyShape
  <2>6. a \in CallShape /\ a.pc = "reply"
    <3> HIDE DEF r
    <3> QED
      BY <2>2, <2>5, AnswerShape
  <2>7. b \in CallShape /\ b.pc = "reply"
    <3> HIDE DEF a
    <3> QED
      BY <2>6 DEF CallShape
  <2>8. call' = [call EXCEPT ![t] = b]
    BY <1>6 DEF Finish
  <2>9. b.pc \notin Serving
    BY <2>7 DEF Serving
  <2> HIDE DEF b
  <2> QED
    BY <1>0, <2>1, <2>3, <2>4, <2>7, <2>8, <2>9, StepTypes
<1>7. ASSUME NEW t \in Threads, Throw(t) \/ Crash(t)
      PROVE  TypeInv'
  <2>1. UNCHANGED <<created, services, info, cell, call, received>>
    BY <1>7 DEF Throw, Crash
  <2>2. mutex' \in [Services -> Threads \cup {NoThread}]
    BY <1>0, <1>7, UnlockTypes DEF Throw, Crash
  <2>3. up' \in BOOLEAN
    <3>1. up' = FALSE
      BY <1>7 DEF Throw, Crash
    <3> QED
      BY <3>1
  <2> QED
    BY <2>1, <2>2, <2>3 DEF TypeInv, TypeOK, Routed, DocNames, DocParams
<1>8. ASSUME NEW t \in Threads, Return(t)
      PROVE  TypeInv'
  <2>1. IdleCall.pc \notin Serving
    BY DEF IdleCall, Serving
  <2>2. /\ UNCHANGED <<up, created, services, info, mutex, cell, received>>
        /\ call' = [call EXCEPT ![t] = IdleCall]
    BY <1>8 DEF Return
  <2> QED
    BY <1>0, <2>1, <2>2, IdleShape, StepTypes
<1>9. CASE UNCHANGED vars
  BY <1>9 DEF vars, TypeInv, TypeOK, Routed, DocNames, DocParams
<1> QED
  BY <1>1, <1>2, <1>3, <1>4, <1>5, <1>6, <1>7, <1>8, <1>9, MainTypes, NextCases

(* Whatever documents arrive, the state of the repository and of the calls *)
(* keeps its shape: a call is served by an existing service, and every id  *)
(* fits in an int.                                                         *)
THEOREM TypeCorrect == Spec => []TypeOK
<1>1. TypeInv => TypeOK
  BY DEF TypeInv
<1> QED
  BY TypeInvInit, TypeInvStep, <1>1, PTL DEF Spec
-----------------------------------------------------------------------------
(***************************************************************************)
(* The registered services.                                                *)
(***************************************************************************)

(* Every service object comes from a registration of the program.          *)
Registered ==
    \A s \in DOMAIN created :
        \E r \in Registrations : created[s] = [name |-> r[1], instance |-> r[2]]

ServicesInv == TypeInv /\ Registered /\ InfoIsCurrent

LEMMA ServicesInvInit == Init => ServicesInv
<1> SUFFICES ASSUME Init PROVE ServicesInv
  OBVIOUS
<1>1. created = <<>> /\ DOMAIN services = {} /\ ~info.known
  BY DEF Init
<1> QED
  BY <1>1, TypeInvInit DEF ServicesInv, Registered, InfoIsCurrent

LEMMA ServicesInvStep == ServicesInv /\ [Next]_vars => ServicesInv'
<1> SUFFICES ASSUME ServicesInv, [Next]_vars PROVE ServicesInv'
  OBVIOUS
<1>1. TypeInv /\ Registered /\ InfoIsCurrent /\ TypeInv'
  BY TypeInvStep DEF ServicesInv
<1>2. created \in Seq(Shape)
  BY <1>1 DEF TypeInv, TypeOK, Shape
<1>3. \A n \in DOMAIN services : services[n] \in DOMAIN created
  BY <1>1 DEF TypeInv, TypeOK
<1>4. ASSUME NEW r \in Registrations, AddService(r[1], r[2])
      PROVE  Registered' /\ InfoIsCurrent'
  <2> DEFINE new == [name |-> r[1], instance |-> r[2]]
  <2>1. created' = Append(created, new)
    BY <1>4 DEF AddService
  <2>2. new \in Shape
    BY DEF Shape
  <2> HIDE DEF new
  <2>3. /\ Len(created') = Len(created) + 1 /\ created'[Len(created')] = new
        /\ DOMAIN created = 1 .. Len(created) /\ DOMAIN created' = 1 .. Len(created')
        /\ Len(created) \in Nat
        /\ \A s \in DOMAIN created : created'[s] = created[s]
    BY <1>2, <2>1, <2>2
  <2>4. \A s \in DOMAIN created' : s \in DOMAIN created \/ s = Len(created')
    BY <2>3
  <2>5. Registered'
    BY <1>1, <2>3, <2>4 DEF Registered, new
  <2>6. /\ services' = [m \in DOMAIN services \cup {r[1]} |->
                          IF m = r[1] THEN Len(created') ELSE services[m]]
        /\ info' = [known |-> TRUE, table |-> services']
    BY <1>4 DEF AddService, ServicesInfo
  <2>7. new.name = r[1]
    BY DEF new
  <2>8. \A n \in DOMAIN services' : created'[services'[n]].name = n
    BY <1>1, <1>3, <2>3, <2>6, <2>7 DEF InfoIsCurrent
  <2> QED
    BY <2>5, <2>6, <2>8 DEF InfoIsCurrent
<1>5. ASSUME NEW n \in DOMAIN services, RemoveService(n)
      PROVE  Registered' /\ InfoIsCurrent'
  BY <1>1, <1>5 DEF RemoveService, ServicesInfo, Registered, InfoIsCurrent
<1>6. CASE UNCHANGED <<created, services, info>>
  <2>1. created' = created /\ services' = services /\ info' = info
    BY <1>6
  <2>2. Registered'
    BY <1>1, <2>1 DEF Registered
  <2>3. InfoIsCurrent'
    BY <1>1, <2>1, Zenon DEF InfoIsCurrent
  <2> QED
    BY <1>1, <2>2, <2>3 DEF ServicesInv
<1>7. \/ \E r \in Registrations : AddService(r[1], r[2])
      \/ \E n \in DOMAIN services : RemoveService(n)
      \/ UNCHANGED <<created, services, info>>
  BY NextCases DEF Receive, Process, Bind, Enter, Reject, Finish, Throw, Return, Crash, vars
<1> QED
  BY <1>1, <1>4, <1>5, <1>6, <1>7 DEF ServicesInv

(* What __init__ describes are the services that dispatch finds, each      *)
(* under the name it was added with, after any adding and removing.        *)
THEOREM DescribesServices == Spec => []InfoIsCurrent
<1>1. ServicesInv => InfoIsCurrent
  BY DEF ServicesInv
<1> QED
  BY ServicesInvInit, ServicesInvStep, <1>1, PTL DEF Spec

(* Two calls on one instance are calls on one service, so on one mutex.    *)
LEMMA OneService ==
    ASSUME ServicesInv, NEW t \in Threads, NEW u \in Threads,
           call[t].pc \in Serving, call[u].pc \in Serving,
           InstanceOf(call[t]) = InstanceOf(call[u])
    PROVE  call[t].service = call[u].service
<1>1. TypeInv /\ Registered /\ InfoIsCurrent
  BY DEF ServicesInv
<1> DEFINE n(v) == ServiceName(call[v].msg.name)
<1>2. \A v \in {t, u} : /\ call[v].service \in DOMAIN created
                        /\ n(v) \in DOMAIN services
                        /\ call[v].service = services[n(v)]
  BY <1>1, ServingCall
<1> HIDE DEF n
<1>3. \A v \in {t, u} : created[call[v].service].name = n(v)
  BY <1>1, <1>2 DEF InfoIsCurrent
<1>4. created[call[t].service].name = created[call[u].service].name
  <2>1. PICK r \in Registrations : created[call[t].service] = [name |-> r[1], instance |-> r[2]]
    BY <1>1, <1>2 DEF Registered
  <2>2. PICK q \in Registrations : created[call[u].service] = [name |-> q[1], instance |-> q[2]]
    BY <1>1, <1>2 DEF Registered
  <2>3. r[2] = q[2]
    BY <2>1, <2>2 DEF InstanceOf
  <2> QED
    BY <2>1, <2>2, <2>3
<1> QED
  BY <1>2, <1>3, <1>4
-----------------------------------------------------------------------------
(***************************************************************************)
(* The mutexes.                                                            *)
(***************************************************************************)

MutexInv == ServicesInv /\ MutexDiscipline /\ InstanceExclusive

LEMMA MutexInvInit == Init => MutexInv
<1> SUFFICES ASSUME Init PROVE MutexInv
  OBVIOUS
<1>1. \A t \in Threads : call[t].pc = "idle"
  BY DEF Init, IdleCall
<1>2. \A s \in Services : mutex[s] = NoThread
  BY DEF Init
<1> QED
  BY <1>1, <1>2, ServicesInvInit
     DEF MutexInv, MutexDiscipline, InstanceExclusive, Holds, Inside

(* A step of t that neither enters nor leaves a method, nor unlocks.       *)
LEMMA OutsideStep ==
    ASSUME TypeInv, MutexDiscipline, InstanceExclusive, NEW t \in Threads, NEW c,
           call' = [call EXCEPT ![t] = c],
           call[t].pc # "inside", c.pc # "inside",
           UNCHANGED <<up, created, mutex>>
    PROVE  MutexDiscipline' /\ InstanceExclusive'
<1>1. call \in [Threads -> CallShape]
  BY DEF TypeInv, TypeOK
<1>2. \A u \in Threads : call'[u] = IF u = t THEN c ELSE call[u]
  BY <1>1
<1>3. \A u \in Threads : \A s \in Services : Holds(u, s)' <=> Holds(u, s)
  BY <1>2 DEF Holds, NeedsMutex, InstanceOf
<1>4. \A u \in Threads : \A i \in Instances : Inside(u, i)' <=> Inside(u, i)
  BY <1>2 DEF Inside, InstanceOf
<1> QED
  BY <1>3, <1>4 DEF MutexDiscipline, InstanceExclusive

(* A step of t that leaves a method and unlocks.                           *)
LEMMA LeaveStep ==
    ASSUME TypeInv, MutexDiscipline, InstanceExclusive, NEW t \in Threads, NEW c,
           up, call' = [call EXCEPT ![t] = c],
           call[t].pc = "inside", c.pc # "inside",
           Unlock(call[t]),
           UNCHANGED <<up, created>>
    PROVE  MutexDiscipline' /\ InstanceExclusive'
<1>1. /\ call \in [Threads -> CallShape]
      /\ mutex \in [Services -> Threads \cup {NoThread}]
  BY DEF TypeInv, TypeOK
<1>2. \A u \in Threads : call'[u] = IF u = t THEN c ELSE call[u]
  BY <1>1
<1>3. \A u \in Threads : \A s \in Services : Holds(u, s)' <=> (u # t /\ Holds(u, s))
  BY <1>2 DEF Holds, NeedsMutex, InstanceOf
<1>4. \A u \in Threads : \A i \in Instances : Inside(u, i)' => Inside(u, i)
  BY <1>2 DEF Inside, InstanceOf
<1>5. MutexDiscipline'
  <2> SUFFICES ASSUME NEW s \in Services, NEW u \in Threads
               PROVE  mutex'[s] = u <=> (u # t /\ Holds(u, s))
    BY <1>3 DEF MutexDiscipline
  <2>1. \A v \in Threads : mutex[s] = v <=> Holds(v, s)
    BY DEF MutexDiscipline
  <2>2. CASE NeedsMutex(call[t]) /\ s = call[t].service
    <3>1. mutex'[s] = NoThread
      BY <1>1, <2>2 DEF Unlock
    <3>2. mutex[s] = t
      BY <2>1, <2>2 DEF Holds
    <3> QED
      BY <2>1, <3>1, <3>2
  <2>3. CASE ~(NeedsMutex(call[t]) /\ s = call[t].service)
    <3>1. mutex'[s] = mutex[s]
      BY <1>1, <2>3 DEF Unlock
    <3>2. ~Holds(t, s)
      BY <2>3 DEF Holds
    <3> QED
      BY <2>1, <3>1, <3>2
  <2> QED
    BY <2>2, <2>3
<1> QED
  BY <1>4, <1>5 DEF InstanceExclusive

(* A thread that enters a method found the mutex free, so no other thread  *)
(* is inside a method of the service, and by OneService of the instance.   *)
LEMMA EnterStep ==
    ASSUME MutexInv, NEW t \in Threads, Enter(t)
    PROVE  MutexDiscipline' /\ InstanceExclusive'
<1> DEFINE s == call[t].service
           i == InstanceOf(call[t])
<1>1. ServicesInv /\ TypeInv /\ MutexDiscipline /\ InstanceExclusive
  BY DEF MutexInv, ServicesInv
<1>2. /\ call \in [Threads -> CallShape]
      /\ mutex \in [Services -> Threads \cup {NoThread}]
  BY <1>1 DEF TypeInv, TypeOK
<1>3. up /\ call[t].pc = "enter" /\ UNCHANGED <<up, created>>
  BY DEF Enter
<1>4. s \in Services /\ i \in Instances
  BY <1>1, <1>3, ServingCall DEF Serving
<1>5. /\ call'[t].pc = "inside" /\ call'[t].service = s
      /\ \A u \in Threads \ {t} : call'[u] = call[u]
  BY <1>2 DEF Enter, CallShape
<1>6. NeedsMutex(call[t])' <=> NeedsMutex(call[t])
  BY <1>3, <1>5 DEF NeedsMutex, InstanceOf
<1>7. \A v \in Threads : \A r \in Services : mutex[r] = v <=> Holds(v, r)
  BY <1>1, <1>3 DEF MutexDiscipline
<1>8. \A r \in Services : ~Holds(t, r)
  BY <1>3 DEF Holds
<1>9. \A u \in Threads : \A r \in Services :
         Holds(u, r)' <=> IF u = t THEN r = s /\ NeedsMutex(call[t]) ELSE Holds(u, r)
  BY <1>3, <1>5, <1>6 DEF Holds, NeedsMutex, InstanceOf
<1>10. CASE NeedsMutex(call[t])
  <2>1. mutex[s] = NoThread /\ mutex' = [mutex EXCEPT ![s] = t]
    BY <1>10 DEF Enter
  <2>2. \A r \in Services : mutex'[r] = IF r = s THEN t ELSE mutex[r]
    BY <1>2, <2>1
  <2> HIDE DEF s, i
  <2>3. MutexDiscipline'
    <3> SUFFICES ASSUME NEW r \in Services, NEW u \in Threads
                 PROVE  mutex'[r] = u <=> Holds(u, r)'
      BY DEF MutexDiscipline
    <3>1. Holds(u, r)' <=> IF u = t THEN r = s /\ NeedsMutex(call[t]) ELSE Holds(u, r)
      BY <1>9
    <3>2. mutex[r] = u <=> Holds(u, r)
      BY <1>7
    <3>3. u = t => ~Holds(u, r)
      BY <1>8
    <3>4. mutex'[r] = IF r = s THEN t ELSE mutex[r]
      BY <2>2
    <3>5. r = s => ~Holds(u, r)
      BY <2>1, <3>2
    <3> QED
      BY <1>10, <3>1, <3>2, <3>3, <3>4, <3>5
  <2>4. \A u \in Threads \ {t} : ~Inside(u, i)
    <3> SUFFICES ASSUME NEW u \in Threads \ {t}, Inside(u, i) PROVE FALSE
      OBVIOUS
    <3>1. call[u].pc = "inside" /\ InstanceOf(call[u]) = InstanceOf(call[t])
      BY DEF Inside, i
    <3>2. call[u].service = s
      BY <1>1, <1>3, <3>1, OneService DEF Serving, s
    <3>3. Holds(u, s)
      BY <1>10, <3>1, <3>2 DEF Holds, NeedsMutex
    <3>4. mutex[s] = u
      BY <1>4, <1>7, <3>3
    <3> QED
      BY <2>1, <3>4
  <2>5. InstanceExclusive'
    <3> SUFFICES ASSUME NEW j \in Instances \ ThreadSafe, NEW u \in Threads, NEW v \in Threads,
                        Inside(u, j)', Inside(v, j)'
                 PROVE  u = v
      BY DEF InstanceExclusive
    <3>1. \A w \in Threads \ {t} : Inside(w, j)' => Inside(w, j)
      BY <1>3, <1>5 DEF Inside, InstanceOf
    <3>2. Inside(t, j)' => j = i
      BY <1>3, <1>5 DEF Inside, InstanceOf, i, s
    <3> QED
      BY <1>1, <2>4, <3>1, <3>2 DEF InstanceExclusive
  <2> QED
    BY <2>3, <2>5
<1>11. CASE ~NeedsMutex(call[t])
  <2>1. mutex' = mutex
    BY <1>11 DEF Enter
  <2>2. MutexDiscipline'
    <3> SUFFICES ASSUME NEW r \in Services, NEW u \in Threads
                 PROVE  mutex'[r] = u <=> Holds(u, r)'
      BY DEF MutexDiscipline
    <3>1. Holds(u, r)' <=> IF u = t THEN r = s /\ NeedsMutex(call[t]) ELSE Holds(u, r)
      BY <1>9
    <3>2. mutex[r] = u <=> Holds(u, r)
      BY <1>7
    <3>3. u = t => ~Holds(u, r)
      BY <1>8
    <3> QED
      BY <1>11, <2>1, <3>1, <3>2, <3>3
  <2>3. \A j \in Instances \ ThreadSafe : \A u \in Threads : Inside(u, j)' => Inside(u, j)
    BY <1>3, <1>5, <1>11 DEF Inside, InstanceOf, NeedsMutex
  <2> QED
    BY <1>1, <2>2, <2>3 DEF InstanceExclusive
<1> QED
  BY <1>10, <1>11

LEMMA MutexInvStep == MutexInv /\ [Next]_vars => MutexInv'
<1> SUFFICES ASSUME MutexInv, [Next]_vars PROVE MutexDiscipline' /\ InstanceExclusive'
  BY ServicesInvStep DEF MutexInv
<1>1. ServicesInv /\ TypeInv /\ MutexDiscipline /\ InstanceExclusive
  BY DEF MutexInv, ServicesInv
<1>2. ASSUME \A t \in Threads : call[t].pc = "idle", UNCHANGED <<mutex, call>>, up, up' = up
      PROVE  MutexDiscipline' /\ InstanceExclusive'
  <2>1. \A t \in Threads : call[t].pc # "inside" /\ call'[t].pc # "inside"
    BY <1>2
  <2>2. \A t \in Threads : \A s \in Services : ~Holds(t, s) /\ ~Holds(t, s)'
    BY <2>1 DEF Holds
  <2>3. \A t \in Threads : \A i \in Instances : ~Inside(t, i)'
    BY <2>1 DEF Inside
  <2> QED
    BY <1>1, <1>2, <2>2, <2>3 DEF MutexDiscipline, InstanceExclusive
<1>3. ASSUME NEW r \in Registrations, AddService(r[1], r[2])
      PROVE  MutexDiscipline' /\ InstanceExclusive'
  BY <1>2, <1>3 DEF AddService, Quiet
<1>4. ASSUME NEW n \in DOMAIN services, RemoveService(n)
      PROVE  MutexDiscipline' /\ InstanceExclusive'
  BY <1>2, <1>4 DEF RemoveService, Quiet
<1>5. ASSUME NEW t \in Threads, Receive(t)
      PROVE  MutexDiscipline' /\ InstanceExclusive'
  <2>1. PICK d \in Docs :
           call' = [call EXCEPT ![t] =
                       [IdleCall EXCEPT !.pc = "process", !.doc = d, !.msg = Parse(d)]]
    BY <1>5 DEF Receive
  <2> DEFINE c == [IdleCall EXCEPT !.pc = "process", !.doc = d, !.msg = Parse(d)]
  <2>2. c.pc # "inside"
    BY DEF IdleCall
  <2>3. call' = [call EXCEPT ![t] = c]
    BY <2>1
  <2>4. call[t].pc # "inside" /\ UNCHANGED <<up, created, mutex>>
    BY <1>5 DEF Receive
  <2> HIDE DEF c
  <2> QED
    BY <1>1, <2>2, <2>3, <2>4, OutsideStep
<1>6. ASSUME NEW t \in Threads, Process(t)
      PROVE  MutexDiscipline' /\ InstanceExclusive'
  <2>1. call[t].pc # "inside" /\ UNCHANGED <<up, created, mutex>>
    BY <1>6 DEF Process
  <2>2. call[t] \in CallShape /\ call \in [Threads -> CallShape]
    BY <1>1, ServingCall DEF TypeInv, TypeOK
  <2>3. CASE \E r \in DirectReplies(call[t].msg) : call' = [call EXCEPT ![t] = Answer(@, r)]
    <3>1. PICK r \in DirectReplies(call[t].msg) : call' = [call EXCEPT ![t] = Answer(call[t], r)]
      BY <2>3
    <3>2. Answer(call[t], r).pc # "inside"
      BY <2>2 DEF Answer, CallShape
    <3> QED
      BY <1>1, <2>1, <3>1, <3>2, OutsideStep
  <2>4. CASE call' = [call EXCEPT ![t].pc = "bind", ![t].alt = 1,
                          ![t].service = services[ServiceName(call[t].msg.name)]]
    <3> DEFINE c == [call[t] EXCEPT !.pc = "bind", !.alt = 1,
                        !.service = services[ServiceName(call[t].msg.name)]]
    <3>1. c.pc # "inside"
      BY <2>2 DEF CallShape
    <3>2. call' = [call EXCEPT ![t] = c]
      BY <2>2, <2>4
    <3> HIDE DEF c
    <3> QED
      BY <1>1, <2>1, <3>1, <3>2, OutsideStep
  <2> QED
    BY <1>6, <2>3, <2>4 DEF Process
<1>7. ASSUME NEW t \in Threads, Bind(t)
      PROVE  MutexDiscipline' /\ InstanceExclusive'
  <2>1. call[t].pc # "inside" /\ UNCHANGED <<up, created, mutex>>
    BY <1>7 DEF Bind
  <2>2. call[t] \in CallShape
    BY <1>1, ServingCall
  <2>3. NextOverload(call[t]).pc # "inside"
    BY <2>2, NextOverloadShape
  <2> DEFINE c == IF Arguments(call[t]).ok THEN [call[t] EXCEPT !.pc = "enter"]
                                           ELSE NextOverload(call[t])
  <2>4. c.pc # "inside"
    BY <2>2, <2>3 DEF CallShape
  <2>5. call' = [call EXCEPT ![t] = c]
    BY <1>7 DEF Bind
  <2> HIDE DEF c
  <2> QED
    BY <1>1, <2>1, <2>4, <2>5, OutsideStep
<1>8. ASSUME NEW t \in Threads, Enter(t)
      PROVE  MutexDiscipline' /\ InstanceExclusive'
  BY <1>8, EnterStep
<1>9. ASSUME NEW t \in Threads, Reject(t)
      PROVE  MutexDiscipline' /\ InstanceExclusive'
  <2>1. /\ up /\ call[t].pc = "inside" /\ Unlock(call[t]) /\ UNCHANGED <<up, created>>
        /\ call' = [call EXCEPT ![t] = NextOverload(call[t])]
    BY <1>9 DEF Reject
  <2>2. NextOverload(call[t]).pc # "inside"
    BY <1>1, ServingCall, NextOverloadShape
  <2> QED
    BY <1>1, <2>1, <2>2, LeaveStep
<1>10. ASSUME NEW t \in Threads, Finish(t)
      PROVE  MutexDiscipline' /\ InstanceExclusive'
  <2>1. up /\ call[t].pc = "inside" /\ Unlock(call[t]) /\ UNCHANGED <<up, created>>
    BY <1>10 DEF Finish
  <2> DEFINE a == Answer(call[t], CreateResponse(call[t].msg, Overload(call[t]).result))
             c == [a EXCEPT !.runs = @ + 1]
  <2>2. call' = [call EXCEPT ![t] = c]
    BY <1>10 DEF Finish
  <2>3. c.pc # "inside"
    <3>1. a \in CallShape /\ a.pc = "reply"
      BY <1>1, ServingCall, ResultReplyShape, AnswerShape
    <3> HIDE DEF a
    <3> QED
      BY <3>1 DEF CallShape
  <2> HIDE DEF c
  <2> QED
    BY <1>1, <2>1, <2>2, <2>3, LeaveStep
<1>11. ASSUME NEW t \in Threads, Throw(t) \/ Crash(t)
      PROVE  MutexDiscipline' /\ InstanceExclusive'
  <2>1. ~up' /\ UNCHANGED <<created, call>>
    BY <1>11 DEF Throw, Crash
  <2> QED
    BY <1>1, <2>1 DEF MutexDiscipline, InstanceExclusive, Inside, InstanceOf
<1>12. ASSUME NEW t \in Threads, Return(t)
      PROVE  MutexDiscipline' /\ InstanceExclusive'
  <2>1. /\ call[t].pc # "inside" /\ UNCHANGED <<up, created, mutex>>
        /\ call' = [call EXCEPT ![t] = IdleCall]
    BY <1>12 DEF Return
  <2>2. IdleCall.pc # "inside"
    BY DEF IdleCall
  <2> QED
    BY <1>1, <2>1, <2>2, OutsideStep
<1>13. CASE UNCHANGED vars
  BY <1>1, <1>13 DEF vars, MutexDiscipline, InstanceExclusive, Holds, Inside, NeedsMutex, InstanceOf
<1> QED
  BY <1>3, <1>4, <1>5, <1>6, <1>7, <1>8, <1>9, <1>10, <1>11, <1>12, <1>13, NextCases

(* While the process lives a mutex is owned exactly by the thread that is  *)
(* inside a method of the service and needs it.                            *)
THEOREM MutexesBalanced == Spec => []MutexDiscipline
<1>1. MutexInv => MutexDiscipline
  BY DEF MutexInv
<1> QED
  BY MutexInvInit, MutexInvStep, <1>1, PTL DEF Spec

(* No instance is inside two calls unless its type is thread safe, for any *)
(* number of threads and any registrations that give it one name.          *)
THEOREM InstancesExclusive == Spec => []InstanceExclusive
<1>1. MutexInv => InstanceExclusive
  BY DEF MutexInv
<1> QED
  BY MutexInvInit, MutexInvStep, <1>1, PTL DEF Spec

(* A thread that has a message can take its next step, but for one that    *)
(* waits in lock_guard for a mutex that is taken.                          *)
Ready(t) == /\ call[t].pc # "idle"
            /\ call[t].pc = "enter" /\ NeedsMutex(call[t])
                  => mutex[call[t].service] = NoThread

(* Who waits, waits for a thread that is inside a method of the service    *)
(* and waits for nothing itself; so some thread with a message is ready.   *)
NoDeadlock ==
    up => \A t \in Threads : call[t].pc # "idle" /\ ~Ready(t) =>
             \E u \in Threads : Holds(u, call[t].service) /\ Ready(u)

(* No combination of messages, overloads and mutexes makes the threads     *)
(* wait for each other: a thread takes a mutex while it holds none.        *)
THEOREM NeverDeadlocked == Spec => []NoDeadlock
<1>1. MutexInv => NoDeadlock
  <2> SUFFICES ASSUME MutexInv, up, NEW t \in Threads, call[t].pc # "idle", ~Ready(t)
               PROVE  \E u \in Threads : Holds(u, call[t].service) /\ Ready(u)
    BY DEF NoDeadlock
  <2> DEFINE s == call[t].service
  <2>1. call[t].pc = "enter" /\ NeedsMutex(call[t]) /\ mutex[s] # NoThread
    BY DEF Ready
  <2>2. TypeInv /\ MutexDiscipline
    BY DEF MutexInv, ServicesInv
  <2>3. s \in Services
    BY <2>1, <2>2, ServingCall DEF Serving
  <2>4. mutex \in [Services -> Threads \cup {NoThread}]
    BY <2>2 DEF TypeInv, TypeOK
  <2> HIDE DEF s
  <2>5. mutex[s] \in Threads
    BY <2>1, <2>3, <2>4
  <2>6. Holds(mutex[s], s)
    BY <2>2, <2>3, <2>5 DEF MutexDiscipline
  <2>7. Ready(mutex[s])
    BY <2>6 DEF Holds, Ready
  <2> QED
    BY <2>5, <2>6, <2>7 DEF s
<1> QED
  BY MutexInvInit, MutexInvStep, <1>1, PTL DEF Spec

-----------------------------------------------------------------------------
(***************************************************************************)
(* The answers.                                                            *)
(***************************************************************************)

(* The reply to a request carries the id in its message; a result stands   *)
(* for exactly one execution (or for the description of the services), an  *)
(* error for none, over every order of failing and accepting overloads.    *)
AnswersRequest(c) ==
    /\ c.reply.kind \in {"result", "error"}
    /\ c.reply.id = c.msg.id
    /\ c.reply.kind = "error" => c.runs = 0
    /\ c.reply.kind = "result" /\ c.msg.name # <<"__init__">> => c.runs = 1

(* A call has executed nothing before it is answered, and its answer fits. *)
Answered(c) ==
    /\ c.pc # "reply" => c.runs = 0
    /\ c.pc = "reply" /\ c.msg.entity = "request" => AnswersRequest(c)

AnswersInv == TypeInv /\ \A t \in Threads : Answered(call[t])

LEMMA IdleAnswered == Answered(IdleCall)
BY DEF Answered, IdleCall

LEMMA AnswersInit == Init => AnswersInv
BY TypeInvInit, IdleAnswered DEF AnswersInv, Init

(* An error with the id of the message answers a call that has executed    *)
(* nothing.                                                                *)
LEMMA ErrorAnswers ==
    ASSUME NEW c \in CallShape, NEW code, c.runs = 0,
           NEW a, a.pc = "reply", a.runs = c.runs, a.msg = c.msg,
           a.reply = CreateErrorResponse(c.msg, code)
    PROVE  Answered(a)
BY DEF Answered, AnswersRequest, CreateErrorResponse, Reply

LEMMA DirectAnswers ==
    ASSUME NEW c \in CallShape, c.runs = 0, NEW r \in DirectReplies(c.msg)
    PROVE  Answered(Answer(c, r))
<1>1. /\ r \in ReplyShape /\ Answer(c, r).pc = "reply" /\ Answer(c, r).reply = r
      /\ Answer(c, r).runs = 0 /\ Answer(c, r).msg = c.msg
  <2>1. c.msg \in MessageShape
    BY DEF CallShape
  <2> QED
    BY <2>1, DirectShape, AnswerShape
<1>2. SUFFICES ASSUME c.msg.entity = "request" PROVE AnswersRequest(Answer(c, r))
  BY <1>1 DEF Answered
<1>3. \/ r = CreateErrorResponse(c.msg, "MethodNotFound")
      \/ /\ c.msg.name = <<"__init__">>
         /\ r = CreateResponse(c.msg, IF info.known THEN "value" ELSE "null")
  BY <1>2 DEF DirectReplies
<1>4. \/ r.kind = "error" /\ r.id = c.msg.id
      \/ r.kind = "result" /\ r.id = c.msg.id /\ c.msg.name = <<"__init__">>
  <2>1. CASE r = CreateErrorResponse(c.msg, "MethodNotFound")
    <3>1. r = [kind |-> "error", id |-> c.msg.id, code |-> "MethodNotFound"]
      BY <1>2, <2>1 DEF CreateErrorResponse, Reply
    <3> QED
      BY <3>1
  <2>2. CASE /\ c.msg.name = <<"__init__">>
             /\ r = CreateResponse(c.msg, IF info.known THEN "value" ELSE "null")
    <3>1. r = [kind |-> "result", id |-> c.msg.id, code |-> NoCode]
      BY <1>2, <2>2, Zenon DEF CreateResponse, Reply
    <3>2. r.kind = "result" /\ r.id = c.msg.id
      BY <3>1
    <3> QED
      BY <2>2, <3>2, Zenon
  <2> QED
    BY <1>3, <2>1, <2>2
<1> QED
  BY <1>1, <1>4 DEF AnswersRequest

LEMMA NextOverloadAnswers ==
    ASSUME NEW c \in CallShape, c.runs = 0
    PROVE  Answered(NextOverload(c))
<1> DEFINE n == NextOverload(c)
<1>1. /\ n.pc \in {"bind", "reply"} /\ n.runs = c.runs /\ n.msg = c.msg
      /\ n.pc = "reply" => \E code \in Codes : n.reply = CreateErrorResponse(c.msg, code)
  BY NextOverloadShape
<1> SUFFICES Answered(n)
  OBVIOUS
<1> HIDE DEF n
<1>2. CASE n.pc = "reply"
  BY <1>1, <1>2, ErrorAnswers
<1>3. CASE n.pc = "bind"
  BY <1>1, <1>3 DEF Answered
<1> QED
  BY <1>1, <1>2, <1>3

LEMMA AnswersStep == AnswersInv /\ [Next]_vars => AnswersInv'
<1> SUFFICES ASSUME AnswersInv, [Next]_vars
             PROVE  \A t \in Threads : Answered(call'[t])
  BY TypeInvStep DEF AnswersInv, Answered, AnswersRequest
<1>1. TypeInv /\ call \in [Threads -> CallShape] /\ \A t \in Threads : Answered(call[t])
  BY DEF AnswersInv, TypeInv, TypeOK
<1>2. ASSUME NEW t \in Threads, NEW c, Answered(c), call' = [call EXCEPT ![t] = c]
      PROVE  \A u \in Threads : Answered(call'[u])
  <2>1. \A u \in Threads : call'[u] \in {c, call[u]}
    BY <1>1, <1>2
  <2> QED
    BY <1>1, <1>2, <2>1
<1>3. ASSUME NEW t \in Threads, call[t].pc # "reply"
      PROVE  call[t] \in CallShape /\ call[t].runs = 0
  BY <1>1, <1>3 DEF Answered
<1>4. ASSUME NEW t \in Threads, Receive(t)
      PROVE  \A u \in Threads : Answered(call'[u])
  <2>1. PICK d \in Docs :
           call' = [call EXCEPT ![t] =
                       [IdleCall EXCEPT !.pc = "process", !.doc = d, !.msg = Parse(d)]]
    BY <1>4 DEF Receive
  <2> DEFINE c == [IdleCall EXCEPT !.pc = "process", !.doc = d, !.msg = Parse(d)]
  <2>2. Answered(c)
    BY DEF IdleCall, Answered
  <2>3. call' = [call EXCEPT ![t] = c]
    BY <2>1
  <2> HIDE DEF c
  <2> QED
    BY <1>2, <2>2, <2>3
<1>5. ASSUME NEW t \in Threads, Process(t)
      PROVE  \A u \in Threads : Answered(call'[u])
  <2>1. call[t] \in CallShape /\ call[t].runs = 0
    BY <1>3, <1>5 DEF Process
  <2>2. CASE \E r \in DirectReplies(call[t].msg) : call' = [call EXCEPT ![t] = Answer(@, r)]
    BY <1>1, <1>2, <2>1, <2>2, DirectAnswers
  <2>3. CASE call' = [call EXCEPT ![t].pc = "bind", ![t].alt = 1,
                          ![t].service = services[ServiceName(call[t].msg.name)]]
    <3> DEFINE c == [call[t] EXCEPT !.pc = "bind", !.alt = 1,
                        !.service = services[ServiceName(call[t].msg.name)]]
    <3>1. Answered(c)
      BY <2>1 DEF CallShape, Answered
    <3>2. call' = [call EXCEPT ![t] = c]
      BY <1>1, <2>1, <2>3
    <3> HIDE DEF c
    <3> QED
      BY <1>2, <3>1, <3>2
  <2> QED
    BY <1>5, <2>2, <2>3 DEF Process
<1>6. ASSUME NEW t \in Threads, Bind(t)
      PROVE  \A u \in Threads : Answered(call'[u])
  <2>1. call[t] \in CallShape /\ call[t].runs = 0
    BY <1>3, <1>6 DEF Bind
  <2>2. Answered(NextOverload(call[t]))
    BY <2>1, NextOverloadAnswers
  <2>3. Answered([call[t] EXCEPT !.pc = "enter"])
    BY <2>1 DEF CallShape, Answered
  <2>4. \/ call' = [call EXCEPT ![t] = NextOverload(call[t])]
        \/ call' = [call EXCEPT ![t] = [call[t] EXCEPT !.pc = "enter"]]
    BY <1>6 DEF Bind
  <2> QED
    BY <1>2, <2>2, <2>3, <2>4
<1>7. ASSUME NEW t \in Threads, Enter(t)
      PROVE  \A u \in Threads : Answered(call'[u])
  <2> DEFINE c == [call[t] EXCEPT !.pc = "inside", !.local = cell[InstanceOf(call[t])]]
  <2>1. call[t] \in CallShape /\ call[t].runs = 0
    BY <1>3, <1>7 DEF Enter
  <2>2. Answered(c)
    BY <2>1 DEF CallShape, Answered
  <2>3. call' = [call EXCEPT ![t] = c]
    BY <1>1, <1>7 DEF Enter
  <2> HIDE DEF c
  <2> QED
    BY <1>2, <2>2, <2>3
<1>8. ASSUME NEW t \in Threads, Reject(t)
      PROVE  \A u \in Threads : Answered(call'[u])
  <2>1. Answered(NextOverload(call[t]))
    BY <1>3, <1>8, NextOverloadAnswers DEF Reject
  <2>2. call' = [call EXCEPT ![t] = NextOverload(call[t])]
    BY <1>8 DEF Reject
  <2> QED
    BY <1>2, <2>1, <2>2
<1>9. ASSUME NEW t \in Threads, Finish(t)
      PROVE  \A u \in Threads : Answered(call'[u])
  <2> DEFINE r == CreateResponse(call[t].msg, Overload(call[t]).result)
             a == Answer(call[t], r)
             c == [a EXCEPT !.runs = @ + 1]
  <2>1. call[t] \in CallShape /\ call[t].runs = 0 /\ call[t].msg \in MessageShape
    BY <1>3, <1>9 DEF Finish, CallShape
  <2>2. /\ r \in ReplyShape
        /\ call[t].msg.entity = "request" => r.kind = "result" /\ r.id = call[t].msg.id
    BY <2>1, ResultReplyShape DEF CreateResponse, Reply
  <2> HIDE DEF r
  <2>3. /\ a \in CallShape /\ a.pc = "reply" /\ a.reply = r /\ a.runs = 0
        /\ a.msg = call[t].msg
    BY <2>1, <2>2, AnswerShape
  <2> HIDE DEF a
  <2>4. c.pc = "reply" /\ c.reply = r /\ c.runs = 1 /\ c.msg = call[t].msg
    BY <2>3 DEF CallShape
  <2>5. call' = [call EXCEPT ![t] = c]
    BY <1>9 DEF Finish, a, r
  <2> HIDE DEF c
  <2>6. Answered(c)
    BY <2>2, <2>4 DEF Answered, AnswersRequest
  <2> QED
    BY <1>2, <2>5, <2>6
<1>10. ASSUME NEW t \in Threads, Return(t)
      PROVE  \A u \in Threads : Answered(call'[u])
  BY <1>2, <1>10, IdleAnswered DEF Return
<1>11. CASE UNCHANGED call
  BY <1>1, <1>11
<1>12. \/ \E t \in Threads : \/ Receive(t) \/ Process(t) \/ Bind(t) \/ Enter(t)
                             \/ Reject(t) \/ Finish(t) \/ Return(t)
       \/ UNCHANGED call
  BY NextCases DEF AddService, RemoveService, Throw, Crash, vars
<1> QED
  BY <1>4, <1>5, <1>6, <1>7, <1>8, <1>9, <1>10, <1>11, <1>12

-----------------------------------------------------------------------------
(***************************************************************************)
(* What is written reads back.                                             *)
(***************************************************************************)

(* An int is cut to itself, so an id is cut at most once.                  *)
LEMMA TruncateFixes == \A v \in IntRange : Truncate(v) = v
<1> SUFFICES ASSUME NEW v \in IntRange PROVE Truncate(v) = v
  OBVIOUS
<1> DEFINE n == 2 * Half
           x == v + Half
<1>1. n \in Nat \ {0} /\ x \in 0 .. n - 1 /\ x - Half = v
  BY DEF IntRange
<1> HIDE DEF n, x
<1>2. x % n = x
  BY <1>1, SMT
<1> QED
  BY <1>1, <1>2 DEF Truncate, n, x

(* The id of a message is written as it is, and read as it is.             *)
LEMMA IdReadsBack ==
    ASSUME NEW id \in MessageIds, id.type = "null" => id = NullId
    PROVE  /\ WriteId(id) = id
           /\ IdParses(id) /\ id.type # "none"
           /\ ParseId(id) = id
<1>1. id.type \in {"null", "integer", "string"} /\ id = [type |-> id.type, value |-> id.value]
  BY DEF MessageIds
<1>2. CASE id.type = "integer"
  <2>1. Truncate(id.value) = id.value
    BY <1>2, TruncateFixes DEF MessageIds
  <2>2. [id EXCEPT !.value = id.value] = id
    BY <1>1
  <2> QED
    BY <1>2, <2>1, <2>2 DEF WriteId, IdParses, ParseId
<1>3. CASE id.type # "integer"
  BY <1>1, <1>3 DEF WriteId, IdParses, ParseId
<1> QED
  BY <1>2, <1>3

(* A request that the parser makes of a document has a name and an id it   *)
(* writes, a notification a name.                                          *)
LEMMA ParsedMessage ==
    ASSUME NEW d \in Docs, NEW m, m = Parse(d)
    PROVE  /\ m.entity \in {"request", "notification"} => m.name # NoName
           /\ m.entity = "request" =>
                 /\ m.id.type = "null" => m.id = NullId
                 /\ m = Message("request", m.id, m.name, m.params)
           /\ m.entity = "notification" =>
                 m = Message("notification", NullId, m.name, m.params)
<1> DEFINE Error == \E code \in Codes : m = ErrorMessage(code)
<1>1. CASE Error
  BY <1>1 DEF ErrorMessage, Message
<1>2. CASE IsRequest(d)
  <2>1. m = ParseRequest(d)
    BY <1>2 DEF Parse
  <2>2. CASE IdParses(d.id) /\ NotificationParses(d)
    <3>1. m = Message("request", ParseId(d.id), d.method.name, d.params)
      BY <2>1, <2>2 DEF ParseRequest
    <3>2. d.method.name # NoName
      BY <2>2 DEF NotificationParses
    <3>3. ParseId(d.id).type = "null" => ParseId(d.id) = NullId
      BY DEF ParseId
    <3> QED
      BY <3>1, <3>2, <3>3 DEF Message
  <2>3. CASE ~(IdParses(d.id) /\ NotificationParses(d))
    BY <1>1, <2>1, <2>3 DEF ParseRequest, Codes
  <2> QED
    BY <2>2, <2>3
<1>3. CASE IsNotification(d)
  <2>1. m = ParseNotification(d)
    BY <1>3 DEF Parse, IsRequest, IsNotification
  <2>2. CASE NotificationParses(d)
    <3>1. m = Message("notification", NullId, d.method.name, d.params)
      BY <2>1, <2>2 DEF ParseNotification
    <3>2. d.method.name # NoName
      BY <2>2 DEF NotificationParses
    <3> QED
      BY <3>1, <3>2 DEF Message
  <2>3. CASE ~NotificationParses(d)
    BY <1>1, <2>1, <2>3 DEF ParseNotification, Codes
  <2> QED
    BY <2>2, <2>3
<1>4. CASE ~IsRequest(d) /\ ~IsNotification(d)
  <2>1. \/ m = ParseResponse(d) \/ m = ParseBatch(d)
        \/ m = ErrorMessage("ParseError") \/ m = ErrorMessage("InvalidRequest")
    BY <1>4 DEF Parse
  <2>2. \/ Error
        \/ \E id : m = Message("response", id, NoName, NoParams)
        \/ m = Message("batch", NullId, NoName, NoParams)
    BY <2>1 DEF ParseResponse, ParseBatch, Codes
  <2>3. ASSUME NEW id, \/ m = Message("response", id, NoName, NoParams)
                       \/ m = Message("batch", id, NoName, NoParams)
        PROVE  m.entity \notin {"request", "notification"}
    BY <2>3 DEF Message
  <2> QED
    BY <1>1, <2>2, <2>3
<1> QED
  BY <1>2, <1>3, <1>4

LEMMA MessagesRead == \A d \in Docs : MessageReadsBack(Parse(d))
<1> SUFFICES ASSUME NEW d \in Docs PROVE MessageReadsBack(Parse(d))
  OBVIOUS
<1> DEFINE m == Parse(d)
           w == Written(m)
<1>1. m \in MessageShape
  BY ParseShape
<1>2. /\ m.entity \in {"request", "notification"} => m.name # NoName
      /\ m.entity = "request" => /\ m.id.type = "null" => m.id = NullId
                                 /\ m = Message("request", m.id, m.name, m.params)
      /\ m.entity = "notification" => m = Message("notification", NullId, m.name, m.params)
  BY ParsedMessage
<1> HIDE DEF m
<1>3. CASE m.entity = "request"
  <2>1. m.id \in MessageIds
    BY <1>1 DEF MessageShape
  <2>2. /\ WriteId(m.id) = m.id /\ IdParses(m.id) /\ m.id.type # "none"
        /\ ParseId(m.id) = m.id
    BY <1>2, <1>3, <2>1, IdReadsBack
  <2>3. /\ w.shape = "object" /\ w.version = "2.0"
        /\ w.method.given = "string" /\ w.method.name = m.name
        /\ w.id = m.id /\ w.params = m.params
    BY <1>3, <2>2 DEF Written, WriteRequest, WriteNotification
  <2> HIDE DEF w
  <2>4. IsRequest(w) /\ NotificationParses(w)
    BY <1>2, <1>3, <2>2, <2>3 DEF IsRequest, NotificationParses
  <2>5. Parse(w) = Message("request", m.id, m.name, m.params)
    BY <2>2, <2>3, <2>4 DEF Parse, ParseRequest
  <2> QED
    BY <1>2, <1>3, <2>5 DEF MessageReadsBack, m, w
<1>4. CASE m.entity = "notification"
  <2>1. /\ w.shape = "object" /\ w.version = "2.0"
        /\ w.method.given = "string" /\ w.method.name = m.name
        /\ w.id = NoId /\ w.params = m.params
    BY <1>4 DEF Written, WriteNotification
  <2> HIDE DEF w
  <2>2. w.id.type = "none"
    BY <2>1 DEF NoId
  <2>3. m.name # NoName
    BY <1>2, <1>4
  <2>4. IsNotification(w) /\ ~IsRequest(w) /\ NotificationParses(w)
    BY <2>1, <2>2, <2>3 DEF IsNotification, IsRequest, NotificationParses
  <2>5. Parse(w) = Message("notification", NullId, m.name, m.params)
    BY <2>1, <2>4 DEF Parse, ParseNotification
  <2> QED
    BY <1>2, <1>4, <2>5 DEF MessageReadsBack, m, w
<1> QED
  BY <1>3, <1>4 DEF MessageReadsBack, m

(* A reply to a request is written with the request's id.  It is read as a *)
(* response if it is a result and the id is not null, and as an invalid    *)
(* request otherwise.                                                      *)
LEMMA ReplyReads ==
    ASSUME NEW m \in MessageShape, NEW r, m.entity = "request" => r.id = m.id
    PROVE  ReplyReadsBack(m, r)
<1> SUFFICES ASSUME m.entity = "request"
             PROVE  Parse(WriteReply(r)) =
                        IF r.kind = "result" /\ m.id.type # "null"
                        THEN Message("response", m.id, NoName, NoParams)
                        ELSE ErrorMessage("InvalidRequest")
  BY DEF ReplyReadsBack
<1> DEFINE w == WriteReply(r)
<1>1. m.id \in MessageIds /\ r.id = m.id
  BY DEF MessageShape
<1>2. /\ w.shape = "object" /\ w.version = "2.0" /\ w.method.given = "none"
      /\ w.id = IF m.id.type = "null" THEN NoId ELSE WriteId(m.id)
      /\ w.result <=> r.kind = "result"
  BY <1>1 DEF WriteReply
<1> HIDE DEF w
<1>3. ~IsRequest(w) /\ ~IsNotification(w)
  BY <1>2 DEF IsRequest, IsNotification
<1>4. CASE r.kind = "result" /\ m.id.type # "null"
  <2>1. WriteId(m.id) = m.id /\ IdParses(m.id) /\ m.id.type # "none" /\ ParseId(m.id) = m.id
    BY <1>1, <1>4, IdReadsBack
  <2>2. w.id = m.id /\ w.result
    BY <1>2, <1>4, <2>1
  <2>3. IsResponse(w)
    BY <1>2, <2>1, <2>2 DEF IsResponse
  <2>4. Parse(w) = Message("response", m.id, NoName, NoParams)
    BY <1>2, <1>3, <2>1, <2>2, <2>3 DEF Parse, ParseResponse
  <2> QED
    BY <1>4, <2>4 DEF w
<1>5. CASE ~(r.kind = "result" /\ m.id.type # "null")
  <2>1. ~IsResponse(w)
    <3>1. CASE r.kind # "result"
      BY <1>2, <3>1 DEF IsResponse
    <3>2. CASE m.id.type = "null"
      BY <1>2, <3>2 DEF IsResponse, NoId
    <3> QED
      BY <1>5, <3>1, <3>2
  <2>2. Parse(w) = ErrorMessage("InvalidRequest")
    BY <1>2, <1>3, <2>1 DEF Parse
  <2> QED
    BY <1>5, <2>2 DEF w
<1> QED
  BY <1>4, <1>5

(* A thread's message is the one it has parsed, or none.                   *)
MessagesReadBack == \A t \in Threads : MessageReadsBack(call[t].msg)

ReadsInv == AnswersInv /\ MessagesReadBack

LEMMA NoMessageReads == MessageReadsBack(NoMessage)
BY DEF MessageReadsBack, NoMessage, Message

LEMMA ReadsInit == Init => ReadsInv
BY AnswersInit, NoMessageReads DEF ReadsInv, MessagesReadBack, Init, IdleCall

(* Only Receive and Return change a message and its document.              *)
LEMMA KeepsMessages ==
    ASSUME TypeInv, NEW t \in Threads,
           Process(t) \/ Bind(t) \/ Enter(t) \/ Reject(t) \/ Finish(t)
    PROVE  \A u \in Threads : call'[u].msg = call[u].msg /\ call'[u].doc = call[u].doc
<1>1. call \in [Threads -> CallShape] /\ call[t] \in CallShape
  BY DEF TypeInv, TypeOK
<1>2. \A r : Answer(call[t], r).msg = call[t].msg /\ Answer(call[t], r).doc = call[t].doc
  BY <1>1 DEF Answer, CallShape
<1>3. NextOverload(call[t]).msg = call[t].msg /\ NextOverload(call[t]).doc = call[t].doc
  BY <1>1, NextOverloadShape
<1>4. ASSUME NEW c, c.msg = call[t].msg, c.doc = call[t].doc,
             call' = [call EXCEPT ![t] = c]
      PROVE  \A u \in Threads : call'[u].msg = call[u].msg /\ call'[u].doc = call[u].doc
  BY <1>1, <1>4
<1>5. CASE Process(t)
  <2>1. CASE \E r \in DirectReplies(call[t].msg) : call' = [call EXCEPT ![t] = Answer(@, r)]
    BY <1>1, <1>2, <1>4, <2>1
  <2>2. CASE call' = [call EXCEPT ![t].pc = "bind", ![t].alt = 1,
                          ![t].service = services[ServiceName(call[t].msg.name)]]
    BY <1>1, <2>2 DEF CallShape
  <2> QED
    BY <1>5, <2>1, <2>2 DEF Process
<1>6. CASE Bind(t)
  <2>1. CASE call' = [call EXCEPT ![t] = NextOverload(@)]
    BY <1>1, <1>3, <1>4, <2>1
  <2>2. CASE call' = [call EXCEPT ![t] = [@ EXCEPT !.pc = "enter"]]
    BY <1>1, <2>2 DEF CallShape
  <2> QED
    BY <1>1, <1>6, <2>1, <2>2 DEF Bind
<1>7. CASE Enter(t)
  <2>1. call' = [call EXCEPT ![t].pc = "inside", ![t].local = cell[InstanceOf(call[t])]]
    BY <1>7 DEF Enter
  <2> QED
    BY <1>1, <2>1 DEF CallShape
<1>8. CASE Reject(t)
  BY <1>1, <1>3, <1>4, <1>8 DEF Reject
<1>9. CASE Finish(t)
  <2> DEFINE a == Answer(call[t], CreateResponse(call[t].msg, Overload(call[t]).result))
             c == [a EXCEPT !.runs = @ + 1]
  <2>1. call' = [call EXCEPT ![t] = c]
    BY <1>9 DEF Finish
  <2>2. a.msg = call[t].msg /\ a.doc = call[t].doc
    BY <1>2
  <2> HIDE DEF a
  <2>3. c.msg = a.msg /\ c.doc = a.doc
    OBVIOUS
  <2> HIDE DEF c
  <2> QED
    BY <1>4, <2>1, <2>2, <2>3
<1> QED
  BY <1>5, <1>6, <1>7, <1>8, <1>9

LEMMA ReadsStep == ReadsInv /\ [Next]_vars => ReadsInv'
<1> SUFFICES ASSUME ReadsInv, [Next]_vars
             PROVE  MessagesReadBack'
  BY AnswersStep DEF ReadsInv
<1>1. TypeInv /\ call \in [Threads -> CallShape] /\ MessagesReadBack
  BY DEF ReadsInv, AnswersInv, TypeInv, TypeOK
<1>2. ASSUME NEW t \in Threads, NEW c, MessageReadsBack(c.msg), call' = [call EXCEPT ![t] = c]
      PROVE  MessagesReadBack'
  <2>1. \A u \in Threads : call'[u] \in {c, call[u]}
    BY <1>1, <1>2
  <2> QED
    BY <1>1, <1>2, <2>1 DEF MessagesReadBack, MessageReadsBack
<1>3. ASSUME NEW t \in Threads, Receive(t)
      PROVE  MessagesReadBack'
  <2>1. PICK d \in Docs :
           call' = [call EXCEPT ![t] =
                       [IdleCall EXCEPT !.pc = "process", !.doc = d, !.msg = Parse(d)]]
    BY <1>3 DEF Receive
  <2> DEFINE c == [IdleCall EXCEPT !.pc = "process", !.doc = d, !.msg = Parse(d)]
  <2>2. c.msg = Parse(d)
    BY DEF IdleCall
  <2>3. call' = [call EXCEPT ![t] = c]
    BY <2>1
  <2> HIDE DEF c
  <2>4. MessageReadsBack(c.msg)
    BY <2>2, MessagesRead
  <2> QED
    BY <1>2, <2>3, <2>4
<1>4. ASSUME NEW t \in Threads, Return(t)
      PROVE  MessagesReadBack'
  <2>1. MessageReadsBack(IdleCall.msg)
    BY NoMessageReads DEF IdleCall
  <2>2. call' = [call EXCEPT ![t] = IdleCall]
    BY <1>4 DEF Return
  <2> QED
    BY <1>2, <2>1, <2>2
<1>5. ASSUME NEW t \in Threads,
             Process(t) \/ Bind(t) \/ Enter(t) \/ Reject(t) \/ Finish(t)
      PROVE  MessagesReadBack'
  BY <1>1, <1>5, KeepsMessages DEF MessagesReadBack, MessageReadsBack
<1>6. CASE UNCHANGED call
  BY <1>1, <1>6 DEF MessagesReadBack, MessageReadsBack
<1>7. \/ \E t \in Threads : \/ Receive(t) \/ Process(t) \/ Bind(t) \/ Enter(t)
                            \/ Reject(t) \/ Finish(t) \/ Return(t)
      \/ UNCHANGED call
  BY NextCases DEF AddService, RemoveService, Throw, Crash, vars
<1> QED
  BY <1>3, <1>4, <1>5, <1>6, <1>7

(* Every message that is processed survives being written and parsed       *)
(* again, and a reply to a request is read as a response to it exactly if  *)
(* it is a result and the request's id is not null, for any documents and  *)
(* any width of int: an id is cut once, by the parser.                     *)
THEOREM MessagesReadBackAlways == Spec => []ReadsBack
<1>1. ReadsInv => ReadsBack
  <2> SUFFICES ASSUME ReadsInv, NEW t \in Threads
               PROVE  /\ MessageReadsBack(call[t].msg)
                      /\ call[t].pc = "reply" => ReplyReadsBack(call[t].msg, call[t].reply)
    BY DEF ReadsBack
  <2>1. MessageReadsBack(call[t].msg)
    BY DEF ReadsInv, MessagesReadBack
  <2>2. call[t].msg \in MessageShape
    BY DEF ReadsInv, AnswersInv, TypeInv, TypeOK, CallShape
  <2>3. ASSUME call[t].pc = "reply"
        PROVE  call[t].msg.entity = "request" => call[t].reply.id = call[t].msg.id
    BY <2>3 DEF ReadsInv, AnswersInv, Answered, AnswersRequest
  <2> QED
    BY <2>1, <2>2, <2>3, ReplyReads
<1> QED
  BY ReadsInit, ReadsStep, <1>1, PTL DEF Spec

-----------------------------------------------------------------------------
(***************************************************************************)
(* The refinement: Repository implements RpcProvider.                      *)
(***************************************************************************)

(* A call inside an instance that is not thread safe has read what the     *)
(* cell still holds: no other call has written since.                      *)
CellsKept ==
    \A t \in Threads :
        call[t].pc = "inside" /\ InstanceOf(call[t]) \notin ThreadSafe =>
            call[t].local = cell[InstanceOf(call[t])]

IInv == MutexInv /\ AnswersInv /\ CellsKept

LEMMA IInvInit == Init => IInv
<1> SUFFICES ASSUME Init PROVE CellsKept
  BY MutexInvInit, AnswersInit DEF IInv
<1> QED
  BY DEF Init, IdleCall, CellsKept

(* A step of t that writes no cell of another call and does not enter.     *)
LEMMA KeepsCells ==
    ASSUME IInv, NEW t \in Threads, NEW c, call' = [call EXCEPT ![t] = c],
           c.pc # "inside", UNCHANGED created,
           \A u \in Threads \ {t} :
               call[u].pc = "inside" /\ InstanceOf(call[u]) \notin ThreadSafe =>
                   cell'[InstanceOf(call[u])] = cell[InstanceOf(call[u])]
    PROVE  CellsKept'
<1>1. call \in [Threads -> CallShape]
  BY DEF IInv, AnswersInv, TypeInv, TypeOK
<1>2. \A u \in Threads : call'[u] = IF u = t THEN c ELSE call[u]
  BY <1>1
<1> SUFFICES ASSUME NEW u \in Threads, call'[u].pc = "inside",
                    InstanceOf(call[u])' \notin ThreadSafe
             PROVE  call'[u].local = cell'[InstanceOf(call[u])']
  BY DEF CellsKept
<1>3. u # t /\ call'[u] = call[u]
  BY <1>2
<1>4. InstanceOf(call[u])' = InstanceOf(call[u])
  BY <1>3 DEF InstanceOf
<1> QED
  BY <1>3, <1>4 DEF IInv, CellsKept

LEMMA CellsStep == IInv /\ [Next]_vars => CellsKept'
<1> SUFFICES ASSUME IInv, [Next]_vars PROVE CellsKept'
  OBVIOUS
<1>1. /\ TypeInv /\ InstanceExclusive /\ CellsKept
      /\ call \in [Threads -> CallShape] /\ cell \in [Instances -> Nat]
  BY DEF IInv, AnswersInv, MutexInv, TypeInv, TypeOK
<1>2. ASSUME \A t \in Threads : call[t].pc # "inside", UNCHANGED call
      PROVE  CellsKept'
  BY <1>2 DEF CellsKept
<1>3. CASE UNCHANGED <<created, call, cell>>
  BY <1>1, <1>3 DEF CellsKept, InstanceOf
<1>4. ASSUME NEW t \in Threads, Receive(t)
      PROVE  CellsKept'
  <2>1. PICK d \in Docs :
           call' = [call EXCEPT ![t] =
                       [IdleCall EXCEPT !.pc = "process", !.doc = d, !.msg = Parse(d)]]
    BY <1>4 DEF Receive
  <2> DEFINE c == [IdleCall EXCEPT !.pc = "process", !.doc = d, !.msg = Parse(d)]
  <2>2. c.pc # "inside" /\ call' = [call EXCEPT ![t] = c]
    BY <2>1 DEF IdleCall
  <2> HIDE DEF c
  <2> QED
    BY <1>4, <2>2, KeepsCells DEF Receive
<1>5. ASSUME NEW t \in Threads, Process(t)
      PROVE  CellsKept'
  <2>1. call[t] \in CallShape
    BY <1>1
  <2>2. CASE \E r \in DirectReplies(call[t].msg) : call' = [call EXCEPT ![t] = Answer(@, r)]
    <3>1. PICK r \in DirectReplies(call[t].msg) : call' = [call EXCEPT ![t] = Answer(call[t], r)]
      BY <2>2
    <3>2. Answer(call[t], r).pc # "inside"
      BY <2>1 DEF Answer, CallShape
    <3> QED
      BY <1>5, <3>1, <3>2, KeepsCells DEF Process
  <2>3. CASE call' = [call EXCEPT ![t].pc = "bind", ![t].alt = 1,
                          ![t].service = services[ServiceName(call[t].msg.name)]]
    <3> DEFINE c == [call[t] EXCEPT !.pc = "bind", !.alt = 1,
                        !.service = services[ServiceName(call[t].msg.name)]]
    <3>1. c.pc # "inside"
      BY <2>1 DEF CallShape
    <3>2. call' = [call EXCEPT ![t] = c]
      BY <1>1, <2>1, <2>3
    <3> HIDE DEF c
    <3> QED
      BY <1>5, <3>1, <3>2, KeepsCells DEF Process
  <2> QED
    BY <1>5, <2>2, <2>3 DEF Process
<1>6. ASSUME NEW t \in Threads, Bind(t)
      PROVE  CellsKept'
  <2>1. NextOverload(call[t]).pc # "inside" /\ [call[t] EXCEPT !.pc = "enter"].pc # "inside"
    BY <1>1, NextOverloadShape DEF CallShape
  <2>2. \/ call' = [call EXCEPT ![t] = NextOverload(call[t])]
        \/ call' = [call EXCEPT ![t] = [call[t] EXCEPT !.pc = "enter"]]
    BY <1>6 DEF Bind
  <2> QED
    BY <1>6, <2>1, <2>2, KeepsCells DEF Bind
<1>7. ASSUME NEW t \in Threads, Enter(t)
      PROVE  CellsKept'
  <2>1. /\ call'[t].local = cell[InstanceOf(call[t])] /\ call'[t].service = call[t].service
        /\ \A u \in Threads \ {t} : call'[u] = call[u]
        /\ UNCHANGED <<created, cell>>
    BY <1>1, <1>7 DEF Enter, CallShape
  <2>2. \A u \in Threads : InstanceOf(call[u])' = InstanceOf(call[u])
    BY <2>1 DEF InstanceOf
  <2> QED
    BY <1>1, <2>1, <2>2 DEF CellsKept
<1>8. ASSUME NEW t \in Threads, Reject(t)
      PROVE  CellsKept'
  <2>1. NextOverload(call[t]).pc # "inside"
    BY <1>1, NextOverloadShape
  <2>2. call' = [call EXCEPT ![t] = NextOverload(call[t])]
    BY <1>8 DEF Reject
  <2> QED
    BY <1>8, <2>1, <2>2, KeepsCells DEF Reject
<1>9. ASSUME NEW t \in Threads, Finish(t)
      PROVE  CellsKept'
  <2> DEFINE a == Answer(call[t], CreateResponse(call[t].msg, Overload(call[t]).result))
             c == [a EXCEPT !.runs = @ + 1]
             i == InstanceOf(call[t])
  <2>1. call' = [call EXCEPT ![t] = c] /\ call[t].pc = "inside" /\ UNCHANGED created
    BY <1>9 DEF Finish
  <2>2. c.pc # "inside"
    <3>1. a \in CallShape /\ a.pc = "reply"
      BY <1>1, ServingCall, ResultReplyShape, AnswerShape
    <3> HIDE DEF a
    <3> QED
      BY <3>1 DEF CallShape
  <2>3. \A j \in Instances \ {i} : cell'[j] = cell[j]
    BY <1>1, <1>9 DEF Finish
  <2> HIDE DEF c, i
  <2>4. ASSUME NEW u \in Threads \ {t}, call[u].pc = "inside",
               InstanceOf(call[u]) \notin ThreadSafe
        PROVE  cell'[InstanceOf(call[u])] = cell[InstanceOf(call[u])]
    <3>1. InstanceOf(call[u]) \in Instances
      BY <1>1, <2>4, ServingCall DEF Serving
    <3>2. InstanceOf(call[u]) # i
      BY <1>1, <2>1, <2>4, <3>1 DEF InstanceExclusive, Inside, i
    <3> QED
      BY <2>3, <3>1, <3>2
  <2> QED
    BY <2>1, <2>2, <2>4, KeepsCells
<1>10. ASSUME NEW t \in Threads, Return(t)
      PROVE  CellsKept'
  <2>1. call' = [call EXCEPT ![t] = IdleCall] /\ IdleCall.pc # "inside" /\ UNCHANGED <<created, cell>>
    BY <1>10 DEF Return, IdleCall
  <2> QED
    BY <2>1, KeepsCells
<1>11. CASE (\E r \in Registrations : AddService(r[1], r[2]))
            \/ (\E n \in DOMAIN services : RemoveService(n))
  BY <1>2, <1>11 DEF AddService, RemoveService, Quiet
<1>12. \/ \E t \in Threads : \/ Receive(t) \/ Process(t) \/ Bind(t) \/ Enter(t)
                             \/ Reject(t) \/ Finish(t) \/ Return(t)
       \/ (\E r \in Registrations : AddService(r[1], r[2]))
            \/ (\E n \in DOMAIN services : RemoveService(n))
       \/ UNCHANGED <<created, call, cell>>
  BY NextCases DEF Throw, Crash, vars
<1> QED
  BY <1>3, <1>4, <1>5, <1>6, <1>7, <1>8, <1>9, <1>10, <1>11, <1>12

LEMMA IInvStep == IInv /\ [Next]_vars => IInv'
BY MutexInvStep, AnswersStep, CellsStep DEF IInv

(* What the clients see.                                                   *)
Clients == [t \in Threads |-> Client(call[t])]

LEMMA ClientView ==
    ASSUME NEW c
    PROVE  /\ Client(c).msg = c.msg /\ Client(c).reply = c.reply /\ Client(c).runs = c.runs
           /\ c.pc = "idle"  => Client(c).status = "idle"
           /\ c.pc = "reply" => Client(c).status = "answered"
           /\ c.pc \notin {"idle", "reply"} => Client(c).status = "waiting"
BY DEF Client

(* A step of one call changes what one client sees.                        *)
LEMMA ClientStep ==
    ASSUME TypeInv, NEW t \in Threads, NEW c, call' = [call EXCEPT ![t] = c]
    PROVE  /\ Clients[t] = Client(call[t]) /\ Clients'[t] = Client(c)
           /\ Clients' = [Clients EXCEPT ![t] = Clients'[t]]
<1>1. call \in [Threads -> CallShape]
  BY DEF TypeInv, TypeOK
<1>2. \A u \in Threads : call'[u] = IF u = t THEN c ELSE call[u]
  BY <1>1
<1>3. \A u \in Threads : Clients[u] = Client(call[u]) /\ Clients'[u] = Client(call'[u])
  BY DEF Clients
<1>4. Clients'[t] = Client(c)
  BY <1>2, <1>3
<1>5. \A u \in Threads : Clients'[u] = IF u = t THEN Clients'[t] ELSE Clients[u]
  BY <1>2, <1>3
<1> QED
  BY <1>3, <1>4, <1>5 DEF Clients

(* A step before the reply shows the client nothing.                       *)
LEMMA StepHidden ==
    ASSUME TypeInv, NEW t \in Threads, NEW c, call' = [call EXCEPT ![t] = c],
           call[t].pc \notin {"idle", "reply"}, c.pc \notin {"idle", "reply"},
           c.msg = call[t].msg, c.reply = call[t].reply, c.runs = call[t].runs
    PROVE  Clients' = Clients
<1>1. Client(c) = Client(call[t])
  BY DEF Client
<1>2. /\ Clients[t] = Client(call[t]) /\ Clients'[t] = Client(c)
      /\ Clients' = [Clients EXCEPT ![t] = Clients'[t]]
  BY ClientStep, Zenon
<1>3. Clients' = [Clients EXCEPT ![t] = Clients[t]]
  BY <1>1, <1>2
<1> QED
  BY <1>3 DEF Clients

(* A step that answers without an execution is a Refuse.                   *)
LEMMA StepRefuses ==
    ASSUME TypeInv, NEW t \in Threads, NEW c, call' = [call EXCEPT ![t] = c],
           call[t].pc \notin {"idle", "reply"}, c.pc = "reply",
           c.msg = call[t].msg, c.runs = 0, Answered(c), UNCHANGED cell
    PROVE  Provider!Refuse(t)
<1>1. /\ Clients[t] = Client(call[t]) /\ Clients'[t] = Client(c)
      /\ Clients' = [Clients EXCEPT ![t] = Clients'[t]]
  BY ClientStep, Zenon
<1>2. /\ Clients[t].status = "waiting" /\ Clients'[t].status = "answered"
      /\ Clients'[t].msg = Clients[t].msg /\ Clients'[t].runs = 0
      /\ Clients'[t].msg = c.msg /\ Clients'[t].reply = c.reply
  BY <1>1, ClientView
<1>3. Provider!Fits(Clients'[t])
  BY <1>2 DEF Provider!Fits, Answered, AnswersRequest
<1> QED
  BY <1>1, <1>2, <1>3 DEF Provider!Refuse, Provider!AnswerBy, Provider!Become, Clients

(* A failed overload shows nothing, or the call is refused.                *)
LEMMA FailureShows ==
    ASSUME IInv, NEW t \in Threads, call[t].pc \in {"bind", "inside"},
           call' = [call EXCEPT ![t] = NextOverload(call[t])], UNCHANGED cell
    PROVE  Provider!Refuse(t) \/ UNCHANGED <<cell, Clients>>
<1> DEFINE c == NextOverload(call[t])
<1>1. TypeInv /\ call[t] \in CallShape /\ call[t].runs = 0
  BY DEF IInv, AnswersInv, Answered, TypeInv, TypeOK
<1>2. /\ c.pc \in {"bind", "reply"} /\ c.runs = 0 /\ c.msg = call[t].msg /\ Answered(c)
      /\ c.pc = "bind" => c.reply = call[t].reply
  <2>1. c.pc \in {"bind", "reply"} /\ c.runs = 0 /\ c.msg = call[t].msg /\ Answered(c)
    BY <1>1, NextOverloadShape, NextOverloadAnswers
  <2>2. c.pc = "bind" => c.reply = call[t].reply
    BY <1>1 DEF NextOverload, Answer, CallShape
  <2> QED
    BY <2>1, <2>2
<1>3. call' = [call EXCEPT ![t] = c]
  OBVIOUS
<1> HIDE DEF c
<1>4. CASE c.pc = "reply"
  BY <1>1, <1>2, <1>3, <1>4, StepRefuses
<1>5. CASE c.pc = "bind"
  <2>1. /\ call[t].pc \notin {"idle", "reply"} /\ c.pc \notin {"idle", "reply"}
        /\ c.msg = call[t].msg /\ c.reply = call[t].reply /\ c.runs = call[t].runs
    BY <1>1, <1>2, <1>5
  <2>2. Clients' = Clients
    BY <1>1, <1>3, <2>1, StepHidden, Zenon
  <2> QED
    BY <2>2
<1> QED
  BY <1>2, <1>4, <1>5

(* Finish executes one call on one instance and answers it: an instance    *)
(* that is not thread safe is written from the value that it still has.    *)
LEMMA FinishExecutes ==
    ASSUME IInv, IInv', NEW t \in Threads, Finish(t)
    PROVE  Provider!Execute(t)
<1> DEFINE r == CreateResponse(call[t].msg, Overload(call[t]).result)
           a == Answer(call[t], r)
           c == [a EXCEPT !.runs = @ + 1]
           i == InstanceOf(call[t])
<1>1. /\ TypeInv /\ CellsKept /\ call[t] \in CallShape /\ call[t].runs = 0
      /\ call[t].pc = "inside" /\ call[t].msg \in MessageShape /\ i \in Instances
      /\ cell \in [Instances -> Nat]
  <2>1. TypeInv /\ CellsKept /\ call[t].pc = "inside"
    BY DEF IInv, AnswersInv, Finish
  <2>2. i \in Instances /\ call[t] \in CallShape /\ call[t].msg \in MessageShape
    BY <2>1, ServingCall DEF Serving
  <2> QED
    BY <2>1, <2>2 DEF IInv, AnswersInv, Answered, TypeInv, TypeOK
<1>2. call' = [call EXCEPT ![t] = c]
  BY DEF Finish
<1>3. cell' = [cell EXCEPT ![i] = @ + 1]
  <2>1. cell' = [cell EXCEPT ![i] = 1 + IF i \in ThreadSafe THEN @ ELSE call[t].local]
    BY DEF Finish
  <2>2. i \notin ThreadSafe => call[t].local = cell[i]
    BY <1>1 DEF CellsKept
  <2>3. 1 + cell[i] = cell[i] + 1
    BY <1>1
  <2> HIDE DEF i
  <2> QED
    BY <1>1, <2>1, <2>2, <2>3
<1>4. c.pc = "reply" /\ c.runs = 1 /\ c.msg = call[t].msg
  <2>1. r \in ReplyShape
    BY <1>1, ResultReplyShape
  <2> HIDE DEF r
  <2>2. a \in CallShape /\ a.pc = "reply" /\ a.runs = 0 /\ a.msg = call[t].msg
    BY <1>1, <2>1, AnswerShape
  <2> HIDE DEF a
  <2> QED
    BY <2>2 DEF CallShape
<1> HIDE DEF c, i
<1>5. Answered(c)
  <2>1. call'[t] = c
    BY <1>2 DEF IInv, AnswersInv, TypeInv, TypeOK
  <2> QED
    BY <2>1 DEF IInv, AnswersInv, Answered, AnswersRequest
<1>6. /\ Clients[t] = Client(call[t]) /\ Clients'[t] = Client(c)
      /\ Clients' = [Clients EXCEPT ![t] = Clients'[t]]
  BY <1>1, <1>2, ClientStep, Zenon
<1>7. /\ Clients[t].status = "waiting" /\ Clients'[t].status = "answered"
      /\ Clients'[t].msg = Clients[t].msg /\ Clients'[t].runs = 1
      /\ Clients'[t].msg = c.msg /\ Clients'[t].reply = c.reply
  BY <1>1, <1>4, <1>6, ClientView
<1>8. Provider!Fits(Clients'[t])
  BY <1>4, <1>5, <1>7 DEF Provider!Fits, Answered, AnswersRequest
<1> QED
  BY <1>1, <1>3, <1>6, <1>7, <1>8
     DEF Provider!Execute, Provider!AnswerBy, Provider!Become, Clients

(* Every step is a step of the provider or shows nothing.                  *)
LEMMA StepProvides ==
    IInv /\ IInv' /\ [Next]_vars => [Provider!Next]_<<cell, Clients>>
<1> SUFFICES ASSUME IInv, IInv', [Next]_vars
             PROVE  Provider!Next \/ UNCHANGED <<cell, Clients>>
  OBVIOUS
<1>1. /\ TypeInv /\ call \in [Threads -> CallShape]
      /\ \A t \in Threads : call[t] \in CallShape /\ Answered(call[t])
      /\ \A t \in Threads : Answered(call'[t])
  BY DEF IInv, AnswersInv, TypeInv, TypeOK, Answered, AnswersRequest
<1>2. ASSUME NEW t \in Threads,
             Provider!Ask(t) \/ Provider!Execute(t) \/ Provider!Refuse(t) \/ Provider!Deliver(t)
      PROVE  Provider!Next
  BY <1>2 DEF Provider!Next
<1>3. CASE UNCHANGED <<call, cell>>
  BY <1>3 DEF Clients
<1>4. ASSUME NEW t \in Threads, Receive(t)
      PROVE  Provider!Ask(t)
  <2>1. PICK d \in Docs :
           call' = [call EXCEPT ![t] =
                       [IdleCall EXCEPT !.pc = "process", !.doc = d, !.msg = Parse(d)]]
    BY <1>4 DEF Receive
  <2> DEFINE c == [IdleCall EXCEPT !.pc = "process", !.doc = d, !.msg = Parse(d)]
  <2>2. c.pc = "process" /\ c.runs = 0
    BY DEF IdleCall
  <2>3. call' = [call EXCEPT ![t] = c]
    BY <2>1
  <2> HIDE DEF c
  <2>4. /\ Clients[t] = Client(call[t]) /\ Clients'[t] = Client(c)
        /\ Clients' = [Clients EXCEPT ![t] = Clients'[t]]
    BY <1>1, <2>3, ClientStep, Zenon
  <2>5. /\ Clients[t].status = "idle" /\ Clients'[t].status = "waiting"
        /\ Clients'[t].runs = 0 /\ UNCHANGED cell
    BY <1>4, <2>2, <2>4, ClientView DEF Receive
  <2> QED
    BY <2>4, <2>5 DEF Provider!Ask, Provider!Become, Clients
<1>5. ASSUME NEW t \in Threads, Process(t)
      PROVE  Provider!Refuse(t) \/ UNCHANGED <<cell, Clients>>
  <2>1. /\ call[t] \in CallShape /\ call[t].runs = 0
        /\ call[t].pc = "process" /\ UNCHANGED cell
    BY <1>1, <1>5 DEF Process, Answered
  <2>2. CASE \E r \in DirectReplies(call[t].msg) : call' = [call EXCEPT ![t] = Answer(@, r)]
    <3>1. PICK r \in DirectReplies(call[t].msg) : call' = [call EXCEPT ![t] = Answer(call[t], r)]
      BY <2>2
    <3> DEFINE c == Answer(call[t], r)
    <3>2. c.pc = "reply" /\ c.runs = 0 /\ c.msg = call[t].msg
      BY <2>1 DEF Answer, CallShape
    <3>3. call' = [call EXCEPT ![t] = c]
      BY <3>1
    <3> HIDE DEF c
    <3>4. Answered(c)
      BY <1>1, <3>3
    <3> QED
      BY <1>1, <2>1, <3>2, <3>3, <3>4, StepRefuses
  <2>3. CASE call' = [call EXCEPT ![t].pc = "bind", ![t].alt = 1,
                          ![t].service = services[ServiceName(call[t].msg.name)]]
    <3> DEFINE c == [call[t] EXCEPT !.pc = "bind", !.alt = 1,
                        !.service = services[ServiceName(call[t].msg.name)]]
    <3>1. /\ c.pc \notin {"idle", "reply"} /\ call[t].pc \notin {"idle", "reply"}
          /\ c.msg = call[t].msg /\ c.reply = call[t].reply /\ c.runs = call[t].runs
      BY <2>1 DEF CallShape
    <3>2. call' = [call EXCEPT ![t] = c]
      BY <1>1, <2>1, <2>3
    <3> HIDE DEF c
    <3>3. Clients' = Clients
      BY <1>1, <3>1, <3>2, StepHidden, Zenon
    <3> QED
      BY <2>1, <3>3
  <2> QED
    BY <1>5, <2>2, <2>3 DEF Process
<1>6. ASSUME NEW t \in Threads, Bind(t)
      PROVE  Provider!Refuse(t) \/ UNCHANGED <<cell, Clients>>
  <2>1. call[t] \in CallShape /\ call[t].pc = "bind" /\ UNCHANGED cell
    BY <1>1, <1>6 DEF Bind
  <2>2. CASE call' = [call EXCEPT ![t] = NextOverload(call[t])]
    BY <2>1, <2>2, FailureShows
  <2>3. CASE call' = [call EXCEPT ![t] = [call[t] EXCEPT !.pc = "enter"]]
    <3> DEFINE c == [call[t] EXCEPT !.pc = "enter"]
    <3>1. /\ c.pc \notin {"idle", "reply"} /\ call[t].pc \notin {"idle", "reply"}
          /\ c.msg = call[t].msg /\ c.reply = call[t].reply /\ c.runs = call[t].runs
      BY <2>1 DEF CallShape
    <3>2. call' = [call EXCEPT ![t] = c]
      BY <2>3
    <3> HIDE DEF c
    <3>3. Clients' = Clients
      BY <1>1, <3>1, <3>2, StepHidden, Zenon
    <3> QED
      BY <2>1, <3>3
  <2> QED
    BY <1>6, <2>2, <2>3 DEF Bind
<1>7. ASSUME NEW t \in Threads, Enter(t)
      PROVE  UNCHANGED <<cell, Clients>>
  <2> DEFINE c == [call[t] EXCEPT !.pc = "inside", !.local = cell[InstanceOf(call[t])]]
  <2>1. call[t] \in CallShape /\ call[t].pc = "enter" /\ UNCHANGED cell
    BY <1>1, <1>7 DEF Enter
  <2>2. /\ c.pc \notin {"idle", "reply"} /\ call[t].pc \notin {"idle", "reply"}
        /\ c.msg = call[t].msg /\ c.reply = call[t].reply /\ c.runs = call[t].runs
    BY <2>1 DEF CallShape
  <2>3. call' = [call EXCEPT ![t] = c]
    BY <1>1, <1>7 DEF Enter
  <2> HIDE DEF c
  <2>4. Clients' = Clients
    BY <1>1, <2>2, <2>3, StepHidden, Zenon
  <2> QED
    BY <2>1, <2>4
<1>8. ASSUME NEW t \in Threads, Reject(t)
      PROVE  Provider!Refuse(t) \/ UNCHANGED <<cell, Clients>>
  <2>1. /\ call[t].pc = "inside" /\ UNCHANGED cell
        /\ call' = [call EXCEPT ![t] = NextOverload(call[t])]
    BY <1>8 DEF Reject
  <2> QED
    BY <2>1, FailureShows
<1>9. ASSUME NEW t \in Threads, Return(t)
      PROVE  Provider!Deliver(t)
  <2>1. call[t].pc = "reply" /\ call' = [call EXCEPT ![t] = IdleCall] /\ UNCHANGED cell
    BY <1>9 DEF Return
  <2>2. /\ Clients[t] = Client(call[t]) /\ Clients'[t] = Client(IdleCall)
        /\ Clients' = [Clients EXCEPT ![t] = Clients'[t]]
    BY <1>1, <2>1, ClientStep, Zenon
  <2>3. IdleCall.pc = "idle"
    BY DEF IdleCall
  <2>4. Clients[t].status = "answered" /\ Clients'[t].status = "idle"
    BY <2>1, <2>2, <2>3, ClientView
  <2> QED
    BY <2>1, <2>2, <2>4 DEF Provider!Deliver, Provider!Become, Clients
<1>10. \/ \E t \in Threads : \/ Receive(t) \/ Process(t) \/ Bind(t) \/ Enter(t)
                             \/ Reject(t) \/ Finish(t) \/ Return(t)
       \/ UNCHANGED <<call, cell>>
  BY NextCases DEF AddService, RemoveService, Throw, Crash, vars
<1> QED
  BY <1>2, <1>3, <1>4, <1>5, <1>6, <1>7, <1>8, <1>9, <1>10, FinishExecutes

(* Concurrent calls behave as if each were executed at one instant: every  *)
(* result stands for exactly one update of its instance, none is lost, and *)
(* a refused request has executed nothing.                                 *)
THEOREM Implements == Spec => ImplementsProvider
<1>1. Init => Provider!Init
  <2> SUFFICES ASSUME Init PROVE Provider!Init
    OBVIOUS
  <2>1. \A t \in Threads : Clients[t].status = "idle"
    BY DEF Init, IdleCall, Client, Clients
  <2> QED
    BY <2>1 DEF Init, Provider!Init, Clients
<1>2. Spec => []IInv
  BY IInvInit, IInvStep, PTL DEF Spec
<1>3. IInv /\ IInv' /\ [Next]_vars
         => [Provider!Next]_<<cell, [t \in Threads |-> Client(call[t])]>>
  BY StepProvides DEF Clients
<1> QED
  BY <1>1, <1>2, <1>3, PTL DEF Spec, ImplementsProvider, Provider!Spec
-----------------------------------------------------------------------------
(***************************************************************************)
(* What a call amounts to: the overloads it tries, the number of its steps *)
(* and its effect on the instances.                                        *)
(***************************************************************************)

MethodFound(c) == MethodName(c.msg.name) \in DOMAIN Methods[InstanceOf(c)]

(* The overload a call is at is one of the method's.                       *)
AtOverload(c) == MethodFound(c) /\ c.alt \in 1 .. Len(Overloads(c))

OverloadsTried == \A t \in Threads : call[t].pc \in Serving => AtOverload(call[t])

TriesInv == TypeInv /\ OverloadsTried

(* The found method has overloads.                                         *)
LEMMA SomeOverload ==
    ASSUME NEW c, InstanceOf(c) \in Instances, MethodFound(c)
    PROVE  Len(Overloads(c)) \in Nat \ {0}
BY MethodsAssumption DEF Overloads, MethodFound

(* After a failed overload: an answer, or the next of the same method.     *)
LEMMA NextTried ==
    ASSUME NEW c \in CallShape, InstanceOf(c) \in Instances, AtOverload(c)
    PROVE  LET n == NextOverload(c)
           IN  \/ n.pc = "reply"
               \/ /\ n.pc = "bind" /\ n.alt = c.alt + 1
                  /\ AtOverload(n) /\ Overloads(n) = Overloads(c)
<1>1. Len(Overloads(c)) \in Nat \ {0} /\ c.alt \in Nat
  BY SomeOverload DEF AtOverload, CallShape
<1> DEFINE Retry(a) == [c EXCEPT !.pc = "bind", !.alt = a]
           r == Retry(c.alt + 1)
<1>2. r.pc = "bind" /\ r.alt = c.alt + 1 /\ r.msg = c.msg /\ r.service = c.service
  BY DEF CallShape
<1>3. \A code : Answer(c, CreateErrorResponse(c.msg, code)).pc = "reply"
  BY DEF Answer, CallShape
<1>4. \/ NextOverload(c).pc = "reply"
      \/ NextOverload(c) = r /\ c.alt < Len(Overloads(c))
  BY <1>3 DEF NextOverload
<1> HIDE DEF r
<1>5. Overloads(r) = Overloads(c) /\ (MethodFound(c) => MethodFound(r))
  BY <1>2 DEF Overloads, MethodFound, InstanceOf
<1>6. CASE NextOverload(c) = r /\ c.alt < Len(Overloads(c))
  <2>1. c.alt + 1 \in 1 .. Len(Overloads(c))
    BY <1>1, <1>6
  <2> QED
    BY <1>2, <1>5, <1>6, <2>1 DEF AtOverload
<1> QED
  BY <1>4, <1>6

(* A step of one call that stays at an overload of its method.             *)
LEMMA StaysTried ==
    ASSUME TriesInv, NEW t \in Threads, NEW c, call' = [call EXCEPT ![t] = c],
           UNCHANGED created, c.pc \in Serving => AtOverload(c)
    PROVE  OverloadsTried'
<1>1. call \in [Threads -> CallShape]
  BY DEF TriesInv, TypeInv, TypeOK
<1> SUFFICES ASSUME NEW u \in Threads, call'[u].pc \in Serving
             PROVE  AtOverload(call[u])'
  BY DEF OverloadsTried
<1>2. AtOverload(call'[u])
  BY <1>1 DEF TriesInv, OverloadsTried
<1>3. InstanceOf(call[u])' = InstanceOf(call'[u])
  BY DEF InstanceOf
<1>4. MethodFound(call[u])' <=> MethodFound(call'[u])
  BY <1>3 DEF MethodFound
<1>5. Overloads(call[u])' = Overloads(call'[u])
  BY <1>3 DEF Overloads
<1> QED
  BY <1>2, <1>4, <1>5 DEF AtOverload

(* What a call that is bound is routed to.                                 *)
LEMMA RoutedTo ==
    ASSUME TypeInv, NEW t \in Threads, call[t].pc = "process",
           DirectReplies(call[t].msg) = {}
    PROVE  LET c == [call[t] EXCEPT !.pc = "bind", !.alt = 1,
                        !.service = services[ServiceName(call[t].msg.name)]]
           IN  /\ c.pc = "bind" /\ c.alt = 1 /\ AtOverload(c)
               /\ InstanceOf(c) \in Instances
               /\ InstanceOf(c) = created[services[ServiceName(call[t].msg.name)]].instance
               /\ c.msg = call[t].msg
<1> DEFINE n == ServiceName(call[t].msg.name)
           c == [call[t] EXCEPT !.pc = "bind", !.alt = 1, !.service = services[n]]
<1>1. c.pc = "bind" /\ c.alt = 1 /\ c.msg = call[t].msg /\ c.service = services[n]
  BY ServingCall DEF CallShape
<1>2. /\ n \in DOMAIN services
      /\ MethodName(call[t].msg.name) \in DOMAIN Methods[created[services[n]].instance]
  BY DEF DirectReplies
<1>3. created[services[n]].instance \in Instances
  <2>1. services[n] \in DOMAIN created /\ created \in Seq(Shape)
    BY <1>2 DEF TypeInv, TypeOK, Shape
  <2>2. created[services[n]] \in Shape
    BY <2>1
  <2> QED
    BY <2>2 DEF Shape
<1> HIDE DEF c
<1>4. InstanceOf(c) = created[services[n]].instance
  BY <1>1 DEF InstanceOf
<1>5. MethodFound(c)
  BY <1>1, <1>2, <1>4 DEF MethodFound
<1>6. AtOverload(c)
  <2>1. Len(Overloads(c)) \in Nat \ {0}
    BY <1>3, <1>4, <1>5, SomeOverload
  <2> QED
    BY <1>1, <1>5, <2>1 DEF AtOverload
<1> QED
  BY <1>1, <1>3, <1>4, <1>6 DEF c

LEMMA TriesStep == TriesInv /\ [Next]_vars => TriesInv'
<1> SUFFICES ASSUME TriesInv, [Next]_vars PROVE OverloadsTried'
  BY TypeInvStep DEF TriesInv
<1>0. /\ TypeInv /\ OverloadsTried /\ call \in [Threads -> CallShape]
      /\ \A t \in Threads : call[t].pc \in Serving => InstanceOf(call[t]) \in Instances
  BY ServingCall DEF TriesInv, TypeInv, TypeOK
<1>1. ASSUME NEW t \in Threads, call[t].pc \in Serving, UNCHANGED created,
             call' = [call EXCEPT ![t] = NextOverload(call[t])]
      PROVE  OverloadsTried'
  <2>1. AtOverload(call[t])
    BY <1>0, <1>1 DEF OverloadsTried
  <2>2. NextOverload(call[t]).pc \in Serving => AtOverload(NextOverload(call[t]))
    BY <1>0, <1>1, <2>1, NextTried DEF Serving
  <2> QED
    BY <1>1, <2>2, StaysTried
<1>2. ASSUME NEW t \in Threads, Receive(t)
      PROVE  OverloadsTried'
  <2>1. PICK d \in Docs :
           call' = [call EXCEPT ![t] =
                       [IdleCall EXCEPT !.pc = "process", !.doc = d, !.msg = Parse(d)]]
    BY <1>2 DEF Receive
  <2>2. [IdleCall EXCEPT !.pc = "process", !.doc = d, !.msg = Parse(d)].pc = "process"
    BY DEF IdleCall
  <2> QED
    BY <1>2, <2>1, <2>2, StaysTried DEF Receive, Serving
<1>3. ASSUME NEW t \in Threads, Process(t)
      PROVE  OverloadsTried'
  <2>1. call[t].pc = "process" /\ UNCHANGED created
    BY <1>3 DEF Process
  <2>2. CASE \E r \in DirectReplies(call[t].msg) : call' = [call EXCEPT ![t] = Answer(@, r)]
    <3>1. PICK r \in DirectReplies(call[t].msg) : call' = [call EXCEPT ![t] = Answer(call[t], r)]
      BY <2>2
    <3>2. Answer(call[t], r).pc = "reply"
      BY <1>0 DEF Answer, CallShape
    <3> QED
      BY <2>1, <3>1, <3>2, StaysTried DEF Serving
  <2>3. CASE /\ DirectReplies(call[t].msg) = {}
             /\ call' = [call EXCEPT ![t].pc = "bind", ![t].alt = 1,
                            ![t].service = services[ServiceName(call[t].msg.name)]]
    <3> DEFINE c == [call[t] EXCEPT !.pc = "bind", !.alt = 1,
                        !.service = services[ServiceName(call[t].msg.name)]]
    <3>1. AtOverload(c)
      BY <1>0, <2>1, <2>3, RoutedTo
    <3>2. call' = [call EXCEPT ![t] = c]
      BY <1>0, <2>3
    <3> HIDE DEF c
    <3> QED
      BY <2>1, <3>1, <3>2, StaysTried
  <2> QED
    BY <1>3, <2>2, <2>3 DEF Process
<1>4. ASSUME NEW t \in Threads, Bind(t)
      PROVE  OverloadsTried'
  <2>1. call[t].pc = "bind" /\ UNCHANGED created
    BY <1>4 DEF Bind
  <2>2. CASE call' = [call EXCEPT ![t] = NextOverload(call[t])]
    BY <1>1, <2>1, <2>2 DEF Serving
  <2>3. CASE call' = [call EXCEPT ![t] = [call[t] EXCEPT !.pc = "enter"]]
    <3> DEFINE c == [call[t] EXCEPT !.pc = "enter"]
    <3>1. c.msg = call[t].msg /\ c.service = call[t].service /\ c.alt = call[t].alt
      OBVIOUS
    <3>2. AtOverload(call[t]) /\ call' = [call EXCEPT ![t] = c]
      BY <1>0, <2>1, <2>3 DEF OverloadsTried, Serving
    <3> HIDE DEF c
    <3>3. AtOverload(c)
      BY <3>1, <3>2 DEF AtOverload, MethodFound, Overloads, InstanceOf
    <3> QED
      BY <2>1, <3>2, <3>3, StaysTried
  <2> QED
    BY <1>4, <2>2, <2>3 DEF Bind
<1>5. ASSUME NEW t \in Threads, Enter(t)
      PROVE  OverloadsTried'
  <2> DEFINE c == [call[t] EXCEPT !.pc = "inside", !.local = cell[InstanceOf(call[t])]]
  <2>1. c.msg = call[t].msg /\ c.service = call[t].service /\ c.alt = call[t].alt
    OBVIOUS
  <2>2. call[t].pc = "enter" /\ UNCHANGED created /\ call' = [call EXCEPT ![t] = c]
    BY <1>0, <1>5 DEF Enter
  <2>3. AtOverload(call[t])
    BY <1>0, <2>2 DEF OverloadsTried, Serving
  <2> HIDE DEF c
  <2>4. AtOverload(c)
    BY <2>1, <2>3 DEF AtOverload, MethodFound, Overloads, InstanceOf
  <2> QED
    BY <2>2, <2>4, StaysTried
<1>6. ASSUME NEW t \in Threads, Reject(t)
      PROVE  OverloadsTried'
  BY <1>1, <1>6 DEF Reject, Serving
<1>7. ASSUME NEW t \in Threads, Finish(t)
      PROVE  OverloadsTried'
  <2> DEFINE a == Answer(call[t], CreateResponse(call[t].msg, Overload(call[t]).result))
             c == [a EXCEPT !.runs = @ + 1]
  <2>1. call' = [call EXCEPT ![t] = c] /\ UNCHANGED created
    BY <1>7 DEF Finish
  <2>2. c.pc = "reply"
    BY <1>0 DEF Answer, CallShape
  <2> HIDE DEF c
  <2> QED
    BY <2>1, <2>2, StaysTried DEF Serving
<1>8. ASSUME NEW t \in Threads, Return(t)
      PROVE  OverloadsTried'
  BY <1>8, StaysTried DEF Return, IdleCall, Serving
<1>9. CASE (\E r \in Registrations : AddService(r[1], r[2]))
            \/ (\E n \in DOMAIN services : RemoveService(n))
  BY <1>9 DEF AddService, RemoveService, Quiet, OverloadsTried, Serving
<1>10. CASE UNCHANGED <<created, call>>
  BY <1>0, <1>10 DEF OverloadsTried, AtOverload, MethodFound, Overloads, InstanceOf
<1> QED
  BY <1>2, <1>3, <1>4, <1>5, <1>6, <1>7, <1>8, <1>9, <1>10, NextCases
     DEF Throw, Crash, vars

(* dispatch found the method and is at one of its overloads, never past    *)
(* the last one, as long as a call is bound, waits for a mutex or runs.    *)
THEOREM OverloadsInRange == Spec => []OverloadsTried
<1>1. Init => TriesInv
  BY TypeInvInit DEF Init, TriesInv, OverloadsTried, IdleCall, Serving
<1>2. TriesInv => OverloadsTried
  BY DEF TriesInv
<1> QED
  BY <1>1, <1>2, TriesStep, PTL DEF Spec

(* How many steps a call still has at most: at each overload it is bound,  *)
(* enters and returns, and before them it is routed.                       *)
ToTry(m) ==
    IF DirectReplies(m) = {}
    THEN Len(Methods[created[services[ServiceName(m.name)]].instance][MethodName(m.name)])
    ELSE 0

Left(c) == Len(Overloads(c)) - c.alt

StepsLeft(c) == CASE c.pc = "idle"    -> 0
                  [] c.pc = "reply"   -> 1
                  [] c.pc = "inside"  -> 2 + 3 * Left(c)
                  [] c.pc = "enter"   -> 3 + 3 * Left(c)
                  [] c.pc = "bind"    -> 4 + 3 * Left(c)
                  [] c.pc = "process" -> 2 + 3 * ToTry(c.msg)

LEMMA StepsOf ==
    ASSUME NEW c
    PROVE  /\ c.pc = "idle"    => StepsLeft(c) = 0
           /\ c.pc = "reply"   => StepsLeft(c) = 1
           /\ c.pc = "inside"  => StepsLeft(c) = 2 + 3 * Left(c)
           /\ c.pc = "enter"   => StepsLeft(c) = 3 + 3 * Left(c)
           /\ c.pc = "bind"    => StepsLeft(c) = 4 + 3 * Left(c)
           /\ c.pc = "process" => StepsLeft(c) = 2 + 3 * ToTry(c.msg)
BY DEF StepsLeft

LEMMA LeftOf ==
    ASSUME NEW c, InstanceOf(c) \in Instances, AtOverload(c)
    PROVE  Left(c) \in Nat
<1>1. Len(Overloads(c)) \in Nat \ {0}
  BY SomeOverload DEF AtOverload
<1> QED
  BY <1>1 DEF Left, AtOverload

(* The count depends on the services only, which a call does not change.   *)
LEMMA StepsKept ==
    ASSUME NEW t \in Threads, NEW c, call'[t] = c, UNCHANGED <<created, services, info>>
    PROVE  StepsLeft(call[t])' = StepsLeft(c)
BY DEF StepsLeft, Left, ToTry, Overloads, InstanceOf, DirectReplies

StepsCounted == \A t \in Threads : StepsLeft(call[t]) \in Nat

LEMMA CountIsNat == TriesInv => StepsCounted
<1> SUFFICES ASSUME TriesInv, NEW t \in Threads PROVE StepsLeft(call[t]) \in Nat
  BY DEF StepsCounted
<1>1. /\ TypeInv
      /\ call[t].pc \in {"idle", "process", "bind", "enter", "inside", "reply"}
  BY DEF TriesInv, TypeInv, TypeOK, CallShape
<1>2. CASE call[t].pc \in Serving
  <2>1. Left(call[t]) \in Nat
    BY <1>1, <1>2, ServingCall, LeftOf DEF TriesInv, OverloadsTried
  <2> QED
    BY <1>2, <2>1, StepsOf DEF Serving
<1>3. CASE call[t].pc = "process"
  <2>1. ToTry(call[t].msg) \in Nat
    <3>1. CASE DirectReplies(call[t].msg) = {}
      <4> DEFINE c == [call[t] EXCEPT !.pc = "bind", !.alt = 1,
                          !.service = services[ServiceName(call[t].msg.name)]]
      <4>1. /\ InstanceOf(c) \in Instances /\ AtOverload(c) /\ c.msg = call[t].msg
            /\ InstanceOf(c) = created[services[ServiceName(call[t].msg.name)]].instance
        BY <1>1, <1>3, <3>1, RoutedTo
      <4> HIDE DEF c
      <4> QED
        BY <3>1, <4>1, SomeOverload DEF ToTry, AtOverload, Overloads
    <3> QED
      BY <3>1 DEF ToTry
  <2> QED
    BY <1>3, <2>1, StepsOf
<1> QED
  BY <1>1, <1>2, <1>3, StepsOf DEF Serving

(* A failed overload costs the steps that it took.                         *)
LEMMA FailureCosts ==
    ASSUME TriesInv, NEW t \in Threads, call[t].pc \in {"bind", "inside"}
    PROVE  StepsLeft(NextOverload(call[t])) < StepsLeft(call[t])
<1> DEFINE c == call[t]
           n == NextOverload(c)
<1>1. c \in CallShape /\ InstanceOf(c) \in Instances /\ AtOverload(c) /\ c.alt \in Nat
  BY ServingCall DEF TriesInv, OverloadsTried, Serving, CallShape
<1>2. Left(c) \in Nat
  BY <1>1, LeftOf
<1>3. StepsLeft(c) >= 2 + 3 * Left(c)
  BY <1>2, StepsOf
<1>4. \/ n.pc = "reply"
      \/ n.pc = "bind" /\ n.alt = c.alt + 1 /\ AtOverload(n) /\ Overloads(n) = Overloads(c)
  BY <1>1, NextTried
<1>5. CASE n.pc = "reply"
  <2>1. StepsLeft(n) = 1
    BY <1>5, StepsOf
  <2>2. StepsLeft(c) \in Nat
    BY CountIsNat DEF StepsCounted
  <2> QED
    BY <1>2, <1>3, <2>1, <2>2
<1>6. CASE n.pc = "bind" /\ n.alt = c.alt + 1 /\ Overloads(n) = Overloads(c)
  <2>1. Len(Overloads(c)) \in Nat
    BY <1>1, SomeOverload DEF AtOverload
  <2>2. Left(n) = Left(c) - 1
    BY <1>1, <1>6, <2>1 DEF Left
  <2>3. StepsLeft(n) = 4 + 3 * Left(n)
    BY <1>6, StepsOf
  <2>4. StepsLeft(c) \in Nat
    BY CountIsNat DEF StepsCounted
  <2>5. StepsLeft(n) = 1 + 3 * Left(c)
    BY <1>2, <2>2, <2>3
  <2> HIDE DEF c, n
  <2>6. StepsLeft(n) < StepsLeft(c)
    BY <1>2, <1>3, <2>4, <2>5
  <2> QED
    BY <2>6 DEF c, n
<1> QED
  BY <1>4, <1>5, <1>6

(* A step of a thread ends the process or leaves its call fewer steps, and *)
(* what the other threads and the main thread do costs it none.            *)
Advances ==
    \A t \in Threads :
        /\ Step(t) => ~up' \/ StepsLeft(call[t])' < StepsLeft(call[t])
        /\ call'[t] = call[t] => StepsLeft(call[t])' = StepsLeft(call[t])

LEMMA ProcessAdvances ==
    ASSUME TriesInv, NEW t \in Threads, Process(t)
    PROVE  StepsLeft(call[t])' < StepsLeft(call[t])
<1>1. /\ TypeInv /\ call \in [Threads -> CallShape] /\ call[t].pc = "process"
      /\ UNCHANGED <<created, services, info>>
  BY DEF TriesInv, TypeInv, TypeOK, Process
<1>2. StepsLeft(call[t]) = 2 + 3 * ToTry(call[t].msg) /\ StepsLeft(call[t]) \in Nat
  BY <1>1, StepsOf, CountIsNat DEF StepsCounted
<1>3. CASE \E r \in DirectReplies(call[t].msg) : call' = [call EXCEPT ![t] = Answer(@, r)]
  <2>1. PICK r \in DirectReplies(call[t].msg) : call' = [call EXCEPT ![t] = Answer(call[t], r)]
    BY <1>3
  <2> DEFINE c == Answer(call[t], r)
  <2>2. c.pc = "reply"
    BY <1>1 DEF Answer, CallShape
  <2>3. call'[t] = c
    BY <1>1, <2>1
  <2> HIDE DEF c
  <2>4. StepsLeft(call[t])' = 1
    BY <1>1, <2>2, <2>3, StepsKept, StepsOf
  <2>5. ToTry(call[t].msg) = 0
    BY <1>3 DEF ToTry
  <2> QED
    BY <1>2, <2>4, <2>5
<1>4. CASE /\ DirectReplies(call[t].msg) = {}
           /\ call' = [call EXCEPT ![t].pc = "bind", ![t].alt = 1,
                          ![t].service = services[ServiceName(call[t].msg.name)]]
  <2> DEFINE c == [call[t] EXCEPT !.pc = "bind", !.alt = 1,
                      !.service = services[ServiceName(call[t].msg.name)]]
  <2>1. /\ c.pc = "bind" /\ c.alt = 1 /\ AtOverload(c) /\ c.msg = call[t].msg
        /\ InstanceOf(c) \in Instances
        /\ InstanceOf(c) = created[services[ServiceName(call[t].msg.name)]].instance
    BY <1>1, <1>4, RoutedTo
  <2>2. call'[t] = c
    BY <1>1, <1>4
  <2> HIDE DEF c
  <2>3. ToTry(call[t].msg) = Len(Overloads(c)) /\ Len(Overloads(c)) \in Nat \ {0}
    BY <1>4, <2>1, SomeOverload DEF ToTry, AtOverload, Overloads
  <2>4. StepsLeft(call[t])' = 4 + 3 * Left(c) /\ Left(c) = Len(Overloads(c)) - 1
    BY <1>1, <2>1, <2>2, StepsKept, StepsOf DEF Left
  <2> QED
    BY <1>2, <2>3, <2>4
<1> QED
  BY <1>3, <1>4 DEF Process

LEMMA StepAdvances ==
    ASSUME TriesInv, NEW t \in Threads, Step(t)
    PROVE  ~up' \/ StepsLeft(call[t])' < StepsLeft(call[t])
<1>1. /\ TypeInv /\ call \in [Threads -> CallShape]
      /\ call[t].pc # "idle" /\ UNCHANGED <<created, services, info>>
  BY DEF TriesInv, TypeInv, TypeOK, Step, Process, Bind, Enter, Reject, Finish, Throw,
         Return, Crash
<1>2. call[t].pc \in Serving => Left(call[t]) \in Nat
  BY <1>1, ServingCall, LeftOf DEF TriesInv, OverloadsTried
<1>3. ASSUME call'[t] = NextOverload(call[t]), call[t].pc \in {"bind", "inside"}
      PROVE  StepsLeft(call[t])' < StepsLeft(call[t])
  <2>1. StepsLeft(call[t])' = StepsLeft(NextOverload(call[t]))
    BY <1>1, <1>3, StepsKept
  <2>2. StepsLeft(NextOverload(call[t])) < StepsLeft(call[t])
    BY <1>3, FailureCosts
  <2> QED
    BY <2>1, <2>2
<1>4. CASE Bind(t)
  <2>1. call[t].pc = "bind"
    BY <1>4 DEF Bind
  <2>2. CASE call' = [call EXCEPT ![t] = NextOverload(call[t])]
    BY <1>1, <1>3, <2>1, <2>2
  <2>3. CASE call' = [call EXCEPT ![t] = [call[t] EXCEPT !.pc = "enter"]]
    <3> DEFINE c == [call[t] EXCEPT !.pc = "enter"]
    <3>1. call'[t] = c
      BY <1>1, <2>3
    <3>2. /\ c.pc = "enter" /\ c.msg = call[t].msg /\ c.service = call[t].service
          /\ c.alt = call[t].alt
      BY <1>1 DEF CallShape
    <3> HIDE DEF c
    <3>3. Left(c) = Left(call[t])
      BY <3>2 DEF Left, Overloads, InstanceOf
    <3>4. StepsLeft(call[t])' = 3 + 3 * Left(call[t])
      BY <1>1, <3>1, <3>2, <3>3, StepsKept, StepsOf
    <3>5. StepsLeft(call[t]) = 4 + 3 * Left(call[t]) /\ Left(call[t]) \in Nat
      BY <1>2, <2>1, StepsOf DEF Serving
    <3> QED
      BY <3>4, <3>5
  <2> QED
    BY <1>4, <2>2, <2>3 DEF Bind
<1>5. CASE Enter(t)
  <2> DEFINE c == [call[t] EXCEPT !.pc = "inside", !.local = cell[InstanceOf(call[t])]]
  <2>1. call'[t] = c /\ call[t].pc = "enter"
    BY <1>1, <1>5 DEF Enter
  <2>2. /\ c.pc = "inside" /\ c.msg = call[t].msg /\ c.service = call[t].service
        /\ c.alt = call[t].alt
    BY <1>1 DEF CallShape
  <2> HIDE DEF c
  <2>3. Left(c) = Left(call[t])
    BY <2>2 DEF Left, Overloads, InstanceOf
  <2>4. StepsLeft(call[t])' = 2 + 3 * Left(call[t])
    BY <1>1, <2>1, <2>2, <2>3, StepsKept, StepsOf
  <2>5. StepsLeft(call[t]) = 3 + 3 * Left(call[t]) /\ Left(call[t]) \in Nat
    BY <1>2, <2>1, StepsOf DEF Serving
  <2> QED
    BY <2>4, <2>5
<1>6. CASE Reject(t)
  BY <1>1, <1>3, <1>6 DEF Reject
<1>7. CASE Finish(t)
  <2> DEFINE a == Answer(call[t], CreateResponse(call[t].msg, Overload(call[t]).result))
             c == [a EXCEPT !.runs = @ + 1]
  <2>1. call'[t] = c /\ call[t].pc = "inside"
    BY <1>1, <1>7 DEF Finish
  <2>2. c.pc = "reply"
    BY <1>1 DEF Answer, CallShape
  <2> HIDE DEF c
  <2>3. StepsLeft(call[t])' = 1
    BY <1>1, <2>1, <2>2, StepsKept, StepsOf
  <2>4. StepsLeft(call[t]) = 2 + 3 * Left(call[t]) /\ Left(call[t]) \in Nat
    BY <1>2, <2>1, StepsOf DEF Serving
  <2> QED
    BY <2>3, <2>4
<1>8. CASE Return(t)
  <2>1. call'[t] = IdleCall /\ IdleCall.pc = "idle" /\ call[t].pc = "reply"
    BY <1>1, <1>8 DEF Return, IdleCall
  <2>2. StepsLeft(call[t])' = 0 /\ StepsLeft(call[t]) = 1
    BY <1>1, <2>1, StepsKept, StepsOf
  <2> QED
    BY <2>2
<1> QED
  BY <1>4, <1>5, <1>6, <1>7, <1>8, ProcessAdvances DEF Step, Throw, Crash

LEMMA NextAdvances == TriesInv /\ [Next]_vars => Advances
<1> SUFFICES ASSUME TriesInv, [Next]_vars, NEW t \in Threads, call'[t] = call[t]
             PROVE  StepsLeft(call[t])' = StepsLeft(call[t])
  BY StepAdvances DEF Advances
<1>1. CASE UNCHANGED <<created, services, info>>
  BY <1>1, StepsKept
<1>2. CASE (\E r \in Registrations : AddService(r[1], r[2]))
            \/ (\E n \in DOMAIN services : RemoveService(n))
  <2>1. call[t].pc = "idle"
    BY <1>2 DEF AddService, RemoveService, Quiet
  <2> QED
    BY <2>1 DEF StepsLeft
<1>3. \/ UNCHANGED <<created, services, info>>
      \/ \E r \in Registrations : AddService(r[1], r[2])
      \/ \E n \in DOMAIN services : RemoveService(n)
  BY NextCases DEF Receive, Process, Bind, Enter, Reject, Finish, Throw, Return, Crash, vars
<1> QED
  BY <1>1, <1>2, <1>3

(* Every call has a bounded number of steps, three for each overload of    *)
(* its method and two more: no order of failing overloads makes dispatch   *)
(* go round, and nobody else can make a call longer.  With NeverDeadlocked *)
(* this is what CallsReturn rests on.                                      *)
THEOREM CallsAdvance == Spec => []StepsCounted /\ [][Advances]_vars
<1>1. Init => TriesInv
  BY TypeInvInit DEF Init, TriesInv, OverloadsTried, IdleCall, Serving
<1> QED
  BY <1>1, TriesStep, CountIsNat, NextAdvances, PTL DEF Spec

-----------------------------------------------------------------------------
(* What the clients are told and what the instances have executed.         *)

InstanceNamed(n) == created[services[n]].instance

(* The method returns to this call.                                        *)
Executes(t) == call[t].runs = 0 /\ call'[t].runs = 1

(* A call that counts as executed is one execution, on the instance that   *)
(* is registered under the name the message gives; and an instance changes *)
(* by nothing else.                                                        *)
Counted ==
    /\ \A t \in Threads : Executes(t) =>
          /\ ServiceName(call[t].msg.name) \in DOMAIN services
          /\ cell' = [cell EXCEPT ![InstanceNamed(ServiceName(call[t].msg.name))] = @ + 1]
    /\ cell' # cell => \E t \in Threads : Executes(t)

LEMMA FinishCounted ==
    ASSUME IInv, NEW t \in Threads, Finish(t)
    PROVE  /\ Executes(t)
           /\ \A u \in Threads \ {t} : ~Executes(u)
           /\ ServiceName(call[t].msg.name) \in DOMAIN services
           /\ cell' = [cell EXCEPT ![InstanceNamed(ServiceName(call[t].msg.name))] = @ + 1]
<1> DEFINE a == Answer(call[t], CreateResponse(call[t].msg, Overload(call[t]).result))
           c == [a EXCEPT !.runs = @ + 1]
           i == InstanceOf(call[t])
           n == ServiceName(call[t].msg.name)
<1>1. /\ TypeInv /\ call \in [Threads -> CallShape] /\ cell \in [Instances -> Nat]
      /\ call[t].runs = 0 /\ call[t].pc = "inside"
  BY DEF IInv, AnswersInv, Answered, TypeInv, TypeOK, Finish
<1>2. i \in Instances /\ n \in DOMAIN services /\ i = InstanceNamed(n)
  BY <1>1, ServingCall DEF Serving, InstanceOf, InstanceNamed
<1>3. call' = [call EXCEPT ![t] = c]
  BY DEF Finish
<1>4. c.runs = 1
  BY <1>1 DEF Answer, CallShape
<1>5. i \notin ThreadSafe => call[t].local = cell[i]
  BY <1>1 DEF IInv, CellsKept
<1>6. cell' = [cell EXCEPT ![i] = 1 + IF i \in ThreadSafe THEN @ ELSE call[t].local]
  BY DEF Finish
<1> HIDE DEF c, i
<1>7. cell' = [cell EXCEPT ![i] = @ + 1]
  <2>1. 1 + cell[i] = cell[i] + 1
    BY <1>1, <1>2
  <2> QED
    BY <1>1, <1>2, <1>5, <1>6, <2>1
<1>8. call'[t] = c /\ \A u \in Threads \ {t} : call'[u] = call[u]
  BY <1>1, <1>3
<1> QED
  BY <1>1, <1>2, <1>4, <1>7, <1>8 DEF Executes

LEMMA NextCounts == IInv /\ [Next]_vars => Counted
<1> SUFFICES ASSUME IInv, [Next]_vars PROVE Counted
  OBVIOUS
<1>1. /\ TypeInv /\ call \in [Threads -> CallShape]
      /\ \A t \in Threads : Answered(call[t])
  BY DEF IInv, AnswersInv, TypeInv, TypeOK
<1>2. ASSUME NEW t \in Threads, Finish(t)
      PROVE  Counted
  BY <1>2, FinishCounted DEF Counted
<1>3. ASSUME UNCHANGED cell, \A t \in Threads : ~Executes(t)
      PROVE  Counted
  BY <1>3 DEF Counted
<1>4. ASSUME NEW t \in Threads, NEW c, call' = [call EXCEPT ![t] = c],
             c.runs = call[t].runs \/ c.runs = 0
      PROVE  \A u \in Threads : ~Executes(u)
  BY <1>1, <1>4 DEF Executes
<1>5. ASSUME NEW t \in Threads, Receive(t)
      PROVE  Counted
  <2>1. PICK d \in Docs :
           call' = [call EXCEPT ![t] =
                       [IdleCall EXCEPT !.pc = "process", !.doc = d, !.msg = Parse(d)]]
    BY <1>5 DEF Receive
  <2>2. [IdleCall EXCEPT !.pc = "process", !.doc = d, !.msg = Parse(d)].runs = 0
    BY DEF IdleCall
  <2> QED
    BY <1>3, <1>4, <1>5, <2>1, <2>2 DEF Receive
<1>6. ASSUME NEW t \in Threads, Process(t)
      PROVE  Counted
  <2>1. CASE \E r \in DirectReplies(call[t].msg) : call' = [call EXCEPT ![t] = Answer(@, r)]
    <3>1. PICK r \in DirectReplies(call[t].msg) : call' = [call EXCEPT ![t] = Answer(call[t], r)]
      BY <2>1
    <3>2. Answer(call[t], r).runs = call[t].runs
      BY <1>1 DEF Answer, CallShape
    <3> QED
      BY <1>3, <1>4, <1>6, <3>1, <3>2 DEF Process
  <2>2. CASE call' = [call EXCEPT ![t].pc = "bind", ![t].alt = 1,
                          ![t].service = services[ServiceName(call[t].msg.name)]]
    <3> DEFINE c == [call[t] EXCEPT !.pc = "bind", !.alt = 1,
                        !.service = services[ServiceName(call[t].msg.name)]]
    <3>1. c.runs = call[t].runs /\ call' = [call EXCEPT ![t] = c]
      BY <1>1, <2>2 DEF CallShape
    <3> HIDE DEF c
    <3> QED
      BY <1>3, <1>4, <1>6, <3>1 DEF Process
  <2> QED
    BY <1>6, <2>1, <2>2 DEF Process
<1>7. ASSUME NEW t \in Threads, call' = [call EXCEPT ![t] = NextOverload(call[t])],
             UNCHANGED cell
      PROVE  Counted
  <2>1. NextOverload(call[t]).runs = call[t].runs
    BY <1>1, NextOverloadShape
  <2> QED
    BY <1>3, <1>4, <1>7, <2>1
<1>8. ASSUME NEW t \in Threads, Bind(t)
      PROVE  Counted
  <2>1. CASE call' = [call EXCEPT ![t] = NextOverload(call[t])]
    BY <1>7, <1>8, <2>1 DEF Bind
  <2>2. CASE call' = [call EXCEPT ![t] = [call[t] EXCEPT !.pc = "enter"]]
    <3>1. [call[t] EXCEPT !.pc = "enter"].runs = call[t].runs
      BY <1>1 DEF CallShape
    <3> QED
      BY <1>3, <1>4, <1>8, <2>2, <3>1 DEF Bind
  <2> QED
    BY <1>8, <2>1, <2>2 DEF Bind
<1>9. ASSUME NEW t \in Threads, Enter(t)
      PROVE  Counted
  <2> DEFINE c == [call[t] EXCEPT !.pc = "inside", !.local = cell[InstanceOf(call[t])]]
  <2>1. c.runs = call[t].runs /\ call' = [call EXCEPT ![t] = c]
    BY <1>1, <1>9 DEF CallShape, Enter
  <2> HIDE DEF c
  <2> QED
    BY <1>3, <1>4, <1>9, <2>1 DEF Enter
<1>10. ASSUME NEW t \in Threads, Reject(t)
       PROVE  Counted
  BY <1>7, <1>10 DEF Reject
<1>11. ASSUME NEW t \in Threads, Return(t)
       PROVE  Counted
  BY <1>3, <1>4, <1>11 DEF Return, IdleCall
<1>12. CASE UNCHANGED <<cell, call>>
  BY <1>3, <1>12 DEF Executes
<1>13. \/ \E t \in Threads : \/ Receive(t) \/ Process(t) \/ Bind(t) \/ Enter(t)
                             \/ Reject(t) \/ Finish(t) \/ Return(t)
       \/ UNCHANGED <<cell, call>>
  BY NextCases DEF AddService, RemoveService, Throw, Crash, vars
<1> QED
  BY <1>2, <1>5, <1>6, <1>8, <1>9, <1>10, <1>11, <1>12, <1>13

(* A call that is reported as executed has executed exactly once, on the   *)
(* instance it named, whatever the threads do meanwhile; and what refuses  *)
(* a call (a failed bind, a rejected overload) leaves every instance as it *)
(* was.                                                                    *)
THEOREM ExecutionsCounted == Spec => [][Counted]_vars
BY IInvInit, IInvStep, NextCounts, PTL DEF Spec

-----------------------------------------------------------------------------
(* What ends the process.                                                  *)

(* Of the messages a method is called for, only a notification can have an *)
(* exception for a reply; only a response has no reply; and a document     *)
(* that is no message has a reply of its own.                              *)
Mannered(c) ==
    /\ c.pc # "idle" => c.msg.entity # "none"
    /\ c.pc \in Serving => c.msg.entity \in {"request", "notification"}
    /\ c.pc = "reply" /\ c.reply.kind = "none"  => c.msg.entity = "response"
    /\ c.pc = "reply" /\ c.reply.kind = "throw" => c.msg.entity = "notification"
    /\ c.pc = "reply" /\ c.msg.entity = "error" => c.reply = InvalidRequestReply

MannersInv == TypeInv /\ \A t \in Threads : Mannered(call[t])

LEMMA StaysMannered ==
    ASSUME MannersInv, NEW t \in Threads, NEW c, call' = [call EXCEPT ![t] = c],
           Mannered(c)
    PROVE  \A u \in Threads : Mannered(call'[u])
BY DEF MannersInv, TypeInv, TypeOK

LEMMA ErrorMannered ==
    ASSUME NEW c, c.msg.entity \in {"request", "notification"}, NEW code,
           NEW a, a.pc = "reply", a.msg = c.msg, a.reply = CreateErrorResponse(c.msg, code)
    PROVE  Mannered(a)
BY DEF Mannered, CreateErrorResponse, Reply, Serving

LEMMA ResultMannered ==
    ASSUME NEW a, a.pc = "reply", a.msg.entity \in {"request", "notification"},
           NEW result, a.reply = CreateResponse(a.msg, result)
    PROVE  Mannered(a)
BY DEF Mannered, CreateResponse, ThrownReply, Reply, Serving

LEMMA ParsedMannered == \A d : Parse(d).entity # "none"
BY DEF Parse, ParseRequest, ParseNotification, ParseResponse, ParseBatch, ErrorMessage, Message

LEMMA DirectMannered ==
    ASSUME NEW c \in CallShape, Mannered(c), c.pc = "process", NEW r \in DirectReplies(c.msg)
    PROVE  Mannered(Answer(c, r))
<1> DEFINE a == Answer(c, r)
<1>1. a.pc = "reply" /\ a.msg = c.msg /\ a.reply = r
  BY DEF Answer, CallShape
<1>2. c.msg.entity \in {"request", "notification", "response", "batch", "error"}
  BY DEF Mannered, CallShape, MessageShape
<1> SUFFICES Mannered(a)
  OBVIOUS
<1> HIDE DEF a
<1>3. CASE c.msg.entity = "response"
  BY <1>1, <1>3 DEF DirectReplies, NoReply, Reply, Mannered, Serving
<1>4. CASE c.msg.entity \in {"batch", "error"}
  BY <1>1, <1>4 DEF DirectReplies, InvalidRequestReply, Reply, Mannered, Serving
<1>5. CASE c.msg.entity \in {"request", "notification"}
  <2>1. \/ r = CreateErrorResponse(c.msg, "MethodNotFound")
        \/ r = CreateResponse(c.msg, IF info.known THEN "value" ELSE "null")
    BY <1>5 DEF DirectReplies
  <2> QED
    <3>1. CASE r = CreateErrorResponse(c.msg, "MethodNotFound")
      BY <1>1, <1>5, <3>1, ErrorMannered
    <3>2. CASE r = CreateResponse(c.msg, IF info.known THEN "value" ELSE "null")
      BY <1>1, <1>5, <3>2, ResultMannered
    <3> QED
      BY <2>1, <3>1, <3>2
<1> QED
  BY <1>2, <1>3, <1>4, <1>5

LEMMA NextOverloadMannered ==
    ASSUME NEW c \in CallShape, Mannered(c), c.pc \in Serving
    PROVE  Mannered(NextOverload(c))
<1> DEFINE n == NextOverload(c)
<1>1. /\ n.pc \in {"bind", "reply"} /\ n.msg = c.msg
      /\ n.pc = "reply" => \E code \in Codes : n.reply = CreateErrorResponse(c.msg, code)
  BY NextOverloadShape
<1> SUFFICES Mannered(n)
  OBVIOUS
<1> HIDE DEF n
<1>2. CASE n.pc = "reply"
  BY <1>1, <1>2, ErrorMannered DEF Mannered, Serving
<1>3. CASE n.pc = "bind"
  BY <1>1, <1>3 DEF Mannered, Serving
<1> QED
  BY <1>1, <1>2, <1>3

LEMMA MannersStep == MannersInv /\ [Next]_vars => MannersInv'
<1> SUFFICES ASSUME MannersInv, [Next]_vars PROVE \A t \in Threads : Mannered(call'[t])
  BY TypeInvStep DEF MannersInv, Mannered
<1>1. /\ TypeInv /\ call \in [Threads -> CallShape]
      /\ \A t \in Threads : Mannered(call[t])
  BY DEF MannersInv, TypeInv, TypeOK
<1>2. ASSUME NEW t \in Threads, NEW pc \in Serving, call[t].pc \in Serving \cup {"process"},
             call[t].msg.entity \in {"request", "notification"},
             NEW c, c.pc = pc, c.msg = call[t].msg, call' = [call EXCEPT ![t] = c]
      PROVE  \A u \in Threads : Mannered(call'[u])
  <2>1. Mannered(c)
    BY <1>2 DEF Mannered, Serving
  <2> QED
    BY <1>2, <2>1, StaysMannered
<1>3. ASSUME NEW t \in Threads, Receive(t)
      PROVE  \A u \in Threads : Mannered(call'[u])
  <2>1. PICK d \in Docs :
           call' = [call EXCEPT ![t] =
                       [IdleCall EXCEPT !.pc = "process", !.doc = d, !.msg = Parse(d)]]
    BY <1>3 DEF Receive
  <2> DEFINE c == [IdleCall EXCEPT !.pc = "process", !.doc = d, !.msg = Parse(d)]
  <2>2. c.pc = "process" /\ c.msg = Parse(d) /\ call' = [call EXCEPT ![t] = c]
    BY <2>1 DEF IdleCall
  <2> HIDE DEF c
  <2>3. Mannered(c)
    BY <2>2, ParsedMannered DEF Mannered, Serving
  <2> QED
    BY <2>2, <2>3, StaysMannered
<1>4. ASSUME NEW t \in Threads, Process(t)
      PROVE  \A u \in Threads : Mannered(call'[u])
  <2>1. CASE \E r \in DirectReplies(call[t].msg) : call' = [call EXCEPT ![t] = Answer(@, r)]
    <3>1. PICK r \in DirectReplies(call[t].msg) : call' = [call EXCEPT ![t] = Answer(call[t], r)]
      BY <2>1
    <3>2. Mannered(Answer(call[t], r))
      BY <1>1, <1>4, DirectMannered DEF Process
    <3> QED
      BY <3>1, <3>2, StaysMannered
  <2>2. CASE /\ DirectReplies(call[t].msg) = {}
             /\ call' = [call EXCEPT ![t].pc = "bind", ![t].alt = 1,
                            ![t].service = services[ServiceName(call[t].msg.name)]]
    <3> DEFINE c == [call[t] EXCEPT !.pc = "bind", !.alt = 1,
                        !.service = services[ServiceName(call[t].msg.name)]]
    <3>1. c.pc = "bind" /\ c.msg = call[t].msg /\ call' = [call EXCEPT ![t] = c]
      BY <1>1, <2>2 DEF CallShape
    <3> HIDE DEF c
    <3>2. call[t].pc = "process" /\ call[t].msg.entity \in {"request", "notification"}
      BY <1>1, <1>4, <2>2 DEF Process, DirectReplies, Mannered, CallShape, MessageShape
    <3> QED
      BY <1>2, <3>1, <3>2 DEF Serving
  <2> QED
    BY <1>4, <2>1, <2>2 DEF Process
<1>5. ASSUME NEW t \in Threads, call[t].pc \in Serving,
             call' = [call EXCEPT ![t] = NextOverload(call[t])]
      PROVE  \A u \in Threads : Mannered(call'[u])
  BY <1>1, <1>5, NextOverloadMannered, StaysMannered
<1>6. ASSUME NEW t \in Threads, Bind(t)
      PROVE  \A u \in Threads : Mannered(call'[u])
  <2>1. CASE call' = [call EXCEPT ![t] = NextOverload(call[t])]
    BY <1>5, <1>6, <2>1 DEF Bind, Serving
  <2>2. CASE call' = [call EXCEPT ![t] = [call[t] EXCEPT !.pc = "enter"]]
    <3> DEFINE c == [call[t] EXCEPT !.pc = "enter"]
    <3>1. c.pc = "enter" /\ c.msg = call[t].msg /\ call' = [call EXCEPT ![t] = c]
      BY <1>1, <2>2 DEF CallShape
    <3> HIDE DEF c
    <3>2. call[t].pc \in Serving /\ call[t].msg.entity \in {"request", "notification"}
      BY <1>1, <1>6 DEF Bind, Mannered, Serving
    <3> QED
      BY <1>2, <3>1, <3>2 DEF Serving
  <2> QED
    BY <1>6, <2>1, <2>2 DEF Bind
<1>7. ASSUME NEW t \in Threads, Enter(t)
      PROVE  \A u \in Threads : Mannered(call'[u])
  <2> DEFINE c == [call[t] EXCEPT !.pc = "inside", !.local = cell[InstanceOf(call[t])]]
  <2>1. c.pc = "inside" /\ c.msg = call[t].msg /\ call' = [call EXCEPT ![t] = c]
    BY <1>1, <1>7 DEF CallShape, Enter
  <2> HIDE DEF c
  <2>2. call[t].pc \in Serving /\ call[t].msg.entity \in {"request", "notification"}
    BY <1>1, <1>7 DEF Enter, Mannered, Serving
  <2> QED
    BY <1>2, <2>1, <2>2 DEF Serving
<1>8. ASSUME NEW t \in Threads, Reject(t)
      PROVE  \A u \in Threads : Mannered(call'[u])
  BY <1>5, <1>8 DEF Reject, Serving
<1>9. ASSUME NEW t \in Threads, Finish(t)
      PROVE  \A u \in Threads : Mannered(call'[u])
  <2> DEFINE r == CreateResponse(call[t].msg, Overload(call[t]).result)
             c == [Answer(call[t], r) EXCEPT !.runs = @ + 1]
  <2>1. call' = [call EXCEPT ![t] = c]
    BY <1>9 DEF Finish
  <2>2. c.pc = "reply" /\ c.msg = call[t].msg /\ c.reply = r
    BY <1>1 DEF Answer, CallShape
  <2>3. call[t].msg.entity \in {"request", "notification"}
    BY <1>1, <1>9 DEF Finish, Mannered, Serving
  <2> HIDE DEF c, r
  <2>4. Mannered(c)
    <3>1. r = CreateResponse(c.msg, Overload(call[t]).result)
      BY <2>2 DEF r
    <3> QED
      BY <2>2, <2>3, <3>1, ResultMannered, Zenon
  <2> QED
    BY <2>1, <2>4, StaysMannered
<1>10. ASSUME NEW t \in Threads, Return(t)
       PROVE  \A u \in Threads : Mannered(call'[u])
  <2>1. Mannered(IdleCall)
    BY DEF Mannered, IdleCall, Serving
  <2> QED
    BY <1>10, <2>1, StaysMannered DEF Return
<1>11. CASE UNCHANGED call
  BY <1>1, <1>11
<1> QED
  BY <1>3, <1>4, <1>6, <1>7, <1>8, <1>9, <1>10, <1>11, NextCases
     DEF AddService, RemoveService, Throw, Crash, vars

(* A call that ends the process.                                           *)
Fatal(c) ==
    \/ c.pc = "inside" /\ Overload(c).throws
    \/ c.pc = "reply" /\ c.msg.entity \in {"notification", "response"}

EndsOnly == up /\ ~up' => \E t \in Threads : Fatal(call[t])

(* Only a method that throws, a notification or a response ends the        *)
(* process: no other document does, however it is malformed, and no        *)
(* request whose method returns, whatever its params are.                  *)
THEOREM ProcessEnds == Spec => [][EndsOnly]_vars
<1>1. Init => MannersInv
  BY TypeInvInit DEF Init, MannersInv, Mannered, IdleCall, Serving
<1>2. MannersInv /\ [Next]_vars => EndsOnly
  <2> SUFFICES ASSUME MannersInv, [Next]_vars, up, ~up'
               PROVE  \E t \in Threads : Fatal(call[t])
    BY DEF EndsOnly
  <2>1. \E t \in Threads : Throw(t) \/ Crash(t)
    BY NextCases DEF AddService, RemoveService, Receive, Process, Bind, Enter, Reject,
                     Finish, Return, vars
  <2> QED
    BY <2>1 DEF MannersInv, Mannered, Fatal, Throw, Crash
<1> QED
  BY <1>1, <1>2, MannersStep, PTL DEF Spec

-----------------------------------------------------------------------------
(* What a client gets for a document.                                      *)

(* The message of a call is what the parser made of the document.          *)
FromDocument(c) == c.pc # "idle" => c.doc \in Docs /\ c.msg = Parse(c.doc)

DocumentsInv == \A t \in Threads : FromDocument(call[t])

AnswersDocs == AnswersInv /\ MannersInv /\ DocumentsInv

(* A document with a method and an id is a request or an error, and the    *)
(* one's id or the other's null is the document's id exactly if Echoed.    *)
LEMMA EchoExact ==
    ASSUME NEW d \in Docs, IsRequest(d)
    PROVE  /\ Parse(d).entity \in {"request", "error"}
           /\ \A id : /\ Parse(d).entity = "request" => id = Parse(d).id
                      /\ Parse(d).entity = "error" => id = NullId
                      => (id = d.id <=> Echoed(d))
<1> DEFINE m == Parse(d)
<1>1. /\ d.id.type \in {"none", "null", "integer", "string", "other"}
      /\ d.id.value \in Int /\ d.id = [type |-> d.id.type, value |-> d.id.value]
      /\ d.id.type = "null" => d.id = NullId
  OBVIOUS
<1>2. m = ParseRequest(d)
  BY DEF Parse
<1> HIDE DEF m
<1>3. NullId = d.id <=> d.id.type = "null"
  BY <1>1 DEF NullId
<1>4. CASE IdParses(d.id) /\ NotificationParses(d)
  <2>1. m.entity = "request" /\ m.id = ParseId(d.id)
    BY <1>2, <1>4 DEF ParseRequest, Message
  <2>2. ParseId(d.id) = d.id <=> Echoed(d)
    <3>1. CASE d.id.type = "integer"
      <4>1. Truncate(d.id.value) = d.id.value <=> d.id.value \in IntRange
        BY <1>1, TruncateFixes, TruncateRange
      <4>2. ParseId(d.id) = [type |-> d.id.type, value |-> Truncate(d.id.value)]
        BY <1>1, <3>1 DEF ParseId
      <4> QED
        BY <1>1, <1>4, <3>1, <4>1, <4>2 DEF Echoed
    <3>2. CASE d.id.type \in {"null", "string"}
      BY <1>1, <1>4, <3>2 DEF ParseId, Echoed
    <3> QED
      BY <1>4, <3>1, <3>2 DEF IdParses
  <2> QED
    BY <2>1, <2>2 DEF m
<1>5. CASE ~(IdParses(d.id) /\ NotificationParses(d))
  <2>1. m.entity = "error"
    BY <1>2, <1>5 DEF ParseRequest, ErrorMessage, Message
  <2>2. Echoed(d) <=> d.id.type = "null"
    BY <1>5 DEF Echoed, IdParses
  <2> QED
    BY <1>3, <2>1, <2>2 DEF m
<1> QED
  BY <1>4, <1>5

LEMMA DocumentsStep == TypeInv /\ DocumentsInv /\ [Next]_vars => DocumentsInv'
<1> SUFFICES ASSUME TypeInv, DocumentsInv, [Next]_vars
             PROVE  DocumentsInv'
  OBVIOUS
<1>1. call \in [Threads -> CallShape] /\ \A t \in Threads : FromDocument(call[t])
  BY DEF TypeInv, TypeOK, DocumentsInv
<1>2. ASSUME NEW t \in Threads, NEW c, FromDocument(c), call' = [call EXCEPT ![t] = c]
      PROVE  DocumentsInv'
  <2>1. \A u \in Threads : call'[u] \in {c, call[u]}
    BY <1>1, <1>2
  <2> QED
    BY <1>1, <1>2, <2>1 DEF DocumentsInv, FromDocument
<1>3. ASSUME NEW t \in Threads, Receive(t)
      PROVE  DocumentsInv'
  <2>1. PICK d \in Docs :
           call' = [call EXCEPT ![t] =
                       [IdleCall EXCEPT !.pc = "process", !.doc = d, !.msg = Parse(d)]]
    BY <1>3 DEF Receive
  <2> DEFINE c == [IdleCall EXCEPT !.pc = "process", !.doc = d, !.msg = Parse(d)]
  <2>2. c.doc = d /\ c.msg = Parse(d)
    BY DEF IdleCall
  <2>3. call' = [call EXCEPT ![t] = c]
    BY <2>1
  <2> HIDE DEF c
  <2>4. FromDocument(c)
    BY <2>2 DEF FromDocument
  <2> QED
    BY <1>2, <2>3, <2>4
<1>4. ASSUME NEW t \in Threads, Return(t)
      PROVE  DocumentsInv'
  <2>1. FromDocument(IdleCall)
    BY DEF FromDocument, IdleCall
  <2> QED
    BY <1>2, <1>4, <2>1 DEF Return
<1>5. ASSUME NEW t \in Threads,
             Process(t) \/ Bind(t) \/ Enter(t) \/ Reject(t) \/ Finish(t)
      PROVE  DocumentsInv'
  <2>1. call[t].pc # "idle"
    BY <1>5 DEF Process, Bind, Enter, Reject, Finish
  <2>2. \A u \in Threads : u # t => call'[u] = call[u]
    BY <1>1, <1>5 DEF Process, Bind, Enter, Reject, Finish
  <2>3. \A u \in Threads : call'[u].msg = call[u].msg /\ call'[u].doc = call[u].doc
    BY <1>5, KeepsMessages
  <2>4. \A u \in Threads : call'[u].pc # "idle" => call[u].pc # "idle"
    BY <2>1, <2>2
  <2> QED
    BY <1>1, <2>3, <2>4 DEF DocumentsInv, FromDocument
<1>6. CASE UNCHANGED call
  BY <1>1, <1>6 DEF DocumentsInv, FromDocument
<1>7. \/ \E t \in Threads : \/ Receive(t) \/ Process(t) \/ Bind(t) \/ Enter(t)
                            \/ Reject(t) \/ Finish(t) \/ Return(t)
      \/ UNCHANGED call
  BY NextCases DEF AddService, RemoveService, Throw, Crash, vars
<1> QED
  BY <1>3, <1>4, <1>5, <1>6, <1>7

(* Every document that is a request gets a reply, and under its own id     *)
(* exactly if it is Echoed, for any documents, methods and width of int.   *)
THEOREM AnswersFit == Spec => []RequestsAnswered
<1>1. Init => AnswersDocs
  BY AnswersInit, TypeInvInit DEF Init, AnswersDocs, MannersInv, Mannered, DocumentsInv,
                                  FromDocument, IdleCall, Serving
<1>2. AnswersDocs /\ [Next]_vars => AnswersDocs'
  BY AnswersStep, MannersStep, DocumentsStep DEF AnswersDocs, MannersInv
<1>3. AnswersDocs => RequestsAnswered
  <2> SUFFICES ASSUME AnswersDocs, NEW t \in Threads,
                      call[t].pc = "reply", IsRequest(call[t].doc)
               PROVE  /\ call[t].reply.kind \in {"result", "error"}
                      /\ call[t].reply.id = call[t].doc.id <=> Echoed(call[t].doc)
    BY DEF RequestsAnswered
  <2> DEFINE c == call[t]
  <2>1. c.doc \in Docs /\ c.msg = Parse(c.doc)
    BY DEF AnswersDocs, DocumentsInv, FromDocument
  <2>2. c.msg.entity = "request" => /\ c.reply.kind \in {"result", "error"}
                                    /\ c.reply.id = c.msg.id
    BY DEF AnswersDocs, AnswersInv, Answered, AnswersRequest
  <2>3. c.msg.entity = "error" => c.reply.kind = "error" /\ c.reply.id = NullId
    BY DEF AnswersDocs, MannersInv, Mannered, InvalidRequestReply, Reply
  <2> HIDE DEF c
  <2>4. IsRequest(c.doc)
    BY DEF c
  <2> QED
    BY <2>1, <2>2, <2>3, <2>4, EchoExact DEF c
<1> QED
  BY <1>1, <1>2, <1>3, PTL DEF Spec
=============================================================================
