----------------------------- MODULE Repository -----------------------------
(***************************************************************************)
(* The service repository and its use by the io_context threads:           *)
(* src/src/core/repository.cpp, service.cpp and method::invoke.            *)
(*                                                                         *)
(* Every thread processes one message at a time: it parses it, looks the   *)
(* service and the method up, tries the overloads in order, and calls the  *)
(* first that accepts the params, under the mutex of the service unless    *)
(* the service is declared thread safe.  A call reads and writes the       *)
(* instance (its cell) in two steps; an instance that is declared thread   *)
(* safe does this atomically by itself.                                    *)
(*                                                                         *)
(* The repository has no lock of its own.  As in the examples, services    *)
(* are added and removed only while no thread processes a message.         *)
(***************************************************************************)
EXTENDS JsonRpc, Method

CONSTANTS
    Threads,        \* the io_context threads
    Instances,      \* the registered C++ objects
    ThreadSafe,     \* those whose type is declared thread_safe
    Registrations,  \* the pairs <<service name, instance>> the program adds
    Methods,        \* per instance: method name |-> sequence of overloads,
                    \* [params, result : "null" or "value", throws]
    Docs,           \* the documents the clients send
    MaxServices,    \* bound of the model: calls of add_service
    MaxMessages     \* bound of the model: messages received

ASSUME InstanceAssumption ==
    /\ ThreadSafe \subseteq Instances
    /\ \A r \in Registrations : r[2] \in Instances
(* service pushes every method it finds to methods_[name]: a name that is  *)
(* there has an overload.                                                  *)
ASSUME MethodsAssumption ==
    \A i \in Instances : \A m \in DOMAIN Methods[i] : Len(Methods[i][m]) \in Nat \ {0}
(* A mutex belongs to a service object: the same instance under two names  *)
(* would have two.                                                         *)
ASSUME OneName ==
    \A r, q \in Registrations : r[2] = q[2] => r[1] = q[1]
ASSUME DocsAssumption ==
    \A d \in Docs :
        /\ d.id \in [type : {"none", "null", "integer", "string", "other"}, value : Int]
        /\ d.id.type = "null" => d.id = NullId
ASSUME RepositoryBounds == MaxServices \in Nat /\ MaxMessages \in Nat

VARIABLES
    up,        \* the process has not been ended by an exception
    created,   \* the service objects made so far: [name, instance]
    services,  \* services_: service name |-> index in created
    info,      \* services_info_: known once a service was added or removed
    mutex,     \* service::mutex_ of each service object: its owner
    cell,      \* the memory of each instance
    call,      \* what each thread does (doc and runs are history: what it
               \* has received, how many methods it has executed)
    received   \* how many messages were received

vars == <<up, created, services, info, mutex, cell, call, received>>

NoThread == "nobody"

ASSUME ThreadsAssumption == NoThread \notin Threads

Services == 1 .. MaxServices

NoMessage == Message("none", NullId, NoName, NoParams)

NoDoc == [shape |-> "none"]

IdleCall == [pc |-> "idle", doc |-> NoDoc, msg |-> NoMessage, service |-> 0,
             alt |-> 0, local |-> 0, runs |-> 0, reply |-> NoReply]

Init ==
    /\ up = TRUE
    /\ created = <<>>
    /\ services = [n \in {} |-> 0]
    /\ info = [known |-> FALSE, table |-> services]
    /\ mutex = [s \in Services |-> NoThread]
    /\ cell = [i \in Instances |-> 0]
    /\ call = [t \in Threads |-> IdleCall]
    /\ received = 0

-----------------------------------------------------------------------------
(* The service, the overloads and the current overload of a call.          *)

InstanceOf(c)  == created[c.service].instance
Overloads(c)   == Methods[InstanceOf(c)][MethodName(c.msg.name)]
Overload(c)    == Overloads(c)[c.alt]
Arguments(c)   == BindArguments(Overload(c).params, c.msg.params)

NeedsMutex_Bug(c) == FALSE

(* dispatch passes &mutex_ unless the service is thread safe.              *)
NeedsMutex(c) == InstanceOf(c) \notin ThreadSafe

Answer(c, reply) == [c EXCEPT !.pc = "reply", !.reply = reply]

NextOverload_Bug(c) == IF c.alt < Len(Overloads(c))
                       THEN [c EXCEPT !.pc = "bind", !.alt = @ + 1]
                       ELSE Answer(c, CreateResponse(c.msg, "null"))

(* An overload has failed.  A single one reports its own error; of several *)
(* the next is tried, and when all have failed the method is not found.    *)
NextOverload(c) ==
    IF Len(Overloads(c)) = 1
    THEN Answer(c, CreateErrorResponse(c.msg, InvalidParams))
    ELSE IF c.alt < Len(Overloads(c))
    THEN [c EXCEPT !.pc = "bind", !.alt = @ + 1]
    ELSE Answer(c, CreateErrorResponse(c.msg, "MethodNotFound"))

-----------------------------------------------------------------------------
(* The main thread.                                                        *)

(* The repository is not shared with threads that process messages.        *)
Quiet == up /\ \A t \in Threads : call[t].pc = "idle"

ServicesInfo(table) == [known |-> TRUE, table |-> table]

(* repository::add_service.  A service without a name, or with the name of *)
(* another one, is refused and nothing changes.                            *)
AddService(n, i) ==
    /\ Quiet /\ Len(created) < MaxServices
    /\ n # NoName /\ n \notin DOMAIN services
    /\ created' = Append(created, [name |-> n, instance |-> i])
    /\ services' = [m \in DOMAIN services \cup {n} |->
                       IF m = n THEN Len(created') ELSE services[m]]
    /\ info' = ServicesInfo(services')
    /\ UNCHANGED <<up, mutex, cell, call, received>>

RemoveService_Bug(n) ==
    /\ Quiet
    /\ n \in DOMAIN services
    /\ services' = [m \in DOMAIN services \ {n} |-> services[m]]
    /\ UNCHANGED <<up, created, info, mutex, cell, call, received>>

(* repository::remove_service; a name that is not there changes nothing.   *)
RemoveService(n) ==
    /\ Quiet
    /\ n \in DOMAIN services
    /\ services' = [m \in DOMAIN services \ {n} |-> services[m]]
    /\ info' = ServicesInfo(services')
    /\ UNCHANGED <<up, created, mutex, cell, call, received>>

-----------------------------------------------------------------------------
(* A thread of the io_context.                                             *)

(* A session parses what it has read.                                      *)
Receive(t) ==
    /\ up /\ call[t].pc = "idle"
    /\ received < MaxMessages
    /\ \E d \in Docs :
          call' = [call EXCEPT ![t] = [IdleCall EXCEPT !.pc = "process", !.doc = d,
                                                       !.msg = Parse(d)]]
    /\ received' = received + 1
    /\ UNCHANGED <<up, created, services, info, mutex, cell>>

(* What process_message and the head of dispatch answer by themselves.     *)
DirectReplies(m) ==
    IF m.entity = "response"               THEN {NoReply}
    ELSE IF m.entity \in {"batch", "error"} THEN {InvalidRequestReply}
    ELSE IF m.name = <<"__init__">>
         THEN {CreateResponse(m, IF info.known THEN "value" ELSE "null")}
    ELSE IF \/ ServiceName(m.name) \notin DOMAIN services
            \/ MethodName(m.name) \notin
                  DOMAIN Methods[created[services[ServiceName(m.name)]].instance]
         THEN {CreateErrorResponse(m, "MethodNotFound")}
    ELSE {}

(* repository::process_message up to the overloads.                        *)
Process(t) ==
    /\ up /\ call[t].pc = "process"
    /\ LET m == call[t].msg
       IN  \/ \E r \in DirectReplies(m) : call' = [call EXCEPT ![t] = Answer(@, r)]
           \/ /\ DirectReplies(m) = {}
              /\ call' = [call EXCEPT ![t].pc = "bind", ![t].alt = 1,
                             ![t].service = services[ServiceName(m.name)]]
    /\ UNCHANGED <<up, created, services, info, mutex, cell, received>>

(* method::invoke binds the params, before it takes the mutex.             *)
Bind(t) ==
    /\ up /\ call[t].pc = "bind"
    /\ call' = [call EXCEPT ![t] = IF Arguments(@).ok THEN [@ EXCEPT !.pc = "enter"]
                                                      ELSE NextOverload(@)]
    /\ UNCHANGED <<up, created, services, info, mutex, cell, received>>

(* lock_guard, then invoke_variadic begins.                                *)
Enter(t) ==
    /\ up /\ call[t].pc = "enter"
    /\ LET c == call[t]
       IN  IF NeedsMutex(c)
           THEN mutex[c.service] = NoThread /\ mutex' = [mutex EXCEPT ![c.service] = t]
           ELSE UNCHANGED mutex
    /\ call' = [call EXCEPT ![t].pc = "inside",
                            ![t].local = cell[InstanceOf(call[t])]]
    /\ UNCHANGED <<up, created, services, info, cell, received>>

Unlock_Bug(c) == UNCHANGED mutex

Unlock(c) == IF NeedsMutex(c) THEN mutex' = [mutex EXCEPT ![c.service] = NoThread]
                              ELSE UNCHANGED mutex

(* RTTR does not find the arguments acceptable: no call is made.           *)
Reject(t) ==
    /\ up /\ call[t].pc = "inside"
    /\ LET c == call[t]
       IN  /\ ~Invocable(Overload(c).params, Arguments(c).args)
           /\ Unlock(c)
           /\ call' = [call EXCEPT ![t] = NextOverload(c)]
    /\ UNCHANGED <<up, created, services, info, cell, received>>

(* The method returns: its effect is in the cell, the mutex is released    *)
(* and the result becomes a response.                                      *)
Finish(t) ==
    /\ up /\ call[t].pc = "inside"
    /\ LET c == call[t]
           i == InstanceOf(c)
       IN  /\ Invocable(Overload(c).params, Arguments(c).args)
           /\ ~Overload(c).throws
           /\ cell' = [cell EXCEPT ![i] = 1 + IF i \in ThreadSafe THEN @ ELSE c.local]
           /\ Unlock(c)
           /\ call' = [call EXCEPT ![t] = [Answer(c, CreateResponse(c.msg, Overload(c).result))
                                              EXCEPT !.runs = @ + 1]]
    /\ UNCHANGED <<up, created, services, info, received>>

(* The method throws: lock_guard releases the mutex, and nothing above     *)
(* catches the exception.                                                  *)
Throw(t) ==
    /\ up /\ call[t].pc = "inside"
    /\ LET c == call[t]
       IN  /\ Invocable(Overload(c).params, Arguments(c).args)
           /\ Overload(c).throws
           /\ Unlock(c)
    /\ up' = FALSE
    /\ UNCHANGED <<created, services, info, cell, call, received>>

(* process_message returns to the session, which sends the reply.          *)
Return(t) ==
    /\ up /\ call[t].pc = "reply" /\ call[t].reply.kind \notin {"none", "throw"}
    /\ call' = [call EXCEPT ![t] = IdleCall]
    /\ UNCHANGED <<up, created, services, info, mutex, cell, received>>

(* An exception leaves process_message, or the session dereferences the    *)
(* message that is not there.                                              *)
Crash(t) ==
    /\ up /\ call[t].pc = "reply" /\ call[t].reply.kind \in {"none", "throw"}
    /\ up' = FALSE
    /\ UNCHANGED <<created, services, info, mutex, cell, call, received>>

Step(t) == Process(t) \/ Bind(t) \/ Enter(t) \/ Reject(t) \/ Finish(t)
              \/ Throw(t) \/ Return(t) \/ Crash(t)

(* Nothing more is sent, or the process is gone.                           *)
Stopped == (~up \/ (Quiet /\ received = MaxMessages)) /\ UNCHANGED vars

Next == \/ \E r \in Registrations : AddService(r[1], r[2])
        \/ \E n \in DOMAIN services : RemoveService(n)
        \/ \E t \in Threads : Receive(t) \/ Step(t)
        \/ Stopped

Spec == Init /\ [][Next]_vars

(* Threads run, and methods return.                                        *)
FairSpec == Spec /\ \A t \in Threads : WF_vars(Step(t))

-----------------------------------------------------------------------------
(***************************************************************************)
(* Safety.                                                                 *)
(***************************************************************************)

DocParams == {d.params : d \in Docs} \cup {NoParams}
DocNames  == {d.method.name : d \in Docs} \cup {NoName}

MessageShape == [entity : {"none", "request", "notification", "response", "batch", "error"},
                 id : MessageIds, name : DocNames, params : DocParams, code : Codes]

CallShape == [pc : {"idle", "process", "bind", "enter", "inside", "reply"},
              doc : Docs \cup {NoDoc}, msg : MessageShape, service : Nat, alt : Nat, local : Nat, runs : Nat,
              reply : [kind : {"none", "result", "error", "throw"},
                       id : MessageIds, code : Codes]]

TypeOK ==
    /\ up \in BOOLEAN
    /\ created \in Seq([name : {r[1] : r \in Registrations}, instance : Instances])
    /\ services \in [DOMAIN services -> DOMAIN created]
    /\ info.known \in BOOLEAN
    /\ mutex \in [Services -> Threads \cup {NoThread}]
    /\ cell \in [Instances -> Nat]
    /\ call \in [Threads -> CallShape]
    /\ received \in 0 .. MaxMessages

(* What dispatch holds: the mutex of a service is owned exactly by the     *)
(* thread that is inside one of its methods, so no path (a failed bind, a  *)
(* rejected overload, a return) leaves it locked or calls without it.      *)
Holds(t, s) == /\ call[t].pc = "inside"
               /\ call[t].service = s
               /\ NeedsMutex(call[t])

MutexDiscipline ==
    up => \A s \in Services : \A t \in Threads : mutex[s] = t <=> Holds(t, s)

(* An instance that is not declared thread safe is never inside two calls, *)
(* whatever messages the threads process and however often the service was *)
(* removed and added again.                                                *)
Inside(t, i) == call[t].pc = "inside" /\ InstanceOf(call[t]) = i

InstanceExclusive ==
    \A i \in Instances \ ThreadSafe :
        \A t, u \in Threads : Inside(t, i) /\ Inside(u, i) => t = u

(* Which requests are answered under the id that their document has: with  *)
(* the id null any; of others the well-formed ones whose id is a string or *)
(* an integer that an int can hold.                                        *)
Echoed(d) ==
    \/ d.id.type = "null"
    \/ /\ NotificationParses(d)
       /\ d.id.type = "string" \/ (d.id.type = "integer" /\ d.id.value \in IntRange)

(* A document with a method and an id always gets a reply that is a        *)
(* result or an error, and one with the id of the document exactly when it *)
(* is Echoed: a larger integer comes back as another one (message.cpp:99), *)
(* and the error for a malformed document comes back with no id, so that   *)
(* its client cannot tell which of its calls has failed.                   *)
RequestsAnswered ==
    \A t \in Threads :
        LET c == call[t]
        IN  c.pc = "reply" /\ IsRequest(c.doc) =>
                /\ c.reply.kind \in {"result", "error"}
                /\ c.reply.id = c.doc.id <=> Echoed(c.doc)

(* A message that is processed can be forwarded: written and parsed again  *)
(* it is the same message, so the id of a request survives (cut to an int, *)
(* or null) and a notification does not become a request.                  *)
Written(m) == IF m.entity = "request" THEN WriteRequest(m) ELSE WriteNotification(m)

MessageReadsBack(m) ==
    m.entity \in {"request", "notification"} => Parse(Written(m)) = m

(* A client that uses the same parser reads the reply to its request as a  *)
(* response exactly when it is a result and the request's id is not null.  *)
(* Any other reply is an invalid request to it: is_response asks for a     *)
(* result and an id (jsonrpc.cpp:107), which an error and a null id lack.  *)
ReplyReadsBack(m, r) ==
    m.entity = "request" =>
        Parse(WriteReply(r)) = IF r.kind = "result" /\ m.id.type # "null"
                               THEN Message("response", m.id, NoName, NoParams)
                               ELSE ErrorMessage("InvalidRequest")

(* Both, for every message that is processed and every reply to one.       *)
ReadsBack == \A t \in Threads :
                 /\ MessageReadsBack(call[t].msg)
                 /\ call[t].pc = "reply" => ReplyReadsBack(call[t].msg, call[t].reply)

(* The description of the services that __init__ returns is that of the    *)
(* services there are, and each is the service that was added under the    *)
(* name (so dispatch finds what the description lists).                    *)
InfoIsCurrent ==
    /\ info.known => info.table = services
    /\ ~info.known => DOMAIN services = {}
    /\ \A n \in DOMAIN services : created[services[n]].name = n

(* Concurrent calls behave as if each were executed at one instant.        *)
Client(c) == [status |-> CASE c.pc = "idle"  -> "idle"
                           [] c.pc = "reply" -> "answered"
                           [] OTHER          -> "waiting",
              msg |-> c.msg, reply |-> c.reply, runs |-> c.runs]

Provider == INSTANCE RpcProvider WITH
                Discovery <- <<"__init__">>,
                client    <- [t \in Threads |-> Client(call[t])]

ImplementsProvider == Provider!Spec

(***************************************************************************)
(* Liveness.                                                               *)
(***************************************************************************)

(* Under FairSpec: every message a thread processes is answered, or the    *)
(* process has gone down; no combination of mutexes blocks a thread.       *)
CallsReturn == \A t \in Threads : call[t].pc # "idle" ~> (call[t].pc = "idle" \/ ~up)

(***************************************************************************)
(* What the documentation says and the code does not do.                   *)
(***************************************************************************)

(* repository.h:61-65: process_message processes a JSON-RPC message and    *)
(* returns a "JSON-RPC response message", so it does for a notification    *)
(* (responses are not handled, says repository.cpp:93).                    *)
ReturnsResponse ==
    \A t \in Threads :
        call[t].pc = "reply" /\ call[t].msg.entity # "response" =>
            call[t].reply.kind \in {"result", "error"}
=============================================================================
