---------------------------- MODULE RpcProvider ----------------------------
(***************************************************************************)
(* What the provider promises to concurrent clients, with every call       *)
(* executed at one instant: a request is answered once, with its own id;   *)
(* it is executed exactly once if it is answered with a result (except the *)
(* discovery of services, which executes nothing) and not at all if it is  *)
(* answered with an error; and no execution on an instance is lost.        *)
(* Repository implements it.                                               *)
(***************************************************************************)
EXTENDS Naturals

CONSTANTS Threads, Instances, Discovery

VARIABLES
    cell,     \* how many calls each instance has executed
    client    \* per thread, what the client of its message sees:
              \* [status : "idle", "waiting" or "answered", msg, reply, runs]

Init == /\ cell = [i \in Instances |-> 0]
        /\ \A t \in Threads : client[t].status = "idle"

Become(t, status) == /\ client' = [client EXCEPT ![t] = client'[t]]
                     /\ client'[t].status = status

Ask(t) == /\ client[t].status = "idle"
          /\ Become(t, "waiting")
          /\ client'[t].runs = 0
          /\ UNCHANGED cell

(* The reply belongs to the message, if the message is a request.          *)
Fits(c) == c.msg.entity = "request" =>
              /\ c.reply.kind \in {"result", "error"}
              /\ c.reply.id = c.msg.id
              /\ c.reply.kind = "error" => c.runs = 0
              /\ c.reply.kind = "result" /\ c.msg.name # Discovery => c.runs = 1

AnswerBy(t) == /\ client[t].status = "waiting"
               /\ Become(t, "answered")
               /\ client'[t].msg = client[t].msg
               /\ Fits(client'[t])

Execute(t) == /\ AnswerBy(t)
              /\ client'[t].runs = 1
              /\ \E i \in Instances : cell' = [cell EXCEPT ![i] = @ + 1]

Refuse(t) == /\ AnswerBy(t)
             /\ client'[t].runs = 0
             /\ UNCHANGED cell

Deliver(t) == /\ client[t].status = "answered"
              /\ Become(t, "idle")
              /\ UNCHANGED cell

Next == \E t \in Threads : Ask(t) \/ Execute(t) \/ Refuse(t) \/ Deliver(t)

Spec == Init /\ [][Next]_<<cell, client>>
=============================================================================
