------------------------------ MODULE JsonRpc ------------------------------
(***************************************************************************)
(* JSON-RPC messages: src/src/jsonrpc.  What the parser makes of a         *)
(* document, and what a request or a notification makes of a result or of  *)
(* an error.                                                               *)
(*                                                                         *)
(* A document keeps what the parser looks at:                              *)
(*   shape    "object", "array", "scalar", or "undecodable" text           *)
(*   version  the member jsonrpc: "2.0", "other", "notString" or "none"    *)
(*   method   [given |-> "string", "notString" or "none", name]            *)
(*   id       [type |-> "none", "null", "integer", "string" or "other",    *)
(*             value]                                                      *)
(*   params   the member params, as Method describes it                    *)
(*   result   whether there is a member result                             *)
(*   empty    of an array: whether it is empty                             *)
(* A name is the sequence of its segments between dots: "calc.sum" is      *)
(* <<"calc", "sum">> and the empty string is <<"">>.                       *)
(***************************************************************************)
EXTENDS Integers, Sequences

CONSTANT Half    \* half the values of int, which holds an integer id: 2^31

ASSUME HalfAssumption == Half \in Nat \ {0}

NoName == <<"">>     \* the empty string
NoCode == ""         \* of a message that is no error

NullId == [type |-> "null", value |-> 0]

IntRange == -Half .. Half - 1

(* Operators named ..._Bug, here and in the modules that use this one, are *)
(* mistakes that the properties are expected to catch.                     *)
Truncate_Bug(v) == v

(* json.get<int>() of a 64-bit integer.                                    *)
Truncate(v) == ((v + Half) % (2 * Half)) - Half

(* message_id::parse_json                                                  *)
ParseId(id) == IF id.type = "integer" THEN [id EXCEPT !.value = Truncate(id.value)]
               ELSE IF id.type = "null" THEN NullId ELSE id

IdParses(id) == id.type \in {"null", "integer", "string"}

(* extract_service_name: the method name is split at its first dot.        *)
ServiceName(name) == IF Len(name) = 1 THEN NoName ELSE <<name[1]>>
MethodName(name)  == IF Len(name) = 1 THEN NoName ELSE Tail(name)

Message(entity, id, name, params) ==
    [entity |-> entity, id |-> id, name |-> name, params |-> params, code |-> NoCode]

NoParams == [shape |-> "null"]

(* An rpc_exception as parse_json catches and copies it: the id that a     *)
(* request_exception carries is lost, the error is kept.                   *)
ErrorMessage(code) == [Message("error", NullId, NoName, NoParams) EXCEPT !.code = code]

(* notification::parse_json                                                *)
NotificationParses(d) ==
    /\ d.version = "2.0"
    /\ d.method.given = "string"
    /\ d.method.name # NoName

(* request::parse_json: what notification::parse_json throws is thrown on  *)
(* as an internal_error_exception.                                         *)
ParseRequest(d) ==
    CASE ~IdParses(d.id)        -> ErrorMessage("InvalidRequest")
      [] IdParses(d.id) /\ ~NotificationParses(d) -> ErrorMessage("InternalError")
      [] OTHER -> Message("request", ParseId(d.id), d.method.name, d.params)

ParseNotification(d) ==
    IF NotificationParses(d)
    THEN Message("notification", NullId, d.method.name, d.params)
    ELSE ErrorMessage("ParseError")

(* response::parse_json of a document with a result.                       *)
ParseResponse(d) ==
    IF d.version = "2.0" /\ IdParses(d.id)
    THEN Message("response", ParseId(d.id), NoName, NoParams)
    ELSE ErrorMessage("ParseError")

(* batch::parse_json: the elements are parsed, and only an empty batch is  *)
(* an error.                                                               *)
ParseBatch(d) == IF d.empty THEN ErrorMessage("InvalidRequest")
                 ELSE Message("batch", NullId, NoName, NoParams)

IsRequest(d)      == d.shape = "object" /\ d.method.given # "none" /\ d.id.type # "none"
IsNotification(d) == d.shape = "object" /\ d.method.given # "none" /\ d.id.type = "none"
IsResponse(d)     == d.shape = "object" /\ d.result /\ d.id.type # "none"

(* parser::parse and parse_json: never throw.  A document is asked in this *)
(* order (one with a method, an id and a result is a request); what is     *)
(* none of the four is an error.                                           *)
Parse(d) == IF IsRequest(d)             THEN ParseRequest(d)
            ELSE IF IsNotification(d)   THEN ParseNotification(d)
            ELSE IF IsResponse(d)       THEN ParseResponse(d)
            ELSE IF d.shape = "array"   THEN ParseBatch(d)
            ELSE IF d.shape = "undecodable" THEN ErrorMessage("ParseError")
            ELSE ErrorMessage("InvalidRequest")

-----------------------------------------------------------------------------
(* The ids a message can have, and the codes of an error.                  *)
MessageIds == {id \in [type : {"null", "integer", "string"}, value : Int] :
                  id.type = "integer" => id.value \in IntRange}

Codes == {NoCode, "ParseError", "InvalidRequest", "MethodNotFound", "InvalidParams", "InternalError"}

(* Replies.  A reply is a result, an error with its code, no message at    *)
(* all ("none"), or an exception that leaves the function ("throw").       *)

Reply(kind, id, code) == [kind |-> kind, id |-> id, code |-> code]

NoReply       == Reply("none", NullId, NoCode)
ThrownReply   == Reply("throw", NullId, "ParseError")

CreateResponse_Bug(m, result) == Reply("result", NullId, NoCode)

CreateErrorResponse_Bug(m, code) == Reply("error", NullId, code)

(* create_error_response: of a request with its id, of a notification      *)
(* without one.                                                            *)
CreateErrorResponse(m, code) ==
    Reply("error", IF m.entity = "request" THEN m.id ELSE NullId, code)

(* create_response.  A notification hands the result to the constructor    *)
(* that parses a response from JSON: null makes a response with the        *)
(* default error, anything else is not a response and throws.              *)
CreateResponse(m, result) ==
    IF m.entity = "request" THEN Reply("result", m.id, NoCode)
    ELSE IF result = "null" THEN Reply("error", NullId, "InternalError")
    ELSE ThrownReply

(* The code of message_error::invalidParams.                               *)
InvalidParams == "InternalError"

(* process_message of a batch or of an error.                              *)
InvalidRequestReply == Reply("error", NullId, "InvalidRequest")

-----------------------------------------------------------------------------
(* Writing: the documents that to_json makes of messages and of replies.   *)

NoId == [type |-> "none", value |-> 0]

(* message_id::to_json                                                     *)
WriteId(id) == IF id.type \in {"integer", "string"} THEN id ELSE NullId

(* notification::to_json; params that are null are left out, which parsing *)
(* makes null again.                                                       *)
WriteNotification(m) ==
    [shape |-> "object", version |-> "2.0", method |-> [given |-> "string", name |-> m.name],
     id |-> NoId, params |-> m.params, result |-> FALSE, empty |-> FALSE]

WriteRequest_Bug(m) ==
    [WriteNotification(m) EXCEPT !.id = IF m.id.type = "null" THEN NoId ELSE WriteId(m.id)]

(* request::to_json: an id that is null is written.                        *)
WriteRequest(m) == [WriteNotification(m) EXCEPT !.id = WriteId(m.id)]

(* response::to_json: an id that is null is left out.  (The error messages *)
(* of exceptions.cpp write it; they have no result, so neither is read as  *)
(* a response.)                                                            *)
WriteReply(r) ==
    [shape |-> "object", version |-> "2.0", method |-> [given |-> "none", name |-> NoName],
     id |-> IF r.id.type = "null" THEN NoId ELSE WriteId(r.id),
     params |-> NoParams, result |-> r.kind = "result", empty |-> FALSE]
=============================================================================
