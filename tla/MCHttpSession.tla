---------------------------- MODULE MCHttpSession ----------------------------
(* HttpSession on a small instance: one request of each kind the session   *)
(* tells apart.                                                            *)
EXTENDS HttpSession

R(method, version, keepAlive, fatal) ==
    [method |-> method, version |-> version, keepAlive |-> keepAlive, fatal |-> fatal]

(* A POST, the same with HTTP/1.0, OPTIONS, an unknown method that keeps   *)
(* or ends the connection, an upgrade.                                     *)
MCRequests == {R("post", 11, TRUE, FALSE), R("post", 10, FALSE, FALSE),
               R("options", 11, TRUE, FALSE), R("other", 11, TRUE, FALSE),
               R("other", 11, FALSE, FALSE), R("upgrade", 11, TRUE, FALSE)}

(* The same, and a POST that is a response or that makes processing throw. *)
MCAllRequests == MCRequests \cup {R("post", 11, TRUE, TRUE)}

(* While nothing is unanswered the history is forgotten.  This is no step  *)
(* of the code: it changes only what no guard of the code reads, and with  *)
(* it MaxRequests bounds the requests between two such moments and not the *)
(* life of a connection, so that a peer may go on for ever.                *)
Forget ==
    /\ handled > 0 /\ items = <<>> /\ Len(replied) = handled
    /\ handled' = 0 /\ replied' = <<>>
    /\ UNCHANGED <<up, started, netVars, read, req, write, items, timerVars,
                   failed, overlap>>

EndlessSpec == Init /\ [][Next \/ Forget]_vars /\ HandlersFair
=============================================================================
