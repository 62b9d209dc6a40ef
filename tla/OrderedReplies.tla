--------------------------- MODULE OrderedReplies ---------------------------
(***************************************************************************)
(* What a pipelined HTTP connection promises to its peer: requests are     *)
(* numbered as they are handled, at most Limit of them are unanswered, the *)
(* replies come in the order of the requests, each once, and a reply that  *)
(* ends the connection is the last one.  HttpSession implements it.        *)
(***************************************************************************)
EXTENDS Naturals, Sequences

CONSTANT Limit

VARIABLES
    handled,   \* how many requests have been handled
    replied    \* the replies on the connection, in order

Init == handled = 0 /\ replied = <<>>

Open == Len(replied) > 0 => ~replied[Len(replied)].close

Handle == /\ handled - Len(replied) < Limit
          /\ handled' = handled + 1
          /\ UNCHANGED replied

Reply(close) == /\ Open
                /\ Len(replied) < handled
                /\ replied' = Append(replied, [id |-> Len(replied) + 1, close |-> close])
                /\ UNCHANGED handled

Next == Handle \/ \E close \in BOOLEAN : Reply(close)

Spec == Init /\ [][Next]_<<handled, replied>>
=============================================================================
