---------------------------- MODULE HttpSession ----------------------------
(***************************************************************************)
(* One HTTP connection of the server: src/src/beast/http_session.cpp, the  *)
(* http_session class and its response queue.                              *)
(*                                                                         *)
(* Every handler of a session runs on the session's strand, so a handler   *)
(* is one atomic action.  What interleaves is the completion of the        *)
(* asynchronous operations (the read, the write, the wait on the timer)    *)
(* and the order in which the handlers of completed operations run: with   *)
(* several io_context threads any completed operation's handler can be the *)
(* next one on the strand.  An asynchronous operation goes from "none" to  *)
(* "pending" when it is started, to a result when the reactor completes    *)
(* it, and back to "none" when its handler runs.                           *)
(*                                                                         *)
(* The peer is external: a pending read may complete with any request of   *)
(* Requests, with an end of stream or with an error, and a pending write   *)
(* may complete, fail or stay pending for as long as the peer does not     *)
(* read.                                                                   *)
(***************************************************************************)
EXTENDS Naturals, Sequences

CONSTANTS
    Limit,       \* queue::limit, the most responses a session queues
    Requests,    \* the requests the peer may send
    MaxRequests  \* bound of the model: requests numbered per connection

(* What the session tells apart in a request: an upgrade to WebSocket      *)
(* (always a GET), OPTIONS, POST or another method, the HTTP version,      *)
(* Request::keep_alive(), and whether serving the body throws or returns   *)
(* no response to dereference ("fatal").                                   *)
Request == [method    : {"upgrade", "options", "post", "other"},
            version   : {10, 11},
            keepAlive : BOOLEAN,
            fatal     : BOOLEAN]

ASSUME LimitAssumption    == Limit \in Nat \ {0}
ASSUME RequestsAssumption == Requests \subseteq Request
ASSUME BoundAssumption    == MaxRequests \in Nat

(* message::need_eof() of the response to r.  The OPTIONS response has no  *)
(* Content-Length, so only closing the connection ends it; a POST response *)
(* does not copy the request's keep-alive, so the version alone decides;   *)
(* the error response copies it.                                           *)
NeedEof(r) == \/ r.method = "options"
              \/ r.method = "post"  /\ r.version = 10
              \/ r.method = "other" /\ ~r.keepAlive

VARIABLES
    up,        \* the server process is running
    started,   \* run() has run on the strand
    socket,    \* "open", "closed" by the timer, "moved" to a websocket_session
    sendShut,  \* do_close() has shut down the sending side of the socket
    read,      \* the async_read
    req,       \* req_, the request that the last read filled in
    write,     \* the async_write of the first item of the queue
    items,     \* queue::items_
    wait,      \* the async_wait on the timer
    deadline,  \* timer_.expiry()
    handled,   \* history: how many requests handle_request has answered
    replied,   \* history: the responses written to the connection, in order
    failed,    \* history: fail() was called for an operation of the session
    overlap    \* history: a read was started during a read, or a write
               \* during a write, which Asio forbids

netVars   == <<socket, sendShut>>
timerVars == <<wait, deadline>>
histVars  == <<handled, replied, failed, overlap>>
vars == <<up, started, socket, sendShut, read, req, write, items,
          wait, deadline, handled, replied, failed, overlap>>

NoRequest == [method |-> "none"]
Response  == [id : Nat, close : BOOLEAN]

TypeOK ==
    /\ up \in BOOLEAN /\ started \in BOOLEAN /\ sendShut \in BOOLEAN
    /\ socket \in {"open", "closed", "moved"}
    /\ read  \in {"none", "pending", "ok", "eof", "aborted", "error"}
    /\ req \in Requests \cup {NoRequest}
    /\ req # NoRequest <=> read = "ok"
    /\ write \in {"none", "pending", "ok", "aborted", "error"}
    /\ items \in Seq(Response)
    /\ wait \in {"none", "waiting", "fired", "aborted"}
    /\ deadline \in {"max", "future", "past", "min"}
    /\ handled \in Nat
    /\ replied \in Seq(Response)
    /\ failed \in BOOLEAN /\ overlap \in BOOLEAN

Init ==
    /\ up = TRUE /\ started = FALSE
    /\ socket = "open" /\ sendShut = FALSE
    /\ read = "none" /\ req = NoRequest /\ write = "none"
    /\ items = <<>>
    /\ wait = "none" /\ deadline = "max"
    /\ handled = 0 /\ replied = <<>>
    /\ failed = FALSE /\ overlap = FALSE

-----------------------------------------------------------------------------
(* Steps shared by the handlers.                                           *)

(* timer_.expires_after / expires_at: a wait still pending completes with  *)
(* operation_aborted; one whose handler is already queued is not recalled. *)
SetDeadline(d) ==
    /\ deadline' = d
    /\ wait' = IF wait = "waiting" THEN "aborted" ELSE wait

(* An operation started on a socket that cannot carry it fails at once     *)
(* (bad descriptor, broken pipe).  The operators named ..._Bug are         *)
(* mistakes that the properties are expected to catch; no specification    *)
(* uses them.                                                              *)
DoRead_Bug ==
    /\ SetDeadline("future")
    /\ read' = IF socket = "open" THEN "pending" ELSE "error"
    /\ UNCHANGED req

(* do_read: the request is emptied, the deadline set, a read started.      *)
DoRead ==
    /\ SetDeadline("future")
    /\ req' = NoRequest
    /\ read' = IF socket = "open" THEN "pending" ELSE "error"

StartWrite == write' = IF socket = "open" /\ ~sendShut THEN "pending" ELSE "error"

DoClose == sendShut' = (sendShut \/ socket = "open")

-----------------------------------------------------------------------------
(* The response queue.                                                     *)

IsFull_Bug(q) == Len(q) > Limit

IsFull(q) == Len(q) >= Limit

Erase_Bug(q) == SubSeq(q, 1, Len(q) - 1)

(* items_.erase(items_.begin())                                            *)
Erase(q) == Tail(q)

WriteFront_Bug(q) == write' = "none"

(* Write the first item, if there is one.                                  *)
WriteFront(q) == IF q = <<>> THEN write' = "none" ELSE StartWrite

ResumesRead_BugAlways == TRUE

ResumesRead_BugErased == IsFull(Tail(items))

(* What queue::on_write returns: whether it has just made room in a full   *)
(* queue.                                                                  *)
ResumesRead == IsFull(items)

EndsConnection_Bug(response) == FALSE

(* The close flag bound into on_write.                                     *)
EndsConnection(response) == response.close

-----------------------------------------------------------------------------
(* Handlers, on the strand.                                                *)

(* run() posted by the listener: start the timer, then the first read.     *)
(* The wait on_timer({}) starts is cancelled at once by do_read.           *)
Run ==
    /\ up /\ ~started
    /\ started' = TRUE
    /\ wait' = "aborted" /\ deadline' = "future"
    /\ req' = NoRequest
    /\ read' = "pending"
    /\ UNCHANGED <<up, netVars, write, items, histVars>>

(* on_timer after an upgrade: the timer is not waited on again.            *)
OnTimerUpgraded ==
    /\ up /\ wait \in {"fired", "aborted"}
    /\ deadline = "min"
    /\ wait' = "none"
    /\ UNCHANGED <<up, started, netVars, read, req, write, items, deadline, histVars>>

Abort(op) == IF op = "pending" THEN "aborted" ELSE op

(* on_timer past the deadline: close the socket, which aborts what is      *)
(* pending on it.                                                          *)
OnTimerExpired ==
    /\ up /\ wait \in {"fired", "aborted"}
    /\ deadline = "past"
    /\ socket' = IF socket = "moved" THEN "moved" ELSE "closed"
    /\ read' = Abort(read)
    /\ write' = IF socket = "moved" THEN write ELSE Abort(write)
    /\ wait' = "none"
    /\ UNCHANGED <<up, started, sendShut, req, items, deadline, histVars>>

OnTimerAgain_Bug ==
    /\ up /\ wait \in {"fired", "aborted"}
    /\ deadline \in {"max", "future"}
    /\ wait' = IF wait = "aborted" THEN "none" ELSE "waiting"
    /\ UNCHANGED <<up, started, netVars, read, req, write, items, deadline, histVars>>

(* on_timer when the deadline has moved meanwhile: wait again, also after  *)
(* operation_aborted.                                                      *)
OnTimerAgain ==
    /\ up /\ wait \in {"fired", "aborted"}
    /\ deadline \in {"max", "future"}
    /\ wait' = "waiting"
    /\ UNCHANGED <<up, started, netVars, read, req, write, items, deadline, histVars>>

(* on_read with operation_aborted or another error: nothing is started.    *)
OnReadFail ==
    /\ up /\ read \in {"aborted", "error"}
    /\ read' = "none"
    /\ failed' = (failed \/ read = "error")
    /\ UNCHANGED <<up, started, netVars, req, write, items, timerVars,
                   handled, replied, overlap>>

(* on_read with end_of_stream: the peer has closed its sending side.       *)
OnReadEof ==
    /\ up /\ read = "eof"
    /\ read' = "none"
    /\ DoClose
    /\ UNCHANGED <<up, started, socket, req, write, items, timerVars, histVars>>

OnReadUpgrade_Bug ==
    /\ up /\ read = "ok" /\ req.method = "upgrade"
    /\ socket' = IF socket = "open" THEN "moved" ELSE socket
    /\ read' = "none" /\ req' = NoRequest
    /\ UNCHANGED <<up, started, sendShut, write, items, timerVars, histVars>>

(* on_read of an upgrade: the socket moves to a new websocket_session,     *)
(* whatever the queue still holds or writes.                               *)
OnReadUpgrade ==
    /\ up /\ read = "ok" /\ req.method = "upgrade"
    /\ SetDeadline("min")
    /\ socket' = IF socket = "open" THEN "moved" ELSE socket
    /\ read' = "none" /\ req' = NoRequest
    /\ UNCHANGED <<up, started, sendShut, write, items, histVars>>

(* on_read of a POST whose processing throws, or has no response to        *)
(* dereference: nothing catches it and the process ends.                   *)
OnReadFatal ==
    /\ up /\ read = "ok" /\ req.method = "post" /\ req.fatal
    /\ up' = FALSE
    /\ UNCHANGED <<started, netVars, read, req, write, items, timerVars, histVars>>

(* on_read of any other request: handle_request answers it through the     *)
(* queue, which writes the response if it is the only one, and the next    *)
(* read starts unless the queue is now full.                               *)
OnReadRequest ==
    /\ up /\ read = "ok" /\ req.method # "upgrade"
    /\ ~(req.method = "post" /\ req.fatal)
    /\ handled' = handled + 1
    /\ items' = Append(items, [id |-> handled + 1, close |-> NeedEof(req)])
    /\ IF items = <<>> THEN StartWrite ELSE UNCHANGED write
    /\ IF IsFull(items')
       THEN read' = "none" /\ req' = NoRequest /\ UNCHANGED timerVars
       ELSE DoRead
    /\ overlap' = (overlap \/ (items = <<>> /\ write # "none"))
    /\ UNCHANGED <<up, started, netVars, replied, failed>>

(* on_write with operation_aborted or another error: the item stays in the *)
(* queue and no write is started.                                          *)
OnWriteFail ==
    /\ up /\ write \in {"aborted", "error"}
    /\ write' = "none"
    /\ failed' = (failed \/ write = "error")
    /\ UNCHANGED <<up, started, netVars, read, req, items, timerVars,
                   handled, replied, overlap>>

(* on_write of a response that ends the connection: the item stays too.    *)
OnWriteClose ==
    /\ up /\ write = "ok" /\ EndsConnection(Head(items))
    /\ DoClose
    /\ write' = "none"
    /\ UNCHANGED <<up, started, socket, read, req, items, timerVars, histVars>>

(* on_write of another response: queue::on_write drops it, starts the next *)
(* one, and reading resumes if the queue was full.                         *)
OnWriteNext ==
    /\ up /\ write = "ok" /\ ~EndsConnection(Head(items))
    /\ items' = Erase(items)
    /\ WriteFront(items')
    /\ IF ResumesRead THEN DoRead ELSE UNCHANGED <<read, req, timerVars>>
    /\ overlap' = (overlap \/ (ResumesRead /\ read # "none"))
    /\ UNCHANGED <<up, started, netVars, handled, replied, failed>>

-----------------------------------------------------------------------------
(* The reactor and the peer: completions of the pending operations.        *)

(* The peer's next request has been read.  The bound, which the code does  *)
(* not have, keeps the history finite; it makes the peer fall silent, so   *)
(* the liveness properties are checked on an instance that forgets the     *)
(* history and lets the peer go on for ever (Forget of MCHttpSession).     *)
ReadOk ==
    /\ up /\ read = "pending"
    /\ handled < MaxRequests
    /\ \E r \in Requests : req' = r
    /\ read' = "ok"
    /\ UNCHANGED <<up, started, netVars, write, items, timerVars, histVars>>

(* The peer has shut down its side, reset the connection or sent something *)
(* that is not HTTP.                                                       *)
ReadStops ==
    /\ up /\ read = "pending"
    /\ read' \in {"eof", "error"}
    /\ UNCHANGED <<up, started, netVars, req, write, items, timerVars, histVars>>

(* The whole response is on its way to the peer.  Moving the socket does   *)
(* not cancel the write in progress, shutting down its sending side does.  *)
WriteOk ==
    /\ up /\ write = "pending" /\ ~sendShut
    /\ write' = "ok"
    /\ replied' = Append(replied, Head(items))
    /\ UNCHANGED <<up, started, netVars, read, req, items, timerVars,
                   handled, failed, overlap>>

WriteStops ==
    /\ up /\ write = "pending"
    /\ write' = "error"
    /\ UNCHANGED <<up, started, netVars, read, req, items, timerVars, histVars>>

(* The clock reaches the deadline; then the wait completes.                *)
DeadlinePasses ==
    /\ up /\ deadline = "future"
    /\ deadline' = "past"
    /\ UNCHANGED <<up, started, netVars, read, req, write, items, wait, histVars>>

TimerFires ==
    /\ up /\ wait = "waiting" /\ deadline = "past"
    /\ wait' = "fired"
    /\ UNCHANGED <<up, started, netVars, read, req, write, items, deadline, histVars>>

-----------------------------------------------------------------------------
(* No handler is outstanding: the last shared_ptr to the session is gone.  *)
Released == started /\ read = "none" /\ write = "none" /\ wait = "none"

(* The connection has been served, or the process is gone.                 *)
Done == (Released \/ ~up) /\ UNCHANGED vars

OnTimer == OnTimerUpgraded \/ OnTimerExpired \/ OnTimerAgain
OnRead  == OnReadFail \/ OnReadEof \/ OnReadUpgrade \/ OnReadFatal \/ OnReadRequest
OnWrite == OnWriteFail \/ OnWriteClose \/ OnWriteNext
Network == ReadOk \/ ReadStops \/ WriteOk \/ WriteStops

Next == Run \/ OnTimer \/ OnRead \/ OnWrite \/ Network
             \/ DeadlinePasses \/ TimerFires \/ Done

Spec == Init /\ [][Next]_vars

(* The io_context threads run every handler that is ready.                 *)
HandlersFair == WF_vars(Run) /\ WF_vars(OnTimer) /\ WF_vars(OnRead) /\ WF_vars(OnWrite)

HandledSpec == Spec /\ HandlersFair

(* Time passes and timers fire.  A write that went with the moved socket   *)
(* ends: the websocket_session closes that socket when its peer is silent. *)
ClockRuns == /\ WF_vars(DeadlinePasses) /\ WF_vars(TimerFires)
             /\ WF_vars(socket = "moved" /\ (WriteOk \/ WriteStops))

(* The peer reads what it is sent; the clock may be as slow as it likes.   *)
PeerReads == WF_vars(WriteOk \/ WriteStops)
-----------------------------------------------------------------------------
(***************************************************************************)
(* Safety.                                                                 *)
(***************************************************************************)

(* Asio allows one read and one write at a time on a socket: no path       *)
(* through on_read, on_write and the queue starts a second one.            *)
NoOverlap == ~overlap

(* The queue keeps its limit of responses, and the session does not read   *)
(* (so does not execute) a request whose response has no place in it.      *)
Backpressure == Len(items) <= Limit /\ (read # "none" => Len(items) < Limit)

(* The response to the n-th request handled is the n-th on the connection, *)
(* through pipelining, a full queue and the closing of the socket.         *)
InOrder == Len(replied) <= handled /\ \A i \in DOMAIN replied : replied[i].id = i

(* Nothing is written after a response that only the end of the connection *)
(* delimits (need_eof), although reads and handle_request go on after it.  *)
NothingAfterClose == \A i \in 1 .. Len(replied) - 1 : ~replied[i].close

(* While the connection is usable the session is never stuck between its   *)
(* two loops: it reads exactly when the queue has room and it writes       *)
(* exactly when the queue holds something.                                 *)
NeverIdle ==
    up /\ started /\ socket = "open" /\ ~sendShut /\ ~failed =>
        /\ read # "none" <=> Len(items) < Limit
        /\ write # "none" <=> items # <<>>

(* A session that holds an open socket always has a wait on the timer      *)
(* outstanding, so a silent peer cannot keep the socket for ever.          *)
Watchdog == up /\ started /\ socket = "open" => wait # "none"

(* After an upgrade the session leaves the socket to the websocket_session *)
(* for reading, and its own deadline stays at time_point::min, also when   *)
(* a write of the session completes later.                                 *)
UpgradeIsFinal == socket = "moved" => read = "none" /\ deadline = "min"

(* The session does what a pipelined connection promises.                  *)
Replies == INSTANCE OrderedReplies

ImplementsOrderedReplies == Replies!Spec

(***************************************************************************)
(* Liveness.                                                               *)
(***************************************************************************)

(* From some time on no request arrives any more.  do_read moves the       *)
(* deadline by 15 s each time (http_session.cpp:154): the code sets a peer *)
(* that goes on sending no end, and it may hold its session for ever.      *)
FallsSilent == <>[][~ReadOk]_vars

(* The session of a peer that sends no more ends by time alone, wherever   *)
(* it stopped: in the middle of pipelined requests, with responses that it *)
(* does not read, after a failed write or a close.  It frees its socket    *)
(* (or has handed it over, or the process is gone).                        *)
Ends == ClockRuns /\ FallsSilent => <>(Released \/ ~up)

Unusable == ~up \/ sendShut \/ socket # "open" \/ failed

(* A peer that reads gets the response to every request handled, without   *)
(* the clock, unless the connection breaks, closes or is upgraded.         *)
Answered == PeerReads => \A n \in 1 .. MaxRequests :
                             handled >= n ~> (Len(replied) >= n \/ Unusable)

(***************************************************************************)
(* What the comments of the code say and the code does not do.             *)
(***************************************************************************)

(* http_session.cpp:205, "Create a WebSocket websocket_session by          *)
(* transferring the socket": the old session has no write left on it.      *)
SocketTransferred == socket = "moved" => write # "pending"
=============================================================================
