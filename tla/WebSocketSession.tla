-------------------------- MODULE WebSocketSession --------------------------
(***************************************************************************)
(* One WebSocket connection: src/src/beast/websocket_session.{h,cpp}.      *)
(*                                                                         *)
(* The session reads a message, has it processed, writes the reply from    *)
(* the buffer it read into, and reads again.  A timer, re-armed by         *)
(* activity of the peer, pings a silent peer and then closes the socket.   *)
(*                                                                         *)
(* The handlers run on the session's strand, so each is one atomic action. *)
(* do_accept is the exception: it is called from the strand of the         *)
(* http_session, so with several io_context threads the handlers it has    *)
(* caused to run can overtake its remaining statements.  It is four steps  *)
(* here.  Operations are as in HttpSession: "none", "pending", a result.   *)
(***************************************************************************)
EXTENDS Naturals, Sequences

CONSTANTS
    Messages,    \* the messages the peer sends
    Concurrent,  \* several threads run the io_context
    MaxHeard     \* bound of the model: messages and control frames received

(* What the session tells apart in a message: one that is answered, one    *)
(* whose processing throws or yields no reply to dereference, and one      *)
(* longer than the first segment of the buffer, which the parser reads     *)
(* past the end of: it may be answered as anything, or end the process.    *)
Message == {"request", "fatal", "long"}

ASSUME MessagesAssumption   == Messages \subseteq Message
ASSUME ConcurrentAssumption == Concurrent \in BOOLEAN
ASSUME HeardAssumption      == MaxHeard \in Nat

VARIABLES
    up,          \* the server process is running
    setup,       \* the next statement of do_accept
    socket,      \* "open", or "closed" by the timer
    is_open,     \* ws_.is_open(): accepted, not closed or failed since
    accept, read, write,   \* the async_accept, async_read and async_write
    pings,       \* the async_pings: how many are [pending, ok, failed]
    ping_state,  \* 0, 1: a ping is being sent, 2: it was sent
    buffer,      \* buffer_: a sequence of messages and replies
    wait,        \* the async_wait on the timer
    deadline,    \* timer_.expiry()
    heard,       \* history: messages and control frames received
    handled,     \* history: how many messages were processed
    replied,     \* history: the replies written to the connection
    silence      \* history: deadlines passed since the last activity

ops       == <<accept, read, write>>
pingVars  == <<pings, ping_state>>
timerVars == <<wait, deadline>>
histVars  == <<heard, handled, replied>>
vars == <<up, setup, socket, is_open, accept, read, write, pings, ping_state,
          buffer, wait, deadline, heard, handled, replied, silence>>

Op == {"none", "pending", "ok", "aborted", "error"}

Part  == [what : {"message"}, message : Message] \cup [what : {"reply"}, id : Nat]
Reply == [id : Nat, close : {FALSE}]

TypeOK ==
    /\ up \in BOOLEAN
    /\ setup \in {"timer", "cancel", "expiry", "accept", "done"}
    /\ socket \in {"open", "closed"} /\ is_open \in BOOLEAN
    /\ accept \in Op /\ write \in Op /\ read \in Op \cup {"closed"}
    /\ pings \in [pending : Nat, ok : Nat, failed : Nat]
    /\ ping_state \in 0 .. 2
    /\ buffer \in Seq(Part)
    /\ wait \in {"none", "waiting", "lost", "fired", "aborted"}
    /\ deadline \in {"max", "future", "past"}
    /\ heard \in Nat /\ handled \in Nat /\ silence \in Nat
    /\ replied \in Seq(Reply)

Init ==
    /\ up = TRUE /\ setup = "timer"
    /\ socket = "open" /\ is_open = FALSE
    /\ accept = "none" /\ read = "none" /\ write = "none"
    /\ pings = [pending |-> 0, ok |-> 0, failed |-> 0] /\ ping_state = 0
    /\ buffer = <<>>
    /\ wait = "none" /\ deadline = "max"
    /\ heard = 0 /\ handled = 0 /\ replied = <<>> /\ silence = 0

-----------------------------------------------------------------------------
(* Steps shared by the handlers.  The operators named ..._Bug are mistakes *)
(* that the properties are expected to catch.                              *)

(* expires_after: the pending wait completes with operation_aborted.       *)
SetDeadline ==
    /\ deadline' = "future"
    /\ wait' = IF wait \in {"waiting", "lost"} THEN "aborted" ELSE wait

Activity_Bug == SetDeadline /\ silence' = 0 /\ UNCHANGED ping_state

(* activity(): the peer is there.                                          *)
Activity == SetDeadline /\ silence' = 0 /\ ping_state' = 0

(* An operation on a stream that is not open is aborted at once, one on a  *)
(* closed socket fails.                                                    *)
Started == IF ~is_open THEN "aborted" ELSE IF socket = "open" THEN "pending" ELSE "error"

DoRead == read' = Started

Consume_Bug(b) == b

Consume(b) == <<>>

(* The reply to what is in the buffer: to the message, if it is alone      *)
(* there, also if it is incomplete or empty; to something else otherwise.  *)
ReplyId(b) == IF Len(b) <= 1 THEN handled + 1 ELSE 0

-----------------------------------------------------------------------------
(* do_accept, statement by statement, on the thread of the http_session.   *)

(* on_timer({}): the expiry is still time_point::max, so only wait.        *)
StartTimer ==
    /\ up /\ setup = "timer" /\ setup' = "cancel"
    /\ wait' = "waiting"
    /\ UNCHANGED <<up, socket, is_open, ops, pingVars, buffer, deadline, histVars, silence>>

(* expires_after(15 s) first cancels the wait.                             *)
CancelWait ==
    /\ up /\ setup = "cancel" /\ setup' = "expiry"
    /\ wait' = "aborted"
    /\ UNCHANGED <<up, socket, is_open, ops, pingVars, buffer, deadline, histVars, silence>>

(* Then it stores the expiry.  If the handler of the cancelled wait has    *)
(* overtaken it, the wait it started is for the old expiry, which never    *)
(* comes.                                                                  *)
SetExpiry ==
    /\ up /\ setup = "expiry" /\ setup' = "accept"
    /\ deadline' = "future"
    /\ wait' = IF wait = "waiting" THEN "lost" ELSE wait
    /\ UNCHANGED <<up, socket, is_open, ops, pingVars, buffer, histVars, silence>>

StartAccept ==
    /\ up /\ setup = "accept" /\ setup' = "done"
    /\ accept' = IF socket = "open" THEN "pending" ELSE "error"
    /\ UNCHANGED <<up, socket, is_open, read, write, pingVars, buffer, timerVars,
                   histVars, silence>>

DoAccept == StartTimer \/ CancelWait \/ SetExpiry \/ StartAccept

-----------------------------------------------------------------------------
(* Handlers, on the strand.                                                *)

StrandRuns == up /\ (Concurrent \/ setup = "done")

(* on_accept                                                               *)
OnAccept ==
    /\ StrandRuns /\ accept \in {"ok", "aborted", "error"}
    /\ accept' = "none"
    /\ IF accept = "ok" THEN DoRead ELSE UNCHANGED read
    /\ UNCHANGED <<up, setup, socket, is_open, write, pingVars, buffer, timerVars,
                   histVars, silence>>

TimerHandler == StrandRuns /\ wait \in {"fired", "aborted"}

(* on_timer when the deadline has moved meanwhile: wait again.             *)
OnTimerAgain_Bug ==
    /\ TimerHandler /\ deadline # "past"
    /\ wait' = IF wait = "aborted" THEN "none" ELSE "waiting"
    /\ UNCHANGED <<up, setup, socket, is_open, ops, pingVars, buffer, deadline,
                   histVars, silence>>

OnTimerAgain ==
    /\ TimerHandler /\ deadline # "past"
    /\ wait' = "waiting"
    /\ UNCHANGED <<up, setup, socket, is_open, ops, pingVars, buffer, deadline,
                   histVars, silence>>

(* on_timer, the first time the deadline has passed: ping the peer.        *)
OnTimerPing ==
    /\ TimerHandler /\ deadline = "past"
    /\ is_open /\ ping_state = 0
    /\ ping_state' = 1
    /\ pings' = [pings EXCEPT !.pending = @ + 1]
    /\ deadline' = "future" /\ wait' = "waiting"
    /\ UNCHANGED <<up, setup, socket, is_open, ops, buffer, histVars, silence>>

Abort(op) == IF op = "pending" THEN "aborted" ELSE op

(* on_timer, the handshake took too long, the stream is not open any more  *)
(* or the ping brought nothing: close the socket.                          *)
OnTimerClose ==
    /\ TimerHandler /\ deadline = "past"
    /\ ~(is_open /\ ping_state = 0)
    /\ socket' = "closed"
    /\ accept' = Abort(accept) /\ read' = Abort(read) /\ write' = Abort(write)
    /\ pings' = [pings EXCEPT !.failed = @ + pings.pending, !.pending = 0]
    /\ wait' = "none"
    /\ UNCHANGED <<up, setup, is_open, ping_state, buffer, deadline, histVars, silence>>

SentState_Bug(state) == state + 1

SentState(state) == IF state = 1 THEN 2 ELSE state

(* on_ping of a ping that was sent.  If ping_state is 2 BOOST_ASSERT ends  *)
(* the process, in a build with assertions.                                *)
OnPing ==
    /\ StrandRuns /\ pings.ok > 0
    /\ pings' = [pings EXCEPT !.ok = @ - 1]
    /\ ping_state' = SentState(ping_state)
    /\ up' \in IF ping_state = 2 THEN BOOLEAN ELSE {TRUE}
    /\ UNCHANGED <<setup, socket, is_open, ops, buffer, timerVars, histVars, silence>>

OnPingFail ==
    /\ StrandRuns /\ pings.failed > 0
    /\ pings' = [pings EXCEPT !.failed = @ - 1]
    /\ UNCHANGED <<up, setup, socket, is_open, ops, ping_state, buffer, timerVars,
                   histVars, silence>>

(* on_read of operation_aborted or error::closed                           *)
OnReadEnd ==
    /\ StrandRuns /\ read \in {"aborted", "closed"}
    /\ read' = "none"
    /\ UNCHANGED <<up, setup, socket, is_open, accept, write, pingVars, buffer, timerVars,
                   histVars, silence>>

(* on_read of a message, and of any other error: fail() only reports it,   *)
(* and what the buffer holds is processed all the same.                    *)
Processed == read \in {"ok", "error"}

MayEnd(b) == \E i \in DOMAIN b : b[i].what = "message" /\ b[i].message \in {"fatal", "long"}

MayAnswer(b) == \A i \in DOMAIN b : b[i].what = "message" => b[i].message # "fatal"

OnReadReply ==
    /\ StrandRuns /\ Processed /\ MayAnswer(buffer)
    /\ Activity
    /\ handled' = handled + 1
    /\ buffer' = Append(Consume(buffer), [what |-> "reply", id |-> ReplyId(buffer)])
    /\ read' = "none"
    /\ write' = Started
    /\ UNCHANGED <<up, setup, socket, is_open, accept, pings, heard, replied>>

OnReadFatal ==
    /\ StrandRuns /\ Processed /\ MayEnd(buffer)
    /\ up' = FALSE
    /\ UNCHANGED <<setup, socket, is_open, ops, pingVars, buffer, timerVars,
                   histVars, silence>>

(* on_write: empty the buffer, read again.                                 *)
OnWrite ==
    /\ StrandRuns /\ write = "ok"
    /\ buffer' = Consume(buffer)
    /\ write' = "none"
    /\ DoRead
    /\ UNCHANGED <<up, setup, socket, is_open, accept, pingVars, timerVars,
                   histVars, silence>>

OnWriteFail ==
    /\ StrandRuns /\ write \in {"aborted", "error"}
    /\ write' = "none"
    /\ UNCHANGED <<up, setup, socket, is_open, accept, read, pingVars, buffer, timerVars,
                   histVars, silence>>

-----------------------------------------------------------------------------
(* The stream and the peer.                                                *)

AcceptCompletes ==
    /\ up /\ accept = "pending"
    /\ accept' \in {"ok", "error"}
    /\ is_open' = (accept' = "ok")
    /\ UNCHANGED <<up, setup, socket, read, write, pingVars, buffer, timerVars,
                   histVars, silence>>

Arrived(m) == Append(buffer, [what |-> "message", message |-> m])

(* A whole message has been read, within the bound.                        *)
ReadOk ==
    /\ up /\ read = "pending" /\ heard < MaxHeard
    /\ \E m \in Messages : buffer' = Arrived(m)
    /\ heard' = heard + 1
    /\ read' = "ok"
    /\ UNCHANGED <<up, setup, socket, is_open, accept, write, pingVars, timerVars,
                   handled, replied, silence>>

(* The connection breaks or carries something that is not WebSocket; part  *)
(* of a message may be in the buffer.                                      *)
ReadFails ==
    /\ up /\ read = "pending"
    /\ buffer' \in {buffer} \cup {Arrived(m) : m \in Messages}
    /\ read' = "error" /\ is_open' = FALSE
    /\ UNCHANGED <<up, setup, socket, accept, write, pingVars, timerVars,
                   histVars, silence>>

(* A ping or a pong arrives while the session reads: control_callback.     *)
ControlFrame ==
    /\ StrandRuns /\ read = "pending" /\ heard < MaxHeard
    /\ Activity
    /\ heard' = heard + 1
    /\ UNCHANGED <<up, setup, socket, is_open, ops, pings, buffer, handled, replied>>

(* A close frame arrives: control_callback, and the read ends.             *)
CloseFrame ==
    /\ StrandRuns /\ read = "pending"
    /\ Activity
    /\ read' = "closed" /\ is_open' = FALSE
    /\ UNCHANGED <<up, setup, socket, accept, write, pings, buffer, histVars>>

(* The whole buffer is written; it is a reply if nothing else is in it.    *)
SentId(b) == IF Len(b) = 1 THEN b[1].id ELSE 0

WriteOk ==
    /\ up /\ write = "pending"
    /\ write' = "ok"
    /\ replied' = Append(replied, [id |-> SentId(buffer), close |-> FALSE])
    /\ UNCHANGED <<up, setup, socket, is_open, accept, read, pingVars, buffer, timerVars,
                   heard, handled, silence>>

WriteStops ==
    /\ up /\ write = "pending"
    /\ write' = "error" /\ is_open' = FALSE
    /\ UNCHANGED <<up, setup, socket, accept, read, pingVars, buffer, timerVars,
                   histVars, silence>>

PingOk ==
    /\ up /\ pings.pending > 0
    /\ pings' = [pings EXCEPT !.pending = @ - 1, !.ok = @ + 1]
    /\ UNCHANGED <<up, setup, socket, is_open, ops, ping_state, buffer, timerVars,
                   histVars, silence>>

PingStops ==
    /\ up /\ pings.pending > 0
    /\ pings' = [pings EXCEPT !.pending = @ - 1, !.failed = @ + 1]
    /\ is_open' = FALSE
    /\ UNCHANGED <<up, setup, socket, ops, ping_state, buffer, timerVars,
                   histVars, silence>>

DeadlinePasses ==
    /\ up /\ deadline = "future"
    /\ deadline' = "past" /\ silence' = silence + 1
    /\ UNCHANGED <<up, setup, socket, is_open, ops, pingVars, buffer, wait, histVars>>

TimerFires ==
    /\ up /\ wait = "waiting" /\ deadline = "past"
    /\ wait' = "fired"
    /\ UNCHANGED <<up, setup, socket, is_open, ops, pingVars, buffer, deadline,
                   histVars, silence>>

-----------------------------------------------------------------------------
(* No handler is outstanding: the last shared_ptr to the session is gone.  *)
OnlyTimer ==
    /\ setup = "done"
    /\ accept = "none" /\ read = "none" /\ write = "none"
    /\ pings = [pending |-> 0, ok |-> 0, failed |-> 0]

Released == OnlyTimer /\ wait = "none"

(* The session is gone, the process is, or nothing but a wait for the old  *)
(* expiry holds the session.                                               *)
Done == (Released \/ ~up \/ (OnlyTimer /\ wait = "lost" /\ deadline = "past")) /\ UNCHANGED vars

OnTimer  == OnTimerAgain \/ OnTimerPing \/ OnTimerClose
OnPings  == OnPing \/ OnPingFail
OnRead   == OnReadEnd \/ OnReadReply \/ OnReadFatal
OnWrites == OnWrite \/ OnWriteFail
Network  == AcceptCompletes \/ ReadOk \/ ReadFails \/ ControlFrame \/ CloseFrame
               \/ WriteOk \/ WriteStops \/ PingOk \/ PingStops

Next == DoAccept \/ OnAccept \/ OnTimer \/ OnPings \/ OnRead \/ OnWrites
           \/ Network \/ DeadlinePasses \/ TimerFires \/ Done

Spec == Init /\ [][Next]_vars

HandlersFair == WF_vars(DoAccept) /\ WF_vars(OnAccept) /\ WF_vars(OnTimer)
                   /\ WF_vars(OnPings) /\ WF_vars(OnRead) /\ WF_vars(OnWrites)

(* Handlers run, time passes and timers fire; the peer may do nothing.     *)
TimedSpec == Spec /\ HandlersFair /\ WF_vars(DeadlinePasses) /\ WF_vars(TimerFires)

-----------------------------------------------------------------------------
(***************************************************************************)
(* Safety.                                                                 *)
(***************************************************************************)

(* The one buffer serves the read and the write in turn: at most one of    *)
(* them is outstanding, a read starts with nothing left of the last reply  *)
(* and what is written is exactly the reply to the last message, whatever  *)
(* the timer, the pings and the control frames do meanwhile.               *)
BufferInTurn ==
    /\ accept # "none" => read = "none" /\ write = "none"
    /\ read = "none" \/ write = "none"
    /\ read = "pending" => buffer = <<>>
    /\ write = "pending" => buffer = <<[what |-> "reply", id |-> handled]>>

(* The session does what a connection that takes one request at a time     *)
(* promises: no message is processed before the last one is answered, and  *)
(* each is answered once and in order.                                     *)
Replies == INSTANCE OrderedReplies WITH Limit <- 1

ImplementsOrderedReplies == Replies!Spec

(* The timer closes an established connection only when the peer has been  *)
(* silent for two deadlines, one of them after a ping: no order of         *)
(* handlers makes the session cut a peer it has just heard from.  It has   *)
(* heard from a peer when the handler has called activity(): a frame that  *)
(* is read while on_timer is running, and whose handler is still queued    *)
(* behind it, comes too late, and the peer is cut.                         *)
ClosesOnlySilent ==
    [][socket = "open" /\ socket' = "closed" /\ is_open => silence >= 2]_vars

(***************************************************************************)
(* Liveness.                                                               *)
(***************************************************************************)

(* Under TimedSpec and with one thread: when the peer falls silent (as it  *)
(* does at the bound), the session ends and frees its socket.              *)
Ends == <>(Released \/ ~up)

(***************************************************************************)
(* What the comments of the code say and the code does not do.             *)
(***************************************************************************)

(* websocket_session.cpp:103-106: at the end of on_ping ping_state_ is 0   *)
(* unless it is 1, because an incoming control frame has reset it.         *)
PingAssertion == pings.ok > 0 => ping_state # 2

(* websocket_session.h:28-29: "Run the timer. The timer is operated        *)
(* continuously", so a deadline that passes is acted upon.                 *)
TimerOperated == deadline = "past" ~> (deadline # "past" \/ socket = "closed" \/ ~up)
=============================================================================
