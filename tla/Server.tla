------------------------------- MODULE Server -------------------------------
(***************************************************************************)
(* The servers of a process: src/src/beast/server.cpp and listener.cpp.    *)
(*                                                                         *)
(* The main thread binds each server to an endpoint, which makes a         *)
(* listener, and then gives itself and more threads to the io_context.     *)
(* The threads run the handlers of the listeners and of the sessions.  A   *)
(* listener has one socket object: it accepts a connection into it, moves  *)
(* it into a new session and accepts into it again.  on_accept is two      *)
(* steps here, because other threads run between its statements.           *)
(*                                                                         *)
(* Of a session only what HttpSession shows of it is kept: it owns its     *)
(* connection until it ends, or it ends the process by an exception.       *)
(***************************************************************************)
EXTENDS Naturals, Sequences, FiniteSets

CONSTANTS
    Servers,      \* the servers; the listener of a server has its name
    Unusable,     \* the servers that were made without a repository
    Endpoint,     \* the endpoint to which each server is bound
    ThreadCount,  \* the parameter of start_threads
    Connections,  \* the connections that clients open, each once
    Descriptors   \* how many accepted sockets the process can hold

NoOne == "nobody"

ASSUME ServersAssumption ==
    /\ Unusable \subseteq Servers
    /\ Servers = DOMAIN Endpoint
    /\ NoOne \notin Connections
ASSUME ServerBounds == ThreadCount \in Nat /\ Descriptors \in Nat \ {0}

VARIABLES
    up,        \* the process has not been ended by an exception
    main,      \* the main thread: "binding", "running", "joining" or "done"
    acceptor,  \* the acceptor of each server: "none" before bind, "closed",
               \* "open" (but not listening) or "listening"
    started,   \* how many threads start_threads has started
    returned,  \* how many of them have returned from run()
    accept,    \* the async_accept: "none", "pending", "ok" or "error"
    socket,    \* socket_: the connection that was accepted into it
    handing,   \* the listeners that have given their socket to a session and
               \* not called do_accept yet
    backlog,   \* per server, the connections that wait to be accepted
    sessions,  \* the connections that a session owns
    arrived    \* history: the connections that were opened

netVars == <<backlog, sessions, arrived>>
vars == <<up, main, acceptor, started, returned, accept, socket, handing, netVars>>

Init ==
    /\ up = TRUE /\ main = "binding"
    /\ acceptor = [s \in Servers |-> "none"]
    /\ started = 0 /\ returned = 0
    /\ accept = [s \in Servers |-> "none"]
    /\ socket = [s \in Servers |-> NoOne]
    /\ handing = {}
    /\ backlog = [s \in Servers |-> <<>>] /\ sessions = {} /\ arrived = {}

-----------------------------------------------------------------------------
(* The main thread.                                                        *)

(* What becomes of the acceptor in the constructor of the listener, which  *)
(* stops at the first error: of open, or of set_option, bind or listen.    *)
Outcomes(s) ==
    {"closed", "open"} \cup
    (IF \E r \in Servers : acceptor[r] = "listening" /\ Endpoint[r] = Endpoint[s]
     THEN {} ELSE {"listening"})

IsOpen(state) == state \in {"open", "listening"}

Bind_Bug(s) ==
    /\ up /\ main = "binding" /\ acceptor[s] = "none"
    /\ s \notin Unusable
    /\ \E state \in Outcomes(s) : acceptor' = [acceptor EXCEPT ![s] = state]
    /\ accept' = [accept EXCEPT ![s] = "pending"]
    /\ UNCHANGED <<up, main, started, returned, socket, handing, netVars>>

(* server::bind: listener::run() accepts on any acceptor that is open.     *)
Bind(s) ==
    /\ up /\ main = "binding" /\ acceptor[s] = "none"
    /\ s \notin Unusable
    /\ \E state \in Outcomes(s) :
          /\ acceptor' = [acceptor EXCEPT ![s] = state]
          /\ accept' = [accept EXCEPT ![s] = IF IsOpen(state) THEN "pending" ELSE "none"]
    /\ UNCHANGED <<up, main, started, returned, socket, handing, netVars>>

ExtraThreads == IF ThreadCount > 0 THEN ThreadCount - 1 ELSE 0

(* start_threads, after every bind: the loop that starts the threads.      *)
StartThread ==
    /\ up /\ main = "binding" /\ \A s \in Servers \ Unusable : acceptor[s] # "none"
    /\ started < ExtraThreads
    /\ started' = started + 1
    /\ UNCHANGED <<up, main, acceptor, returned, accept, socket, handing, netVars>>

(* ioc.run() of the main thread itself.                                    *)
RunMain ==
    /\ up /\ main = "binding" /\ \A s \in Servers \ Unusable : acceptor[s] # "none"
    /\ started = ExtraThreads
    /\ main' = "running"
    /\ UNCHANGED <<up, acceptor, started, returned, accept, socket, handing, netVars>>

(* What keeps io_context::run() from returning: operations and handlers.   *)
Work == sessions # {} \/ handing # {} \/ \E s \in Servers : accept[s] # "none"

ReturnThread ==
    /\ up /\ returned < started /\ ~Work
    /\ returned' = returned + 1
    /\ UNCHANGED <<up, main, acceptor, started, accept, socket, handing, netVars>>

ReturnMain ==
    /\ up /\ main = "running" /\ ~Work
    /\ main' = "joining"
    /\ UNCHANGED <<up, acceptor, started, returned, accept, socket, handing, netVars>>

JoinThreads_Bug ==
    /\ up /\ main = "joining"
    /\ main' = "done"
    /\ UNCHANGED <<up, acceptor, started, returned, accept, socket, handing, netVars>>

JoinThreads ==
    /\ up /\ main = "joining" /\ returned = started
    /\ main' = "done"
    /\ UNCHANGED <<up, acceptor, started, returned, accept, socket, handing, netVars>>

-----------------------------------------------------------------------------
(* The handlers, on a thread that is in run() and not in on_accept.        *)

Running == (started - returned) + (IF main = "running" THEN 1 ELSE 0)

ThreadFree == up /\ Cardinality(handing) < Running

OnAcceptFail_Bug(s) ==
    /\ ThreadFree /\ accept[s] = "error"
    /\ accept' = [accept EXCEPT ![s] = "none"]
    /\ UNCHANGED <<up, main, acceptor, started, returned, socket, handing, netVars>>

OnAcceptFail_NoReturn(s) ==
    /\ ThreadFree /\ accept[s] = "error"
    /\ sessions' = sessions \cup {socket[s]}
    /\ accept' = [accept EXCEPT ![s] = "pending"]
    /\ UNCHANGED <<up, main, acceptor, started, returned, socket, handing, backlog, arrived>>

(* on_accept with an error: it is reported, and another accept started.    *)
OnAcceptFail(s) ==
    /\ ThreadFree /\ accept[s] = "error"
    /\ accept' = [accept EXCEPT ![s] = "pending"]
    /\ UNCHANGED <<up, main, acceptor, started, returned, socket, handing, netVars>>

HandOver_Bug(s) ==
    /\ ThreadFree /\ accept[s] = "ok"
    /\ sessions' = sessions \cup {socket[s]}
    /\ accept' = [accept EXCEPT ![s] = "pending"]
    /\ handing' = handing \cup {s}
    /\ UNCHANGED <<up, main, acceptor, started, returned, socket, backlog, arrived>>

(* on_accept: the socket is moved into a session, which starts.            *)
HandOver(s) ==
    /\ ThreadFree /\ accept[s] = "ok"
    /\ sessions' = sessions \cup {socket[s]}
    /\ socket' = [socket EXCEPT ![s] = NoOne]
    /\ accept' = [accept EXCEPT ![s] = "none"]
    /\ handing' = handing \cup {s}
    /\ UNCHANGED <<up, main, acceptor, started, returned, backlog, arrived>>

(* The same call of on_accept goes on: do_accept.                          *)
DoAccept(s) ==
    /\ up /\ s \in handing
    /\ handing' = handing \ {s}
    /\ accept' = [accept EXCEPT ![s] = "pending"]
    /\ UNCHANGED <<up, main, acceptor, started, returned, socket, netVars>>

-----------------------------------------------------------------------------
(* Clients, sessions and the kernel.                                       *)

Connect(c, s) ==
    /\ up /\ c \notin arrived /\ acceptor[s] = "listening"
    /\ arrived' = arrived \cup {c}
    /\ backlog' = [backlog EXCEPT ![s] = Append(@, c)]
    /\ UNCHANGED <<up, main, acceptor, started, returned, accept, socket, handing, sessions>>

Accepted == {socket[s] : s \in Servers} \ {NoOne}

DescriptorFree == Cardinality(Accepted \cup sessions) < Descriptors

AcceptOk(s) ==
    /\ up /\ accept[s] = "pending" /\ acceptor[s] = "listening"
    /\ backlog[s] # <<>> /\ DescriptorFree
    /\ accept' = [accept EXCEPT ![s] = "ok"]
    /\ socket' = [socket EXCEPT ![s] = Head(backlog[s])]
    /\ backlog' = [backlog EXCEPT ![s] = Tail(@)]
    /\ UNCHANGED <<up, main, acceptor, started, returned, handing, sessions, arrived>>

(* An acceptor that does not listen, or no descriptor for the connection.  *)
AcceptFails(s) ==
    /\ up /\ accept[s] = "pending"
    /\ acceptor[s] = "listening" => backlog[s] # <<>> /\ ~DescriptorFree
    /\ accept' = [accept EXCEPT ![s] = "error"]
    /\ UNCHANGED <<up, main, acceptor, started, returned, socket, handing, netVars>>

(* A session needs a thread to end, whatever ends it.                      *)
SessionEnds(c) ==
    /\ ThreadFree /\ c \in sessions
    /\ sessions' = sessions \ {c}
    /\ UNCHANGED <<up, main, acceptor, started, returned, accept, socket, handing,
                   backlog, arrived>>

(* An exception that leaves run() ends the process, on any thread.         *)
SessionThrows(c) ==
    /\ ThreadFree /\ c \in sessions
    /\ up' = FALSE
    /\ UNCHANGED <<main, acceptor, started, returned, accept, socket, handing, netVars>>

(* What may last for ever: the end, and threads that wait for a client.    *)
Idle == /\ main = "running" /\ sessions = {} /\ handing = {}
        /\ \A s \in Servers : accept[s] \in {"none", "pending"} /\ backlog[s] = <<>>

Done == (~up \/ main = "done" \/ Idle) /\ UNCHANGED vars

OnAccept(s) == OnAcceptFail(s) \/ HandOver(s) \/ DoAccept(s)
Kernel(s)   == AcceptOk(s) \/ AcceptFails(s)
MainThread  == (\E s \in Servers : Bind(s)) \/ StartThread \/ RunMain \/ ReturnMain \/ JoinThreads

Next == \/ MainThread \/ ReturnThread
        \/ \E s \in Servers : OnAccept(s) \/ Kernel(s)
        \/ \E c \in Connections, s \in Servers : Connect(c, s)
        \/ \E c \in Connections : SessionEnds(c) \/ SessionThrows(c)
        \/ Done

Spec == Init /\ [][Next]_vars

(* Threads run what is ready (methods return), and the kernel completes an *)
(* accept.  Nothing is said of clients and sessions: a session whose peer  *)
(* stays active re-arms its deadline and may hold its socket for ever      *)
(* (http_session.cpp:154, websocket_session.cpp:81).                       *)
FairSpec == /\ Spec
            /\ WF_vars(MainThread) /\ WF_vars(ReturnThread)
            /\ \A s \in Servers : WF_vars(OnAccept(s)) /\ WF_vars(AcceptOk(s)) /\ WF_vars(Kernel(s))

-----------------------------------------------------------------------------
TypeOK ==
    /\ up \in BOOLEAN
    /\ main \in {"binding", "running", "joining", "done"}
    /\ acceptor \in [Servers -> {"none", "closed", "open", "listening"}]
    /\ started \in Nat /\ returned \in 0 .. started
    /\ accept \in [Servers -> {"none", "pending", "ok", "error"}]
    /\ socket \in [Servers -> Connections \cup {NoOne}]
    /\ handing \subseteq Servers
    /\ backlog \in [Servers -> Seq(Connections)]
    /\ sessions \subseteq Connections /\ arrived \subseteq Connections

(* The chain of accepts is never lost and never doubled: a listener whose  *)
(* acceptor is open either has one accept outstanding (one that failed, or *)
(* that is bound to fail, included) or is in the handler that starts the   *)
(* next.  The threads serve for as long as there is such a listener.       *)
AcceptChain ==
    \A s \in Servers :
        /\ IsOpen(acceptor[s]) => (accept[s] # "none") # (s \in handing)
        /\ ~IsOpen(acceptor[s]) => accept[s] = "none" /\ s \notin handing

(* The socket object is free when a connection is accepted into it, and no *)
(* connection is in two hands: of two listeners, or of a listener and a    *)
(* session, or in a queue and in a hand.                                   *)
Waiting == UNION {{backlog[s][i] : i \in DOMAIN backlog[s]} : s \in Servers}

SocketOwned ==
    /\ \A s \in Servers : accept[s] = "ok" <=> socket[s] # NoOne
    /\ \A r, s \in Servers : socket[r] = socket[s] /\ socket[r] # NoOne => r = s
    /\ Accepted \cap sessions = {}
    /\ Waiting \cap (Accepted \cup sessions) = {}

(* start_threads gives at most thread_count threads to the io_context (one *)
(* for a thread_count of 0).  None of them returns while there is anything *)
(* to serve now or later, an open acceptor or a session, and start_threads *)
(* returns after all of them.                                              *)
ThreadsServe ==
    /\ Running <= (IF ThreadCount = 0 THEN 1 ELSE ThreadCount)
    /\ main \in {"joining", "done"} \/ returned > 0 =>
           sessions = {} /\ \A s \in Servers : ~IsOpen(acceptor[s])
    /\ main = "done" => returned = started

(* Under FairSpec, and if from some time on the sessions leave a           *)
(* descriptor free (they may last for ever): a connection in the backlog   *)
(* is accepted and given to a session, also after accepts failed for want  *)
(* of a descriptor, which nobody repeats but the listener itself.          *)
Served == <>[]DescriptorFree =>
              \A c \in Connections : c \in Waiting ~> (c \in sessions \/ ~up)

(* Under FairSpec: when no acceptor is open, start_threads returns.  (One  *)
(* that is open and does not listen keeps the threads in run() for ever.)  *)
Ends == (\A s \in Servers : ~IsOpen(acceptor[s])) /\ main = "running" ~> main = "done" \/ ~up
=============================================================================
