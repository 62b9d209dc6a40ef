---------------------------- MODULE ServerProofs ----------------------------
(***************************************************************************)
(* Proofs about Server, for any servers, threads, connections and          *)
(* descriptors: the chain of accepts, the owners of the connections and    *)
(* the return of start_threads.                                            *)
(***************************************************************************)
EXTENDS Server, SequenceTheorems, FiniteSetTheorems, TLAPS

(* The actions of Next, one by one.                                        *)
LEMMA NextCases ==
    ASSUME [Next]_vars
    PROVE  \/ \E s \in Servers : \/ Bind(s) \/ OnAcceptFail(s) \/ HandOver(s) \/ DoAccept(s)
                                 \/ AcceptOk(s) \/ AcceptFails(s)
           \/ StartThread \/ RunMain \/ ReturnMain \/ JoinThreads \/ ReturnThread
           \/ \E c \in Connections, s \in Servers : Connect(c, s)
           \/ \E c \in Connections : SessionEnds(c) \/ SessionThrows(c)
           \/ UNCHANGED vars
  BY DEF Next, MainThread, OnAccept, Kernel, Done

-----------------------------------------------------------------------------
(***************************************************************************)
(* Type correctness and the chain of accepts, which need each other.  The  *)
(* socket that is handed over holds a connection because the socket object *)
(* is filled exactly while an accept has succeeded; and do_accept finds it *)
(* empty because a listener in the handler has no accept outstanding.      *)
(***************************************************************************)

Filled == \A s \in Servers : accept[s] = "ok" <=> socket[s] # NoOne

ChainInv == TypeOK /\ Filled /\ AcceptChain

LEMMA ChainInit == Init => ChainInv
<1> SUFFICES ASSUME Init PROVE ChainInv
  OBVIOUS
<1>1. TypeOK
  BY ServersAssumption DEF Init, TypeOK
<1>2. Filled /\ AcceptChain
  BY DEF Init, Filled, AcceptChain, IsOpen
<1> QED
  BY <1>1, <1>2 DEF ChainInv

LEMMA TypesStep == ChainInv /\ [Next]_vars => TypeOK'
<1> SUFFICES ASSUME ChainInv, [Next]_vars PROVE TypeOK'
  OBVIOUS
<1> USE DEF ChainInv, TypeOK, Filled
<1>1. ASSUME NEW s \in Servers, Bind(s) PROVE TypeOK'
  <2>1. PICK state \in {"closed", "open", "listening"} :
           acceptor' = [acceptor EXCEPT ![s] = state]
    BY <1>1 DEF Bind, Outcomes
  <2>2. accept' \in [Servers -> {"none", "pending", "ok", "error"}]
    BY <1>1 DEF Bind
  <2> QED
    BY <1>1, <2>1, <2>2 DEF Bind, netVars
<1>2. ASSUME NEW s \in Servers, OnAcceptFail(s) PROVE TypeOK'
  BY <1>2 DEF OnAcceptFail, netVars
<1>3. ASSUME NEW s \in Servers, HandOver(s) PROVE TypeOK'
  BY <1>3 DEF HandOver, netVars
<1>4. ASSUME NEW s \in Servers, DoAccept(s) PROVE TypeOK'
  BY <1>4 DEF DoAccept, netVars
<1>5. ASSUME NEW s \in Servers, AcceptOk(s) PROVE TypeOK'
  BY <1>5 DEF AcceptOk, netVars
<1>6. ASSUME NEW s \in Servers, AcceptFails(s) PROVE TypeOK'
  BY <1>6 DEF AcceptFails, netVars
<1>7. CASE StartThread
  BY <1>7 DEF StartThread, netVars
<1>8. CASE RunMain
  BY <1>8 DEF RunMain, netVars
<1>9. CASE ReturnMain
  BY <1>9 DEF ReturnMain, netVars
<1>10. CASE JoinThreads
  BY <1>10 DEF JoinThreads, netVars
<1>11. CASE ReturnThread
  BY <1>11 DEF ReturnThread, netVars
<1>12. ASSUME NEW c \in Connections, NEW s \in Servers, Connect(c, s) PROVE TypeOK'
  BY <1>12 DEF Connect, netVars
<1>13. ASSUME NEW c \in Connections, SessionEnds(c) PROVE TypeOK'
  BY <1>13 DEF SessionEnds, netVars
<1>14. ASSUME NEW c \in Connections, SessionThrows(c) PROVE TypeOK'
  BY <1>14 DEF SessionThrows, netVars
<1>15. CASE UNCHANGED vars
  BY <1>15 DEF vars, netVars
<1> QED
  BY NextCases, <1>1, <1>2, <1>3, <1>4, <1>5, <1>6, <1>7, <1>8, <1>9, <1>10, <1>11, <1>12, <1>13, <1>14, <1>15

LEMMA FilledStep == ChainInv /\ [Next]_vars => Filled'
<1> SUFFICES ASSUME ChainInv, [Next]_vars PROVE Filled'
  OBVIOUS
<1> USE ServersAssumption DEF ChainInv, TypeOK, Filled, AcceptChain
<1>1. ASSUME NEW s \in Servers, Bind(s) PROVE Filled'
  <2>1. accept[s] = "none"
    BY <1>1 DEF Bind, IsOpen
  <2>2. accept'[s] \in {"none", "pending"} /\ \A r \in Servers \ {s} : accept'[r] = accept[r]
    BY <1>1 DEF Bind
  <2> QED
    BY <1>1, <2>1, <2>2 DEF Bind
<1>2. ASSUME NEW s \in Servers, OnAcceptFail(s) PROVE Filled'
  BY <1>2 DEF OnAcceptFail, netVars
<1>3. ASSUME NEW s \in Servers, HandOver(s) PROVE Filled'
  BY <1>3 DEF HandOver, netVars
<1>4. ASSUME NEW s \in Servers, DoAccept(s) PROVE Filled'
  BY <1>4 DEF DoAccept, netVars
<1>5. ASSUME NEW s \in Servers, AcceptOk(s) PROVE Filled'
  BY <1>5 DEF AcceptOk, netVars
<1>6. ASSUME NEW s \in Servers, AcceptFails(s) PROVE Filled'
  BY <1>6 DEF AcceptFails, netVars
<1>7. CASE StartThread
  BY <1>7 DEF StartThread, netVars
<1>8. CASE RunMain
  BY <1>8 DEF RunMain, netVars
<1>9. CASE ReturnMain
  BY <1>9 DEF ReturnMain, netVars
<1>10. CASE JoinThreads
  BY <1>10 DEF JoinThreads, netVars
<1>11. CASE ReturnThread
  BY <1>11 DEF ReturnThread, netVars
<1>12. ASSUME NEW c \in Connections, NEW s \in Servers, Connect(c, s) PROVE Filled'
  BY <1>12 DEF Connect, netVars
<1>13. ASSUME NEW c \in Connections, SessionEnds(c) PROVE Filled'
  BY <1>13 DEF SessionEnds, netVars
<1>14. ASSUME NEW c \in Connections, SessionThrows(c) PROVE Filled'
  BY <1>14 DEF SessionThrows, netVars
<1>15. CASE UNCHANGED vars
  BY <1>15 DEF vars, netVars
<1> QED
  BY NextCases, <1>1, <1>2, <1>3, <1>4, <1>5, <1>6, <1>7, <1>8, <1>9, <1>10, <1>11, <1>12, <1>13, <1>14, <1>15

LEMMA AcceptsStep == ChainInv /\ [Next]_vars => AcceptChain'
<1> SUFFICES ASSUME ChainInv, [Next]_vars PROVE AcceptChain'
  OBVIOUS
<1> USE DEF ChainInv, TypeOK, Filled, AcceptChain, IsOpen
<1>1. ASSUME NEW s \in Servers, Bind(s) PROVE AcceptChain'
  <2>1. PICK state \in {"closed", "open", "listening"} :
           /\ acceptor' = [acceptor EXCEPT ![s] = state]
           /\ accept' = [accept EXCEPT ![s] = IF IsOpen(state) THEN "pending" ELSE "none"]
    BY <1>1 DEF Bind, Outcomes
  <2>2. s \notin handing /\ handing' = handing
    BY <1>1 DEF Bind
  <2> QED
    BY <2>1, <2>2
<1>2. ASSUME NEW s \in Servers, OnAcceptFail(s) PROVE AcceptChain'
  BY <1>2 DEF OnAcceptFail, netVars
<1>3. ASSUME NEW s \in Servers, HandOver(s) PROVE AcceptChain'
  BY <1>3 DEF HandOver, netVars
<1>4. ASSUME NEW s \in Servers, DoAccept(s) PROVE AcceptChain'
  BY <1>4 DEF DoAccept, netVars
<1>5. ASSUME NEW s \in Servers, AcceptOk(s) PROVE AcceptChain'
  BY <1>5 DEF AcceptOk, netVars
<1>6. ASSUME NEW s \in Servers, AcceptFails(s) PROVE AcceptChain'
  BY <1>6 DEF AcceptFails, netVars
<1>7. CASE StartThread
  BY <1>7 DEF StartThread, netVars
<1>8. CASE RunMain
  BY <1>8 DEF RunMain, netVars
<1>9. CASE ReturnMain
  BY <1>9 DEF ReturnMain, netVars
<1>10. CASE JoinThreads
  BY <1>10 DEF JoinThreads, netVars
<1>11. CASE ReturnThread
  BY <1>11 DEF ReturnThread, netVars
<1>12. ASSUME NEW c \in Connections, NEW s \in Servers, Connect(c, s) PROVE AcceptChain'
  BY <1>12 DEF Connect, netVars
<1>13. ASSUME NEW c \in Connections, SessionEnds(c) PROVE AcceptChain'
  BY <1>13 DEF SessionEnds, netVars
<1>14. ASSUME NEW c \in Connections, SessionThrows(c) PROVE AcceptChain'
  BY <1>14 DEF SessionThrows, netVars
<1>15. CASE UNCHANGED vars
  BY <1>15 DEF vars, netVars
<1> QED
  BY NextCases, <1>1, <1>2, <1>3, <1>4, <1>5, <1>6, <1>7, <1>8, <1>9, <1>10, <1>11, <1>12, <1>13, <1>14, <1>15

LEMMA ChainStep == ChainInv /\ [Next]_vars => ChainInv'
  BY TypesStep, FilledStep, AcceptsStep DEF ChainInv

(* The state of the servers keeps its shape: of a failed accept no session *)
(* is ever made, and no more threads return than were started.             *)
THEOREM TypeCorrect == Spec => []TypeOK
<1>1. ChainInv => TypeOK
  BY DEF ChainInv
<1> QED
  BY <1>1, ChainInit, ChainStep, PTL DEF Spec

(* A listener with an open acceptor has one accept outstanding or is in    *)
(* the handler that starts the next, and no other listener has any.        *)
THEOREM AcceptsChained == Spec => []AcceptChain
<1>1. ChainInv => AcceptChain
  BY DEF ChainInv
<1> QED
  BY <1>1, ChainInit, ChainStep, PTL DEF Spec

-----------------------------------------------------------------------------
(***************************************************************************)
(* The threads.  A thread is started after the last bind, so once one has  *)
(* returned no accept can become outstanding any more.                     *)
(***************************************************************************)

AllBound == started > 0 \/ main # "binding" =>
                \A s \in Servers \ Unusable : acceptor[s] # "none"

ThreadsInv == /\ AllBound
              /\ started <= ExtraThreads
              /\ main \in {"joining", "done"} \/ returned > 0 =>
                     sessions = {} /\ \A s \in Servers : ~IsOpen(acceptor[s])
              /\ main = "done" => returned = started

LEMMA ThreadsInit == Init => ThreadsInv
  BY ServerBounds DEF Init, ThreadsInv, AllBound, ExtraThreads

LEMMA ThreadsStep == ChainInv /\ ThreadsInv /\ [Next]_vars => ThreadsInv'
<1> SUFFICES ASSUME ChainInv /\ ThreadsInv, [Next]_vars PROVE ThreadsInv'
  OBVIOUS
<1> USE ServerBounds DEF ThreadsInv, AllBound, ChainInv, TypeOK, AcceptChain, IsOpen
<1>1. ASSUME NEW s \in Servers, Bind(s) PROVE ThreadsInv'
  <2>1. main = "binding" /\ started = 0 /\ returned = 0
    BY <1>1 DEF Bind
  <2> QED
    BY <1>1, <2>1 DEF Bind
<1>2. ASSUME NEW s \in Servers, OnAcceptFail(s) PROVE ThreadsInv'
  BY <1>2 DEF OnAcceptFail, netVars
<1>3. ASSUME NEW s \in Servers, HandOver(s) PROVE ThreadsInv'
  <2>1. ~(main \in {"joining", "done"} \/ returned > 0)
    BY <1>3 DEF HandOver
  <2> QED
    BY <1>3, <2>1 DEF HandOver
<1>4. ASSUME NEW s \in Servers, DoAccept(s) PROVE ThreadsInv'
  BY <1>4 DEF DoAccept, netVars
<1>5. ASSUME NEW s \in Servers, AcceptOk(s) PROVE ThreadsInv'
  BY <1>5 DEF AcceptOk, netVars
<1>6. ASSUME NEW s \in Servers, AcceptFails(s) PROVE ThreadsInv'
  BY <1>6 DEF AcceptFails, netVars
<1>7. CASE StartThread
  BY <1>7 DEF StartThread, ExtraThreads, netVars
<1>8. CASE RunMain
  BY <1>8 DEF RunMain, netVars
<1>9. CASE ReturnMain
  <2>1. sessions = {} /\ \A s \in Servers : ~IsOpen(acceptor[s])
    BY <1>9 DEF ReturnMain, Work
  <2> QED
    BY <1>9, <2>1 DEF ReturnMain, netVars
<1>10. CASE JoinThreads
  BY <1>10 DEF JoinThreads, netVars
<1>11. CASE ReturnThread
  <2>1. started > 0 /\ main # "done"
    BY <1>11 DEF ReturnThread
  <2>2. sessions = {} /\ \A s \in Servers : ~IsOpen(acceptor[s])
    BY <1>11 DEF ReturnThread, Work
  <2> QED
    BY <1>11, <2>1, <2>2 DEF ReturnThread, netVars
<1>12. ASSUME NEW c \in Connections, NEW s \in Servers, Connect(c, s) PROVE ThreadsInv'
  BY <1>12 DEF Connect, netVars
<1>13. ASSUME NEW c \in Connections, SessionEnds(c) PROVE ThreadsInv'
  BY <1>13 DEF SessionEnds, netVars
<1>14. ASSUME NEW c \in Connections, SessionThrows(c) PROVE ThreadsInv'
  BY <1>14 DEF SessionThrows, netVars
<1>15. CASE UNCHANGED vars
  BY <1>15 DEF vars, netVars
<1> QED
  BY NextCases, <1>1, <1>2, <1>3, <1>4, <1>5, <1>6, <1>7, <1>8, <1>9, <1>10, <1>11, <1>12, <1>13, <1>14, <1>15

LEMMA ThreadsKept == Spec => [](ChainInv /\ ThreadsInv)
  BY ChainInit, ChainStep, ThreadsInit, ThreadsStep, PTL DEF Spec

(* A thread returns only when nothing is served and nothing ever will be,  *)
(* and start_threads, with no more threads than asked for, after them all. *)
THEOREM ThreadsReturnLast == Spec => []ThreadsServe
<1>1. ChainInv /\ ThreadsInv => ThreadsServe
  BY ServerBounds DEF ChainInv, TypeOK, ThreadsInv, ExtraThreads, ThreadsServe, Running
<1> QED
  BY <1>1, ThreadsKept, PTL

-----------------------------------------------------------------------------
(***************************************************************************)
(* The owners of the connections.  A connection is opened once and moves   *)
(* on from a backlog to a socket and from there to a session.              *)
(***************************************************************************)

QueuedOnce == \A r, s \in Servers : \A i \in DOMAIN backlog[r], j \in DOMAIN backlog[s] :
                  backlog[r][i] = backlog[s][j] => r = s /\ i = j

QueuedApart == \A s \in Servers : \A i \in DOMAIN backlog[s] :
                   /\ backlog[s][i] \in arrived
                   /\ backlog[s][i] \notin sessions
                   /\ \A r \in Servers : socket[r] # backlog[s][i]

AcceptedApart == \A r, s \in Servers : socket[r] # NoOne =>
                     /\ socket[r] \in arrived \ sessions
                     /\ socket[r] = socket[s] => r = s

OwnersInv == QueuedOnce /\ QueuedApart /\ AcceptedApart /\ sessions \subseteq arrived

LEMMA OwnersInit == Init => OwnersInv
  BY DEF Init, OwnersInv, QueuedOnce, QueuedApart, AcceptedApart

(* What an action does to OwnersInv that leaves the connections alone.     *)
LEMMA OwnersKept ==
    ASSUME OwnersInv, UNCHANGED <<socket, netVars>>
    PROVE  OwnersInv'
  BY DEF OwnersInv, QueuedOnce, QueuedApart, AcceptedApart, netVars

LEMMA OwnersStep == ChainInv /\ OwnersInv /\ [Next]_vars => OwnersInv'
<1> SUFFICES ASSUME ChainInv /\ OwnersInv, [Next]_vars PROVE OwnersInv'
  OBVIOUS
<1> USE ServersAssumption DEF ChainInv, TypeOK, Filled
<1>1. ASSUME NEW s \in Servers, Bind(s) PROVE OwnersInv'
  BY <1>1, OwnersKept DEF Bind, netVars
<1>2. ASSUME NEW s \in Servers, OnAcceptFail(s) PROVE OwnersInv'
  BY <1>2, OwnersKept DEF OnAcceptFail, netVars
<1>3. ASSUME NEW s \in Servers, HandOver(s) PROVE OwnersInv'
  BY <1>3 DEF HandOver, OwnersInv, QueuedOnce, QueuedApart, AcceptedApart
<1>4. ASSUME NEW s \in Servers, DoAccept(s) PROVE OwnersInv'
  BY <1>4, OwnersKept DEF DoAccept, netVars
<1>5. ASSUME NEW s \in Servers, AcceptOk(s) PROVE OwnersInv'
  <2>1. /\ backlog[s] # <<>> /\ UNCHANGED <<arrived, sessions>>
        /\ backlog' = [backlog EXCEPT ![s] = Tail(backlog[s])]
        /\ socket' = [socket EXCEPT ![s] = Head(backlog[s])]
    BY <1>5 DEF AcceptOk
  <2>2. 1 \in DOMAIN backlog[s] /\ Head(backlog[s]) = backlog[s][1]
    BY <2>1
  <2> DEFINE Was(r, i) == IF r = s THEN i + 1 ELSE i
  <2>3. \A r \in Servers : \A i \in DOMAIN backlog'[r] :
           /\ i \in Nat \ {0} /\ Was(r, i) \in DOMAIN backlog[r]
           /\ backlog'[r][i] = backlog[r][Was(r, i)]
    BY <2>1
  <2>4. QueuedOnce'
    <3> SUFFICES ASSUME NEW r \in Servers, NEW q \in Servers,
                        NEW i \in DOMAIN backlog'[r], NEW j \in DOMAIN backlog'[q],
                        backlog'[r][i] = backlog'[q][j]
                 PROVE  r = q /\ i = j
      BY DEF QueuedOnce
    <3>1. r = q /\ Was(r, i) = Was(q, j)
      <4> HIDE DEF Was
      <4> QED
        BY <2>3 DEF OwnersInv, QueuedOnce
    <3> QED
      BY <2>3, <3>1
  <2>5. QueuedApart'
    <3> SUFFICES ASSUME NEW r \in Servers, NEW i \in DOMAIN backlog'[r]
                 PROVE  /\ backlog'[r][i] \in arrived /\ backlog'[r][i] \notin sessions
                        /\ \A q \in Servers : socket'[q] # backlog'[r][i]
      BY <2>1 DEF QueuedApart
    <3>1. /\ backlog'[r][i] = backlog[r][Was(r, i)] /\ Was(r, i) \in DOMAIN backlog[r]
          /\ ~(r = s /\ Was(r, i) = 1)
      BY <2>3
    <3> HIDE DEF Was
    <3>2. backlog[r][Was(r, i)] # backlog[s][1]
      BY <2>2, <3>1 DEF OwnersInv, QueuedOnce
    <3> QED
      BY <2>1, <2>2, <3>1, <3>2 DEF OwnersInv, QueuedApart
  <2>6. AcceptedApart' /\ (sessions \subseteq arrived)'
    BY <2>1, <2>2 DEF OwnersInv, QueuedApart, AcceptedApart
  <2> QED
    BY <2>4, <2>5, <2>6 DEF OwnersInv
<1>6. ASSUME NEW s \in Servers, AcceptFails(s) PROVE OwnersInv'
  BY <1>6, OwnersKept DEF AcceptFails, netVars
<1>7. CASE StartThread
  BY <1>7, OwnersKept DEF StartThread, netVars
<1>8. CASE RunMain
  BY <1>8, OwnersKept DEF RunMain, netVars
<1>9. CASE ReturnMain
  BY <1>9, OwnersKept DEF ReturnMain, netVars
<1>10. CASE JoinThreads
  BY <1>10, OwnersKept DEF JoinThreads, netVars
<1>11. CASE ReturnThread
  BY <1>11, OwnersKept DEF ReturnThread, netVars
<1>12. ASSUME NEW c \in Connections, NEW s \in Servers, Connect(c, s) PROVE OwnersInv'
  <2>1. /\ arrived' = arrived \cup {c} /\ c \notin arrived /\ UNCHANGED <<socket, sessions>>
        /\ backlog' = [backlog EXCEPT ![s] = Append(backlog[s], c)]
    BY <1>12 DEF Connect
  <2>2. \A r \in Servers : \A i \in DOMAIN backlog'[r] :
           \/ i \in DOMAIN backlog[r] /\ backlog'[r][i] = backlog[r][i]
           \/ r = s /\ i = Len(backlog[s]) + 1 /\ backlog'[r][i] = c
    BY <2>1
  <2>3. QueuedOnce'
    <3> SUFFICES ASSUME NEW r \in Servers, NEW q \in Servers,
                        NEW i \in DOMAIN backlog'[r], NEW j \in DOMAIN backlog'[q],
                        backlog'[r][i] = backlog'[q][j]
                 PROVE  r = q /\ i = j
      BY DEF QueuedOnce
    <3> QED
      BY <2>1, <2>2 DEF OwnersInv, QueuedOnce, QueuedApart
  <2>4. QueuedApart'
    <3> SUFFICES ASSUME NEW r \in Servers, NEW i \in DOMAIN backlog'[r]
                 PROVE  /\ backlog'[r][i] \in arrived' /\ backlog'[r][i] \notin sessions
                        /\ \A q \in Servers : socket[q] # backlog'[r][i]
      BY <2>1 DEF QueuedApart
    <3> QED
      BY <2>1, <2>2 DEF OwnersInv, QueuedApart, AcceptedApart
  <2>5. AcceptedApart' /\ (sessions \subseteq arrived)'
    BY <2>1 DEF OwnersInv, AcceptedApart
  <2> QED
    BY <2>3, <2>4, <2>5 DEF OwnersInv
<1>13. ASSUME NEW c \in Connections, SessionEnds(c) PROVE OwnersInv'
  BY <1>13 DEF SessionEnds, OwnersInv, QueuedOnce, QueuedApart, AcceptedApart
<1>14. ASSUME NEW c \in Connections, SessionThrows(c) PROVE OwnersInv'
  BY <1>14, OwnersKept DEF SessionThrows, netVars
<1>15. CASE UNCHANGED vars
  BY <1>15, OwnersKept DEF vars
<1> QED
  BY NextCases, <1>1, <1>2, <1>3, <1>4, <1>5, <1>6, <1>7, <1>8, <1>9, <1>10, <1>11, <1>12, <1>13, <1>14, <1>15

(* A connection is never in two hands, and the socket object is empty when *)
(* a connection is accepted into it.                                       *)
THEOREM SocketsOwned == Spec => []SocketOwned
<1>1. Init => ChainInv /\ OwnersInv
  BY ChainInit, OwnersInit
<1>2. ChainInv /\ OwnersInv /\ [Next]_vars => (ChainInv /\ OwnersInv)'
  BY ChainStep, OwnersStep
<1>3. ChainInv /\ OwnersInv => SocketOwned
  BY DEF ChainInv, Filled, OwnersInv, QueuedApart, AcceptedApart, SocketOwned, Accepted, Waiting
<1> QED
  BY <1>1, <1>2, <1>3, PTL DEF Spec

-----------------------------------------------------------------------------
(***************************************************************************)
(* The way of a connection.                                                *)
(***************************************************************************)

(* A connection waits in its place or moves up, the first one into the     *)
(* socket; and an accepted one stays there or goes to a session.           *)
HandedOn ==
    \A s \in Servers :
        /\ \A i \in DOMAIN backlog[s] :
              \/ i \in DOMAIN backlog'[s] /\ backlog'[s][i] = backlog[s][i]
              \/ i > 1 /\ i - 1 \in DOMAIN backlog'[s] /\ backlog'[s][i - 1] = backlog[s][i]
              \/ i = 1 /\ socket'[s] = backlog[s][i]
        /\ socket[s] # NoOne => socket'[s] = socket[s] \/ socket[s] \in sessions'

LEMMA HandedKept ==
    ASSUME UNCHANGED <<socket, backlog>>
    PROVE  HandedOn
  BY DEF HandedOn

LEMMA HandedStep == ChainInv /\ [Next]_vars => HandedOn
<1> SUFFICES ASSUME ChainInv, [Next]_vars PROVE HandedOn
  OBVIOUS
<1> USE DEF ChainInv, TypeOK
<1>1. ASSUME NEW s \in Servers, HandOver(s) PROVE HandedOn
  <2>1. /\ socket' = [socket EXCEPT ![s] = NoOne] /\ backlog' = backlog
        /\ socket[s] \in sessions'
    BY <1>1 DEF HandOver
  <2> QED
    BY <2>1 DEF HandedOn
<1>2. ASSUME NEW s \in Servers, AcceptOk(s) PROVE HandedOn
  <2> DEFINE q == backlog[s]
  <2>1. /\ q \in Seq(Connections) /\ q # <<>> /\ socket[s] = NoOne
        /\ socket' = [socket EXCEPT ![s] = Head(q)]
        /\ backlog' = [backlog EXCEPT ![s] = Tail(q)]
    BY <1>2 DEF AcceptOk, Filled
  <2>2. socket'[s] = Head(q) /\ backlog'[s] = Tail(q)
    BY <2>1
  <2>3. \A r \in Servers \ {s} : socket'[r] = socket[r] /\ backlog'[r] = backlog[r]
    BY <2>1
  <2> HIDE DEF q
  <2>4. /\ Head(q) = q[1] /\ Len(q) \in Nat /\ DOMAIN q = 1 .. Len(q)
        /\ \A i \in 2 .. Len(q) : i - 1 \in DOMAIN Tail(q) /\ Tail(q)[i - 1] = q[i]
    BY <2>1
  <2>5. \A i \in DOMAIN q : \/ i > 1 /\ i - 1 \in DOMAIN Tail(q) /\ Tail(q)[i - 1] = q[i]
                            \/ i = 1 /\ Head(q) = q[i]
    BY <2>4
  <2> QED
    BY <2>1, <2>2, <2>3, <2>5 DEF HandedOn, q
<1>3. ASSUME NEW c \in Connections, NEW s \in Servers, Connect(c, s) PROVE HandedOn
  <2> DEFINE q == backlog[s]
  <2>1. q \in Seq(Connections) /\ backlog' = [backlog EXCEPT ![s] = Append(q, c)]
        /\ socket' = socket
    BY <1>3 DEF Connect
  <2>2. backlog'[s] = Append(q, c)
    BY <2>1
  <2>3. \A r \in Servers \ {s} : backlog'[r] = backlog[r]
    BY <2>1
  <2> HIDE DEF q
  <2>4. \A i \in DOMAIN q : i \in DOMAIN Append(q, c) /\ Append(q, c)[i] = q[i]
    BY <2>1
  <2> QED
    BY <2>1, <2>2, <2>3, <2>4 DEF HandedOn, q
<1>4. CASE \/ \E s \in Servers : Bind(s) \/ OnAcceptFail(s) \/ DoAccept(s) \/ AcceptFails(s)
           \/ StartThread \/ RunMain \/ ReturnMain \/ JoinThreads \/ ReturnThread
           \/ \E c \in Connections : SessionEnds(c) \/ SessionThrows(c)
           \/ UNCHANGED vars
  BY <1>4, HandedKept
     DEF Bind, OnAcceptFail, DoAccept, AcceptFails, StartThread, RunMain, ReturnMain,
         JoinThreads, ReturnThread, SessionEnds, SessionThrows, vars, netVars
<1> QED
  BY NextCases, <1>1, <1>2, <1>3, <1>4

(* No connection is lost or overtaken on its way from a backlog through    *)
(* the socket of the listener to a session: neither by an accept that      *)
(* fails nor by do_accept, which reuses the socket object.                 *)
THEOREM ConnectionsHandedOn == Spec => [][HandedOn]_vars
  BY ChainInit, ChainStep, HandedStep, PTL DEF Spec

-----------------------------------------------------------------------------
(***************************************************************************)
(* The threads that handlers run on.                                       *)
(***************************************************************************)

(* The handlers in progress have a thread each, and where there is work    *)
(* after the start a thread is in run() to do it.                          *)
ThreadsSuffice ==
    /\ IsFiniteSet(handing) /\ Cardinality(handing) <= Running
    /\ Work /\ main # "binding" => main = "running" /\ Running >= 1

Handlers == IsFiniteSet(handing) /\ Cardinality(handing) <= Running

LEMMA HandlersInit == Init => Handlers
  BY FS_EmptySet DEF Init, Handlers, Running

LEMMA HandlersStep == ChainInv /\ Handlers /\ [Next]_vars => Handlers'
<1> SUFFICES ASSUME ChainInv, Handlers, [Next]_vars PROVE Handlers'
  OBVIOUS
<1> USE DEF ChainInv, TypeOK, Handlers, Running
<1>1. Cardinality(handing) \in Nat
  BY FS_CardinalityType
<1>2. ASSUME NEW s \in Servers, HandOver(s) PROVE Handlers'
  <2>1. /\ IsFiniteSet(handing \cup {s})
        /\ Cardinality(handing \cup {s}) <= Cardinality(handing) + 1
    <3>1. IsFiniteSet(handing)
      OBVIOUS
    <3>2. /\ IsFiniteSet(handing \cup {s})
          /\ Cardinality(handing \cup {s})
                = IF s \in handing THEN Cardinality(handing) ELSE Cardinality(handing) + 1
      BY <3>1, FS_AddElement, Zenon
    <3> QED
      BY <1>1, <3>2
  <2>2. Cardinality(handing \cup {s}) \in Nat
    BY <2>1, FS_CardinalityType
  <2> QED
    BY <1>1, <1>2, <2>1, <2>2 DEF HandOver, ThreadFree
<1>3. ASSUME NEW s \in Servers, DoAccept(s) PROVE Handlers'
  <2>1. /\ IsFiniteSet(handing \ {s})
        /\ Cardinality(handing \ {s}) = Cardinality(handing) - 1
    BY <1>3, FS_RemoveElement DEF DoAccept
  <2> QED
    BY <1>1, <1>3, <2>1 DEF DoAccept
<1>4. CASE ReturnMain \/ ReturnThread
  <2>1. handing = {} /\ handing' = {}
    BY <1>4 DEF ReturnMain, ReturnThread, Work
  <2>2. IsFiniteSet(handing') /\ Cardinality(handing') = 0
    BY <2>1, FS_EmptySet
  <2> QED
    BY <1>4, <2>2 DEF ReturnMain, ReturnThread
<1>5. CASE StartThread \/ RunMain \/ JoinThreads
  BY <1>1, <1>5 DEF StartThread, RunMain, JoinThreads
<1>6. CASE \/ \E s \in Servers : Bind(s) \/ OnAcceptFail(s) \/ AcceptOk(s) \/ AcceptFails(s)
           \/ \E c \in Connections, s \in Servers : Connect(c, s)
           \/ \E c \in Connections : SessionEnds(c) \/ SessionThrows(c)
           \/ UNCHANGED vars
  <2>1. UNCHANGED <<handing, started, returned, main>>
    BY <1>6 DEF Bind, OnAcceptFail, AcceptOk, AcceptFails, Connect, SessionEnds,
                SessionThrows, vars
  <2> QED
    BY <2>1
<1> QED
  BY NextCases, <1>2, <1>3, <1>4, <1>5, <1>6

(* A handler of on_accept keeps its thread to the end, and work never      *)
(* waits for threads that have all returned.                               *)
THEOREM WorkHasThreads == Spec => []ThreadsSuffice
<1>1. ChainInv /\ ThreadsInv /\ Handlers => ThreadsSuffice
  BY DEF ChainInv, TypeOK, AcceptChain, ThreadsInv, Handlers, ThreadsSuffice, Work, Running
<1>2. Spec => []Handlers
  <2>1. ChainInv /\ ThreadsInv /\ Handlers /\ [Next]_vars => Handlers'
    BY HandlersStep
  <2> QED
    BY <2>1, ThreadsKept, HandlersInit, PTL DEF Spec
<1> QED
  BY <1>1, <1>2, ThreadsKept, PTL
=============================================================================
