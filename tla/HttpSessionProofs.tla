------------------------- MODULE HttpSessionProofs -------------------------
(***************************************************************************)
(* Proofs about HttpSession, for every queue limit, every set of requests  *)
(* and every bound on their number.                                        *)
(***************************************************************************)
EXTENDS HttpSession, TLAPS

USE LimitAssumption, RequestsAssumption, BoundAssumption

(* The steps of Next that change something, one by one, for the proofs by  *)
(* cases below.                                                            *)
LEMMA NextCases ==
    ASSUME Next
    PROVE  \/ Run \/ OnTimerUpgraded \/ OnTimerExpired \/ OnTimerAgain
           \/ OnReadFail \/ OnReadEof \/ OnReadUpgrade \/ OnReadFatal \/ OnReadRequest
           \/ OnWriteFail \/ OnWriteClose \/ OnWriteNext
           \/ ReadOk \/ ReadStops \/ WriteOk \/ WriteStops
           \/ DeadlinePasses \/ TimerFires \/ UNCHANGED vars
BY DEF Next, OnTimer, OnRead, OnWrite, Network, Done

-----------------------------------------------------------------------------
(***************************************************************************)
(* Type correctness.                                                       *)
(***************************************************************************)

(* A step of WriteOk or OnWriteNext takes the first item: there is one     *)
(* whenever a write is outstanding.                                        *)
WriteHasItem == write # "none" => items # <<>>

TypeInv == TypeOK /\ WriteHasItem

LEMMA TypeInvInit == Init => TypeInv
<1> SUFFICES ASSUME Init PROVE TypeInv
  OBVIOUS
<1>1. /\ up \in BOOLEAN /\ started \in BOOLEAN /\ sendShut \in BOOLEAN
      /\ failed \in BOOLEAN /\ overlap \in BOOLEAN
  BY DEF Init
<1> QED
  BY <1>1 DEF Init, TypeInv, TypeOK, WriteHasItem

LEMMA TypeInvStep == TypeInv /\ [Next]_vars => TypeInv'
<1> SUFFICES ASSUME TypeInv, [Next]_vars PROVE TypeInv'
  OBVIOUS
<1> USE DEF TypeInv, TypeOK, WriteHasItem, netVars, timerVars, histVars
<1>1. CASE Run
  BY <1>1 DEF Run
<1>2. CASE OnTimerUpgraded
  BY <1>2 DEF OnTimerUpgraded
<1>3. CASE OnTimerExpired
  BY <1>3 DEF OnTimerExpired, Abort
<1>4. CASE OnTimerAgain
  BY <1>4 DEF OnTimerAgain
<1>5. CASE OnReadFail
  BY <1>5 DEF OnReadFail
<1>6. CASE OnReadEof
  BY <1>6 DEF OnReadEof, DoClose
<1>7. CASE OnReadUpgrade
  BY <1>7 DEF OnReadUpgrade, SetDeadline
<1>8. CASE OnReadFatal
  <2>1. up' \in BOOLEAN
    BY <1>8 DEF OnReadFatal
  <2> QED
    BY <1>8, <2>1 DEF OnReadFatal
<1>9. CASE OnReadRequest
  BY <1>9 DEF OnReadRequest, StartWrite, DoRead, SetDeadline, Response, NeedEof
<1>10. CASE OnWriteFail
  BY <1>10 DEF OnWriteFail
<1>11. CASE OnWriteClose
  BY <1>11 DEF OnWriteClose, DoClose
<1>12. CASE OnWriteNext
  BY <1>12 DEF OnWriteNext, Erase, WriteFront, StartWrite, DoRead, SetDeadline
<1>13. CASE ReadOk
  <2>1. \A r \in Requests : r # NoRequest
    BY DEF Request, NoRequest
  <2> QED
    BY <1>13, <2>1 DEF ReadOk
<1>14. CASE ReadStops
  BY <1>14 DEF ReadStops
<1>15. CASE WriteOk
  BY <1>15 DEF WriteOk
<1>16. CASE WriteStops
  BY <1>16 DEF WriteStops
<1>17. CASE DeadlinePasses
  BY <1>17 DEF DeadlinePasses
<1>18. CASE TimerFires
  BY <1>18 DEF TimerFires
<1>19. CASE UNCHANGED vars
  BY <1>19 DEF vars
<1> QED
  BY <1>1, <1>2, <1>3, <1>4, <1>5, <1>6, <1>7, <1>8, <1>9, <1>10, <1>11,
     <1>12, <1>13, <1>14, <1>15, <1>16, <1>17, <1>18, <1>19, NextCases

(* The state of a session always has the shape that TypeOK gives it; in    *)
(* particular on_read never sees an empty request.                         *)
THEOREM TypeCorrect == Spec => []TypeOK
<1>1. TypeInv => TypeOK
  BY DEF TypeInv
<1> QED
  BY TypeInvInit, TypeInvStep, <1>1, PTL DEF Spec
-----------------------------------------------------------------------------
(***************************************************************************)
(* The queue, the two loops and the timer.                                 *)
(***************************************************************************)

(* Nothing has happened before run().                                      *)
Fresh == ~started => /\ socket = "open" /\ items = <<>>
                     /\ read = "none" /\ write = "none" /\ wait = "none"

(* A deadline at time_point::min and an aborted operation are the marks of *)
(* a socket that is no longer this session's open socket.                  *)
Marks == /\ deadline = "min" => socket # "open"
         /\ read = "aborted" \/ write = "aborted" => socket # "open"

(* A session that has given its socket away has room in its queue, so that *)
(* the completion of its last write does not start a read.                 *)
MovedHasRoom == socket = "moved" => Len(items) < Limit

LoopInv == /\ NoOverlap /\ Backpressure /\ Watchdog /\ UpgradeIsFinal /\ NeverIdle
           /\ Fresh /\ Marks /\ MovedHasRoom

LEMMA LoopInvInit == Init => LoopInv
BY DEF Init, LoopInv, NoOverlap, Backpressure, Watchdog, UpgradeIsFinal, NeverIdle,
       Fresh, Marks, MovedHasRoom

LEMMA LoopInvStep == TypeInv /\ LoopInv /\ [Next]_vars => LoopInv'
<1> SUFFICES ASSUME TypeInv, LoopInv, [Next]_vars PROVE LoopInv'
  OBVIOUS
<1> USE DEF TypeInv, TypeOK, WriteHasItem, netVars, timerVars, histVars,
            LoopInv, NoOverlap, Backpressure, Watchdog, UpgradeIsFinal, NeverIdle,
            Fresh, Marks, MovedHasRoom
<1>1. CASE Run
  BY <1>1 DEF Run
<1>2. CASE OnTimerUpgraded
  BY <1>2 DEF OnTimerUpgraded
<1>3. CASE OnTimerExpired
  BY <1>3 DEF OnTimerExpired, Abort
<1>4. CASE OnTimerAgain
  BY <1>4 DEF OnTimerAgain
<1>5. CASE OnReadFail
  BY <1>5 DEF OnReadFail
<1>6. CASE OnReadEof
  BY <1>6 DEF OnReadEof, DoClose
<1>7. CASE OnReadUpgrade
  BY <1>7 DEF OnReadUpgrade, SetDeadline
<1>8. CASE OnReadFatal
  BY <1>8 DEF OnReadFatal
<1>9. CASE OnReadRequest
  BY <1>9 DEF OnReadRequest, StartWrite, DoRead, SetDeadline, IsFull, Response, NeedEof
<1>10. CASE OnWriteFail
  BY <1>10 DEF OnWriteFail
<1>11. CASE OnWriteClose
  BY <1>11 DEF OnWriteClose, DoClose, EndsConnection
<1>12. CASE OnWriteNext
  BY <1>12 DEF OnWriteNext, Erase, WriteFront, StartWrite, DoRead, SetDeadline, ResumesRead, IsFull, EndsConnection
<1>13. CASE ReadOk
  BY <1>13 DEF ReadOk
<1>14. CASE ReadStops
  BY <1>14 DEF ReadStops
<1>15. CASE WriteOk
  BY <1>15 DEF WriteOk
<1>16. CASE WriteStops
  BY <1>16 DEF WriteStops
<1>17. CASE DeadlinePasses
  BY <1>17 DEF DeadlinePasses
<1>18. CASE TimerFires
  BY <1>18 DEF TimerFires
<1>19. CASE UNCHANGED vars
  BY <1>19 DEF vars
<1> QED
  BY <1>1, <1>2, <1>3, <1>4, <1>5, <1>6, <1>7, <1>8, <1>9, <1>10, <1>11,
     <1>12, <1>13, <1>14, <1>15, <1>16, <1>17, <1>18, <1>19, NextCases

-----------------------------------------------------------------------------
(***************************************************************************)
(* The responses: which are written and which are queued.                  *)
(***************************************************************************)

(* The first item of the queue has been written and is still queued: its   *)
(* handler has not run yet, or it has ended the connection.                *)
HeadWritten == \/ write = "ok"
               \/ Len(replied) > 0 /\ replied[Len(replied)].close

(* The requests handled are those replied to and then those queued, in the *)
(* order of their numbers, but for the head written and not yet dropped.   *)
LedgerInv ==
    /\ \A i \in 1 .. Len(replied) : replied[i].id = i
    /\ \A i \in 1 .. Len(items) : items[i].id = (handled - Len(items)) + i
    /\ NothingAfterClose
    /\ HeadWritten => /\ Len(items) > 0 /\ Len(replied) > 0
                      /\ items[1] = replied[Len(replied)]
                      /\ Len(replied) + Len(items) = handled + 1
    /\ ~HeadWritten => Len(replied) + Len(items) = handled
    /\ write = "pending" => ~HeadWritten

LEMMA LedgerInvInit == Init => LedgerInv
BY DEF Init, LedgerInv, NothingAfterClose, HeadWritten

LEMMA LedgerInvStep == TypeInv /\ LedgerInv /\ [Next]_vars => LedgerInv'
<1> SUFFICES ASSUME TypeInv, LedgerInv, [Next]_vars PROVE LedgerInv'
  OBVIOUS
<1> USE DEF TypeInv, TypeOK, WriteHasItem, netVars, timerVars, histVars,
            LedgerInv, NothingAfterClose, HeadWritten
<1>1. CASE Run
  BY <1>1 DEF Run
<1>2. CASE OnTimerUpgraded
  BY <1>2 DEF OnTimerUpgraded
<1>3. CASE OnTimerExpired
  BY <1>3 DEF OnTimerExpired, Abort
<1>4. CASE OnTimerAgain
  BY <1>4 DEF OnTimerAgain
<1>5. CASE OnReadFail
  BY <1>5 DEF OnReadFail
<1>6. CASE OnReadEof
  BY <1>6 DEF OnReadEof, DoClose
<1>7. CASE OnReadUpgrade
  BY <1>7 DEF OnReadUpgrade, SetDeadline
<1>8. CASE OnReadFatal
  BY <1>8 DEF OnReadFatal
<1>9. CASE OnReadRequest
  <2> DEFINE new == [id |-> handled + 1, close |-> NeedEof(req)]
  <2>1. /\ items' = Append(items, new) /\ new.id = handled + 1
        /\ handled' = handled + 1 /\ UNCHANGED replied
        /\ items # <<>> => UNCHANGED write
        /\ items = <<>> => write' \in {"pending", "error"}
    BY <1>9 DEF OnReadRequest, StartWrite
  <2> HIDE DEF new
  <2>2. /\ Len(items') = Len(items) + 1
        /\ items'[Len(items) + 1] = new
        /\ \A i \in 1 .. Len(items) : items'[i] = items[i]
    BY <2>1
  <2>3. \A i \in 1 .. Len(items') : items'[i].id = (handled' - Len(items')) + i
    BY <2>1, <2>2
  <2>4. /\ items \in Seq(Response) /\ replied \in Seq(Response) /\ handled \in Nat
        /\ write \in {"none", "pending", "ok", "aborted", "error"}
        /\ WriteHasItem
    OBVIOUS
  <2> HIDE DEF TypeOK
  <2>5. NothingAfterClose' /\ (write' = "pending" => ~HeadWritten')
    BY <2>1, <2>4
  <2>6. HeadWritten' => /\ Len(items') > 0 /\ items'[1] = replied'[Len(replied')]
                        /\ Len(replied') > 0
                        /\ Len(replied') + Len(items') = handled' + 1
    <3>1. HeadWritten' => HeadWritten
      BY <2>1
    <3>2. HeadWritten => items'[1] = items[1] /\ Len(items') > 0
      BY <2>2, <2>4
    <3>3. HeadWritten => Len(replied) + Len(items) = handled + 1
                         /\ items[1] = replied[Len(replied)] /\ Len(replied) > 0
      OBVIOUS
    <3>4. HeadWritten => Len(replied') + Len(items') = handled' + 1
      <4>1. Len(items) \in Nat /\ Len(replied) \in Nat /\ handled \in Nat
        BY <2>4
      <4>2. Len(items') = Len(items) + 1 /\ handled' = handled + 1 /\ replied' = replied
        BY <2>1, <2>2
      <4> HIDE DEF HeadWritten, LedgerInv
      <4> QED
        BY <3>3, <4>1, <4>2
    <3> HIDE DEF HeadWritten, LedgerInv
    <3> QED
      BY <2>1, <3>1, <3>2, <3>3, <3>4
  <2>7. ~HeadWritten' => Len(replied') + Len(items') = handled'
    BY <2>1, <2>2, <2>4
  <2> QED
    BY <2>1, <2>3, <2>5, <2>6, <2>7
<1>10. CASE OnWriteFail
  BY <1>10 DEF OnWriteFail
<1>11. CASE OnWriteClose
  BY <1>11 DEF OnWriteClose, DoClose, EndsConnection
<1>12. CASE OnWriteNext
  BY <1>12 DEF OnWriteNext, Erase, WriteFront, StartWrite, DoRead, SetDeadline, ResumesRead, IsFull, EndsConnection
<1>13. CASE ReadOk
  BY <1>13 DEF ReadOk
<1>14. CASE ReadStops
  BY <1>14 DEF ReadStops
<1>15. CASE WriteOk
  <2>1. /\ Len(items) > 0 /\ ~HeadWritten
        /\ Len(replied) + Len(items) = handled
        /\ items[1].id = Len(replied) + 1
    BY <1>15 DEF WriteOk
  <2>2. /\ replied' = Append(replied, items[1])
        /\ write' = "ok" /\ items' = items /\ handled' = handled
    BY <1>15 DEF WriteOk
  <2>3. /\ Len(replied') = Len(replied) + 1
        /\ replied'[Len(replied) + 1] = items[1]
        /\ \A i \in 1 .. Len(replied) : replied'[i] = replied[i]
    BY <2>2
  <2>4. \A i \in 1 .. Len(replied') : replied'[i].id = i
    BY <2>1, <2>3
  <2>5. NothingAfterClose'
    BY <2>1, <2>3
  <2>6. HeadWritten' /\ write' # "pending"
    BY <2>2
  <2>7. items'[1] = replied'[Len(replied')]
    BY <2>2, <2>3
  <2>8. Len(items') > 0 /\ Len(replied') > 0
    BY <2>1, <2>2, <2>3
  <2>9. Len(replied') + Len(items') = handled' + 1
    <3>1. Len(replied) \in Nat /\ Len(items) \in Nat /\ Len(items') = Len(items)
      BY <2>2
    <3>2. handled' = handled /\ Len(replied') = Len(replied) + 1
      BY <2>2, <2>3
    <3>3. Len(replied) + Len(items) = handled
      BY <2>1
    <3> HIDE DEF TypeInv, LedgerInv
    <3> QED
      BY <3>1, <3>2, <3>3
  <2>10. \A i \in 1 .. Len(items') : items'[i].id = (handled' - Len(items')) + i
    BY <2>2
  <2> HIDE DEF HeadWritten, NothingAfterClose
  <2> QED
    BY <2>4, <2>5, <2>6, <2>7, <2>8, <2>9, <2>10 DEF LedgerInv
<1>16. CASE WriteStops
  BY <1>16 DEF WriteStops
<1>17. CASE DeadlinePasses
  BY <1>17 DEF DeadlinePasses
<1>18. CASE TimerFires
  BY <1>18 DEF TimerFires
<1>19. CASE UNCHANGED vars
  BY <1>19 DEF vars
<1> QED
  BY <1>1, <1>2, <1>3, <1>4, <1>5, <1>6, <1>7, <1>8, <1>9, <1>10, <1>11,
     <1>12, <1>13, <1>14, <1>15, <1>16, <1>17, <1>18, <1>19, NextCases

-----------------------------------------------------------------------------
(***************************************************************************)
(* The theorems.                                                           *)
(***************************************************************************)

IInv == TypeInv /\ LoopInv /\ LedgerInv

LEMMA Inductive == Spec => []IInv
<1>1. Init => IInv
  BY TypeInvInit, LoopInvInit, LedgerInvInit DEF IInv
<1>2. IInv /\ [Next]_vars => IInv'
  BY TypeInvStep, LoopInvStep, LedgerInvStep DEF IInv
<1> QED
  BY <1>1, <1>2, PTL DEF Spec

(* on_read, on_write and the queue never have two reads or two writes      *)
(* outstanding on the socket.                                              *)
THEOREM NeverOverlaps == Spec => []NoOverlap
<1>1. IInv => NoOverlap
  BY DEF IInv, LoopInv
<1> QED
  BY Inductive, <1>1, PTL

(* The queue never holds more than its limit, and no request is read       *)
(* without a place in it for the response.                                 *)
THEOREM QueueBounded == Spec => []Backpressure
<1>1. IInv => Backpressure
  BY DEF IInv, LoopInv
<1> QED
  BY Inductive, <1>1, PTL

(* While the connection is usable, the session reads exactly when the      *)
(* queue has room and writes exactly when it holds a response.             *)
THEOREM NeverStuck == Spec => []NeverIdle
<1>1. IInv => NeverIdle
  BY DEF IInv, LoopInv
<1> QED
  BY Inductive, <1>1, PTL

(* An open socket always has a wait on the timer outstanding.              *)
THEOREM AlwaysWatched == Spec => []Watchdog
<1>1. IInv => Watchdog
  BY DEF IInv, LoopInv
<1> QED
  BY Inductive, <1>1, PTL

(* After the socket has moved to a websocket_session, the session neither  *)
(* reads from it nor sets its deadline again.                              *)
THEOREM UpgradeStays == Spec => []UpgradeIsFinal
<1>1. IInv => UpgradeIsFinal
  BY DEF IInv, LoopInv
<1> QED
  BY Inductive, <1>1, PTL

(* Responses are written in the order of the requests, each once.          *)
THEOREM RepliesInOrder == Spec => []InOrder
<1>1. IInv => InOrder
  BY DEF IInv, TypeInv, TypeOK, LedgerInv, InOrder
<1> QED
  BY Inductive, <1>1, PTL

(* Nothing follows a response that ends the connection.                    *)
THEOREM ClosingReplyIsLast == Spec => []NothingAfterClose
<1>1. IInv => NothingAfterClose
  BY DEF IInv, LedgerInv
<1> QED
  BY Inductive, <1>1, PTL

(* A step of the session is a step of the promise or leaves it alone:      *)
(* handle_request handles one more, the end of a write replies to the next *)
(* one, and nothing else shows.                                            *)
LEMMA StepReplies == IInv /\ [Next]_vars => [Replies!Next]_<<handled, replied>>
<1> SUFFICES ASSUME IInv, [Next]_vars
             PROVE  Replies!Next \/ UNCHANGED <<handled, replied>>
  OBVIOUS
<1> USE DEF IInv, TypeInv, TypeOK
<1>1. CASE OnReadRequest
  <2>1. handled' = handled + 1 /\ UNCHANGED replied
    BY <1>1 DEF OnReadRequest
  <2>2. handled - Len(replied) < Limit
    BY <1>1 DEF OnReadRequest, LoopInv, Backpressure, LedgerInv
  <2> QED
    BY <2>1, <2>2 DEF Replies!Next, Replies!Handle
<1>2. CASE WriteOk
  <2> DEFINE close == items[1].close
  <2>1. /\ Len(items) > 0 /\ ~HeadWritten
        /\ Len(replied) + Len(items) = handled
        /\ items[1].id = Len(replied) + 1
    BY <1>2 DEF WriteOk, LedgerInv, WriteHasItem
  <2>2. replied' = Append(replied, items[1]) /\ handled' = handled
    BY <1>2 DEF WriteOk
  <2>3. items[1] = [id |-> Len(replied) + 1, close |-> close] /\ close \in BOOLEAN
    <3>1. items[1] \in Response
      BY <2>1
    <3>2. items[1].id = Len(replied) + 1
      BY <2>1
    <3> QED
      BY <3>1, <3>2 DEF Response
  <2>4. Len(replied) < handled
    <3> HIDE DEF IInv
    <3>1. Len(replied) \in Nat /\ Len(items) \in Nat
      BY DEF IInv
    <3> QED
      BY <2>1, <3>1
  <2>5. Replies!Open
    BY <2>1 DEF Replies!Open, HeadWritten
  <2>6. Replies!Reply(close)
    BY <2>2, <2>3, <2>4, <2>5 DEF Replies!Reply
  <2> QED
    BY <2>3, <2>6 DEF Replies!Next
<1>3. CASE ~OnReadRequest /\ ~WriteOk
  BY <1>3, NextCases DEF vars, histVars,
     Run, OnTimerUpgraded, OnTimerExpired, OnTimerAgain, OnReadFail, OnReadEof,
     OnReadUpgrade, OnReadFatal, OnWriteFail, OnWriteClose, OnWriteNext, ReadOk,
     ReadStops, WriteStops, DeadlinePasses, TimerFires
<1> QED
  BY <1>1, <1>2, <1>3

(* A session implements the promise of a pipelined connection.             *)
THEOREM Implements == Spec => ImplementsOrderedReplies
<1>1. Init => Replies!Init
  BY DEF Init, Replies!Init
<1> QED
  BY Inductive, <1>1, StepReplies, PTL DEF Spec, ImplementsOrderedReplies, Replies!Spec

-----------------------------------------------------------------------------
(***************************************************************************)
(* What the refinement brings.                                             *)
(***************************************************************************)

Promises == INSTANCE OrderedRepliesProofs

LEMMA SamePromise == Replies!Spec => Promises!Spec
<1>1. Replies!Init => Promises!Init
  BY DEF Replies!Init, Promises!Init
<1>2. [Replies!Next]_<<handled, replied>> => [Promises!Next]_<<handled, replied>>
  BY DEF Replies!Next, Replies!Handle, Replies!Reply, Replies!Open,
         Promises!Next, Promises!Handle, Promises!Reply, Promises!Open
<1> QED
  BY <1>1, <1>2, PTL DEF Replies!Spec, Promises!Spec

(* A peer that pipelines requests can tell the response to each by         *)
(* counting, has no more than Limit of them (queue::limit) unanswered, and *)
(* none after a response that closes.                                      *)
THEOREM RequestsAnsweredInTurn == Spec => []Promises!Promise
<1>1. Promises!Spec => []Promises!Promise
  BY LimitAssumption, Promises!PromiseKept
<1> QED
  BY <1>1, Implements, SamePromise, PTL DEF ImplementsOrderedReplies
=============================================================================
