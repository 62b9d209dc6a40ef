----------------------- MODULE WebSocketSessionProofs -----------------------
(***************************************************************************)
(* Proofs about WebSocketSession, for any messages and any number of them, *)
(* whether one thread or several run the handlers.                         *)
(***************************************************************************)
EXTENDS WebSocketSession, SequenceTheorems, TLAPS

(* The steps of Next that change something, one by one.                    *)
LEMMA NextCases ==
    ASSUME [Next]_vars
    PROVE  \/ StartTimer \/ CancelWait \/ SetExpiry \/ StartAccept
           \/ OnAccept \/ OnTimerAgain \/ OnTimerPing \/ OnTimerClose
           \/ OnPing \/ OnPingFail \/ OnReadEnd \/ OnReadReply \/ OnReadFatal
           \/ OnWrite \/ OnWriteFail
           \/ AcceptCompletes \/ ReadOk \/ ReadFails \/ ControlFrame \/ CloseFrame
           \/ WriteOk \/ WriteStops \/ PingOk \/ PingStops
           \/ DeadlinePasses \/ TimerFires \/ UNCHANGED vars
  BY DEF Next, DoAccept, OnTimer, OnPings, OnRead, OnWrites, Network, Done

-----------------------------------------------------------------------------
(***************************************************************************)
(* The buffer.                                                             *)
(***************************************************************************)

(* Before the handshake is started nothing has been read or written, and   *)
(* until it is done nothing is; then one operation at a time.              *)
Turns ==
    /\ setup # "done" => accept = "none" /\ read = "none" /\ write = "none" /\ buffer = <<>>
    /\ accept # "none" => read = "none" /\ write = "none" /\ buffer = <<>>
    /\ read = "none" \/ write = "none"

(* The buffer is empty while a read is under way, has one message at most  *)
(* when the message is processed, and the reply while it is written.       *)
Contents ==
    /\ read = "pending" => buffer = <<>>
    /\ read # "none" => Len(buffer) <= 1
    /\ write = "pending" => buffer = <<[what |-> "reply", id |-> handled]>>

TurnInv == TypeOK /\ Turns /\ Contents

LEMMA TurnInit == Init => TurnInv
<1> SUFFICES ASSUME Init PROVE TurnInv
  OBVIOUS
<1>1. up \in BOOLEAN /\ is_open \in BOOLEAN
  BY DEF Init
<1> QED
  BY <1>1 DEF Init, TurnInv, TypeOK, Op, Turns, Contents

(* The pings that are [pending, ok, failed], when one changes its place.    *)
LEMMA PingCounts ==
    ASSUME NEW p \in [pending : Nat, ok : Nat, failed : Nat], NEW m \in Nat, NEW n \in Nat
    PROVE  /\ [p EXCEPT !.pending = m, !.ok = n] \in [pending : Nat, ok : Nat, failed : Nat]
           /\ [p EXCEPT !.pending = m, !.failed = n] \in [pending : Nat, ok : Nat, failed : Nat]
           /\ [p EXCEPT !.failed = n, !.pending = m] \in [pending : Nat, ok : Nat, failed : Nat]
  OBVIOUS

LEMMA TypesStep == TurnInv /\ [Next]_vars => TypeOK'
<1> SUFFICES ASSUME TurnInv, [Next]_vars PROVE TypeOK'
  OBVIOUS
<1> USE DEF TurnInv, TypeOK, Op, ops, pingVars, timerVars, histVars
<1>1. CASE StartTimer
  BY <1>1 DEF StartTimer
<1>2. CASE CancelWait
  BY <1>2 DEF CancelWait
<1>3. CASE SetExpiry
  BY <1>3 DEF SetExpiry
<1>4. CASE StartAccept
  BY <1>4 DEF StartAccept
<1>5. CASE OnAccept
  BY <1>5 DEF OnAccept, DoRead, Started
<1>6. CASE OnTimerAgain
  BY <1>6 DEF OnTimerAgain, TimerHandler
<1>7. CASE OnTimerPing
  BY <1>7 DEF OnTimerPing, TimerHandler
<1>8. CASE OnTimerClose
  <2>1. pings.failed + pings.pending \in Nat /\ 0 \in Nat
    BY <1>8 DEF OnTimerClose
  <2>2. pings' = [pings EXCEPT !.failed = pings.failed + pings.pending, !.pending = 0]
    BY <1>8 DEF OnTimerClose
  <2>3. pings' \in [pending : Nat, ok : Nat, failed : Nat]
    <3>1. pings \in [pending : Nat, ok : Nat, failed : Nat]
      OBVIOUS
    <3> HIDE DEF TurnInv, TypeOK
    <3> QED
      BY <2>1, <2>2, <3>1, PingCounts
  <2> QED
    BY <1>8, <2>3 DEF OnTimerClose, Abort
<1>9. CASE OnPing
  <2>1. up' \in BOOLEAN
    BY <1>9 DEF OnPing
  <2>2. pings' \in [pending : Nat, ok : Nat, failed : Nat]
    BY <1>9 DEF OnPing
  <2> QED
    BY <1>9, <2>1, <2>2 DEF OnPing, SentState
<1>10. CASE OnPingFail
  BY <1>10 DEF OnPingFail
<1>11. CASE OnReadEnd
  BY <1>11 DEF OnReadEnd
<1>12. CASE OnReadReply
  <2>1. buffer' = Append(<<>>, [what |-> "reply", id |-> ReplyId(buffer)])
    BY <1>12 DEF OnReadReply, Consume
  <2>2. ReplyId(buffer) \in Nat
    BY DEF ReplyId
  <2>3. buffer' \in Seq(Part)
    BY <2>1, <2>2 DEF Part
  <2> QED
    BY <1>12, <2>3 DEF OnReadReply, Activity, SetDeadline, Started
<1>13. CASE OnReadFatal
  <2>1. up' \in BOOLEAN
    BY <1>13 DEF OnReadFatal
  <2> QED
    BY <1>13, <2>1 DEF OnReadFatal
<1>14. CASE OnWrite
  BY <1>14 DEF OnWrite, Consume, DoRead, Started
<1>15. CASE OnWriteFail
  BY <1>15 DEF OnWriteFail
<1>16. CASE AcceptCompletes
  BY <1>16 DEF AcceptCompletes
<1>17. CASE ReadOk
  <2>1. PICK m \in Messages : buffer' = Append(buffer, [what |-> "message", message |-> m])
    BY <1>17 DEF ReadOk, Arrived
  <2>2. [what |-> "message", message |-> m] \in Part
    BY MessagesAssumption DEF Part
  <2>3. buffer' \in Seq(Part)
    BY <2>1, <2>2
  <2> QED
    BY <1>17, <2>3 DEF ReadOk
<1>18. CASE ReadFails
  <2>1. ASSUME NEW m \in Messages
        PROVE  Arrived(m) \in Seq(Part)
    <3>1. [what |-> "message", message |-> m] \in Part
      BY MessagesAssumption DEF Part
    <3> QED
      BY <3>1 DEF Arrived
  <2>2. buffer' = buffer \/ \E m \in Messages : buffer' = Arrived(m)
    BY <1>18 DEF ReadFails
  <2>3. buffer' \in Seq(Part)
    BY <2>1, <2>2
  <2>4. is_open' \in BOOLEAN
    BY <1>18 DEF ReadFails
  <2> QED
    BY <1>18, <2>3, <2>4 DEF ReadFails
<1>19. CASE ControlFrame
  BY <1>19 DEF ControlFrame, Activity, SetDeadline
<1>20. CASE CloseFrame
  <2>1. is_open' \in BOOLEAN
    BY <1>20 DEF CloseFrame
  <2> QED
    BY <1>20, <2>1 DEF CloseFrame, Activity, SetDeadline
<1>21. CASE WriteOk
  <2>1. buffer = <<[what |-> "reply", id |-> handled]>>
    BY <1>21 DEF WriteOk, Contents
  <2>2. [id |-> SentId(buffer), close |-> FALSE] \in Reply
    BY <2>1 DEF SentId, Reply
  <2>3. replied' \in Seq(Reply)
    BY <1>21, <2>2 DEF WriteOk
  <2> QED
    BY <1>21, <2>3 DEF WriteOk
<1>22. CASE WriteStops
  BY <1>22 DEF WriteStops
<1>23. CASE PingOk
  <2>1. pings.pending - 1 \in Nat /\ pings.ok + 1 \in Nat
    BY <1>23 DEF PingOk
  <2>2. pings' = [pings EXCEPT !.pending = pings.pending - 1, !.ok = pings.ok + 1]
    BY <1>23 DEF PingOk
  <2>3. pings' \in [pending : Nat, ok : Nat, failed : Nat]
    <3>1. pings \in [pending : Nat, ok : Nat, failed : Nat]
      OBVIOUS
    <3> HIDE DEF TurnInv, TypeOK
    <3> QED
      BY <2>1, <2>2, <3>1, PingCounts
  <2> QED
    BY <1>23, <2>3 DEF PingOk
<1>24. CASE PingStops
  <2>1. pings.pending - 1 \in Nat /\ pings.failed + 1 \in Nat
    BY <1>24 DEF PingStops
  <2>2. pings' = [pings EXCEPT !.pending = pings.pending - 1, !.failed = pings.failed + 1]
    BY <1>24 DEF PingStops
  <2>3. pings' \in [pending : Nat, ok : Nat, failed : Nat]
    <3>1. pings \in [pending : Nat, ok : Nat, failed : Nat]
      OBVIOUS
    <3> HIDE DEF TurnInv, TypeOK
    <3> QED
      BY <2>1, <2>2, <3>1, PingCounts
  <2>4. is_open' \in BOOLEAN
    BY <1>24 DEF PingStops
  <2> QED
    BY <1>24, <2>3, <2>4 DEF PingStops
<1>25. CASE DeadlinePasses
  BY <1>25 DEF DeadlinePasses
<1>26. CASE TimerFires
  BY <1>26 DEF TimerFires
<1>27. CASE UNCHANGED vars
  BY <1>27 DEF vars
<1> QED
  BY <1>1, <1>2, <1>3, <1>4, <1>5, <1>6, <1>7, <1>8, <1>9, <1>10, <1>11,
     <1>12, <1>13, <1>14, <1>15, <1>16, <1>17, <1>18, <1>19, <1>20, <1>21,
     <1>22, <1>23, <1>24, <1>25, <1>26, <1>27, NextCases

LEMMA TurnsStep == TurnInv /\ [Next]_vars => (Turns /\ Contents)'
<1> SUFFICES ASSUME TurnInv, [Next]_vars PROVE (Turns /\ Contents)'
  OBVIOUS
<1> USE DEF TurnInv, TypeOK, Op, Turns, Contents, ops, pingVars, timerVars, histVars
<1>1. CASE StartTimer
  BY <1>1 DEF StartTimer
<1>2. CASE CancelWait
  BY <1>2 DEF CancelWait
<1>3. CASE SetExpiry
  BY <1>3 DEF SetExpiry
<1>4. CASE StartAccept
  BY <1>4 DEF StartAccept
<1>5. CASE OnAccept
  BY <1>5 DEF OnAccept, DoRead, Started
<1>6. CASE OnTimerAgain
  BY <1>6 DEF OnTimerAgain, TimerHandler
<1>7. CASE OnTimerPing
  BY <1>7 DEF OnTimerPing, TimerHandler
<1>8. CASE OnTimerClose
  BY <1>8 DEF OnTimerClose, TimerHandler, Abort
<1>9. CASE OnPing
  BY <1>9 DEF OnPing, SentState
<1>10. CASE OnPingFail
  BY <1>10 DEF OnPingFail
<1>11. CASE OnReadEnd
  BY <1>11 DEF OnReadEnd
<1>12. CASE OnReadReply
  BY <1>12 DEF OnReadReply, Activity, SetDeadline, Started, Consume, Processed, ReplyId
<1>13. CASE OnReadFatal
  BY <1>13 DEF OnReadFatal
<1>14. CASE OnWrite
  BY <1>14 DEF OnWrite, Consume, DoRead, Started
<1>15. CASE OnWriteFail
  BY <1>15 DEF OnWriteFail
<1>16. CASE AcceptCompletes
  BY <1>16 DEF AcceptCompletes
<1>17. CASE ReadOk
  BY <1>17 DEF ReadOk, Arrived
<1>18. CASE ReadFails
  <2>1. read' = "error" /\ write' = "none" /\ accept' = "none" /\ setup' = "done"
    BY <1>18 DEF ReadFails
  <2>2. \A m \in Messages : Len(Arrived(m)) = 1
    BY <1>18 DEF ReadFails, Arrived
  <2>3. buffer' = buffer \/ \E m \in Messages : buffer' = Arrived(m)
    BY <1>18 DEF ReadFails
  <2>4. Len(buffer) = 0
    BY <1>18 DEF ReadFails
  <2>5. Len(buffer') = 0 \/ Len(buffer') = 1
    BY <2>2, <2>3, <2>4
  <2>6. Len(buffer') <= 1
    <3> HIDE DEF TurnInv
    <3> QED
      BY <2>5
  <2> QED
    BY <2>1, <2>6
<1>19. CASE ControlFrame
  BY <1>19 DEF ControlFrame, Activity, SetDeadline
<1>20. CASE CloseFrame
  BY <1>20 DEF CloseFrame, Activity, SetDeadline
<1>21. CASE WriteOk
  BY <1>21 DEF WriteOk
<1>22. CASE WriteStops
  BY <1>22 DEF WriteStops
<1>23. CASE PingOk
  BY <1>23 DEF PingOk
<1>24. CASE PingStops
  BY <1>24 DEF PingStops
<1>25. CASE DeadlinePasses
  BY <1>25 DEF DeadlinePasses
<1>26. CASE TimerFires
  BY <1>26 DEF TimerFires
<1>27. CASE UNCHANGED vars
  BY <1>27 DEF vars
<1> QED
  BY <1>1, <1>2, <1>3, <1>4, <1>5, <1>6, <1>7, <1>8, <1>9, <1>10, <1>11,
     <1>12, <1>13, <1>14, <1>15, <1>16, <1>17, <1>18, <1>19, <1>20, <1>21,
     <1>22, <1>23, <1>24, <1>25, <1>26, <1>27, NextCases

LEMMA TurnInvariant == Spec => []TurnInv
<1>1. TurnInv /\ [Next]_vars => TurnInv'
  BY TypesStep, TurnsStep DEF TurnInv
<1> QED
  BY TurnInit, <1>1, PTL DEF Spec

(* The state of a session keeps its shape; in particular what is written   *)
(* as a reply is one.                                                      *)
THEOREM TypeCorrect == Spec => []TypeOK
<1>1. TurnInv => TypeOK
  BY DEF TurnInv
<1> QED
  BY TurnInvariant, <1>1, PTL

(* The one buffer is never used by a read and a write at once, is empty    *)
(* when a read starts and holds exactly the reply while it is written.     *)
THEOREM BufferUsedInTurn == Spec => []BufferInTurn
<1>1. TurnInv => BufferInTurn
  BY DEF TurnInv, Turns, Contents, BufferInTurn
<1> QED
  BY TurnInvariant, <1>1, PTL

-----------------------------------------------------------------------------
(***************************************************************************)
(* The replies.                                                            *)
(***************************************************************************)

(* Every message that was processed has been replied to, but for one whose *)
(* reply is being written or could not be; then nothing is read any more.  *)
LedgerInv ==
    /\ \A i \in 1 .. Len(replied) : replied[i].id = i
    /\ write = "pending" => handled = Len(replied) + 1
    /\ setup # "done" \/ accept # "none" \/ read # "none" \/ write = "ok"
           => handled = Len(replied)

LEMMA LedgerInit == Init => LedgerInv
  BY DEF Init, LedgerInv

LEMMA LedgerStep == TurnInv /\ LedgerInv /\ [Next]_vars => LedgerInv'
<1> SUFFICES ASSUME TurnInv, LedgerInv, [Next]_vars PROVE LedgerInv'
  OBVIOUS
<1> USE DEF TurnInv, TypeOK, Op, Turns, Contents, LedgerInv, ops, pingVars, timerVars, histVars
<1>1. CASE StartTimer
  BY <1>1 DEF StartTimer
<1>2. CASE CancelWait
  BY <1>2 DEF CancelWait
<1>3. CASE SetExpiry
  BY <1>3 DEF SetExpiry
<1>4. CASE StartAccept
  BY <1>4 DEF StartAccept
<1>5. CASE OnAccept
  BY <1>5 DEF OnAccept, DoRead, Started
<1>6. CASE OnTimerAgain
  BY <1>6 DEF OnTimerAgain, TimerHandler
<1>7. CASE OnTimerPing
  BY <1>7 DEF OnTimerPing, TimerHandler
<1>8. CASE OnTimerClose
  BY <1>8 DEF OnTimerClose, TimerHandler, Abort
<1>9. CASE OnPing
  BY <1>9 DEF OnPing, SentState
<1>10. CASE OnPingFail
  BY <1>10 DEF OnPingFail
<1>11. CASE OnReadEnd
  BY <1>11 DEF OnReadEnd
<1>12. CASE OnReadReply
  BY <1>12 DEF OnReadReply, Activity, SetDeadline, Started, Consume, Processed, ReplyId
<1>13. CASE OnReadFatal
  BY <1>13 DEF OnReadFatal
<1>14. CASE OnWrite
  BY <1>14 DEF OnWrite, Consume, DoRead, Started
<1>15. CASE OnWriteFail
  BY <1>15 DEF OnWriteFail
<1>16. CASE AcceptCompletes
  BY <1>16 DEF AcceptCompletes
<1>17. CASE ReadOk
  BY <1>17 DEF ReadOk, Arrived
<1>18. CASE ReadFails
  BY <1>18 DEF ReadFails, Arrived
<1>19. CASE ControlFrame
  BY <1>19 DEF ControlFrame, Activity, SetDeadline
<1>20. CASE CloseFrame
  BY <1>20 DEF CloseFrame, Activity, SetDeadline
<1>21. CASE WriteOk
  <2>1. /\ handled = Len(replied) + 1 /\ handled' = handled
        /\ buffer = <<[what |-> "reply", id |-> handled]>>
        /\ replied' = Append(replied, [id |-> SentId(buffer), close |-> FALSE])
        /\ write' = "ok"
    BY <1>21 DEF WriteOk
  <2>2. SentId(buffer) = Len(replied) + 1
    BY <2>1 DEF SentId
  <2>3. /\ Len(replied') = Len(replied) + 1
        /\ replied'[Len(replied) + 1].id = Len(replied) + 1
        /\ \A i \in 1 .. Len(replied) : replied'[i] = replied[i]
    BY <2>1, <2>2
  <2>4. \A i \in 1 .. Len(replied') : replied'[i].id = i
    BY <2>3
  <2>5. handled' = Len(replied')
    BY <2>1, <2>3
  <2> QED
    BY <2>1, <2>4, <2>5
<1>22. CASE WriteStops
  BY <1>22 DEF WriteStops
<1>23. CASE PingOk
  BY <1>23 DEF PingOk
<1>24. CASE PingStops
  BY <1>24 DEF PingStops
<1>25. CASE DeadlinePasses
  BY <1>25 DEF DeadlinePasses
<1>26. CASE TimerFires
  BY <1>26 DEF TimerFires
<1>27. CASE UNCHANGED vars
  BY <1>27 DEF vars
<1> QED
  BY <1>1, <1>2, <1>3, <1>4, <1>5, <1>6, <1>7, <1>8, <1>9, <1>10, <1>11,
     <1>12, <1>13, <1>14, <1>15, <1>16, <1>17, <1>18, <1>19, <1>20, <1>21,
     <1>22, <1>23, <1>24, <1>25, <1>26, <1>27, NextCases

LEMMA LedgerInvariant == Spec => [](TurnInv /\ LedgerInv)
<1>1. TurnInv /\ LedgerInv /\ [Next]_vars => LedgerInv'
  BY LedgerStep
<1> QED
  BY TurnInvariant, LedgerInit, <1>1, PTL DEF Spec

(* on_read handles a message when the last one has been replied to, the    *)
(* end of a write is the reply to it, and nothing else shows.              *)
LEMMA StepReplies ==
    TurnInv /\ LedgerInv /\ [Next]_vars => [Replies!Next]_<<handled, replied>>
<1> SUFFICES ASSUME TurnInv, LedgerInv, [Next]_vars
             PROVE  Replies!Next \/ UNCHANGED <<handled, replied>>
  OBVIOUS
<1>1. CASE OnReadReply
  <2>1. handled' = handled + 1 /\ replied' = replied /\ handled = Len(replied)
    BY <1>1 DEF OnReadReply, Processed, LedgerInv
  <2>2. handled - Len(replied) < 1
    BY <2>1 DEF TurnInv, TypeOK
  <2> QED
    BY <2>1, <2>2 DEF Replies!Next, Replies!Handle
<1>2. CASE WriteOk
  <2>1. /\ handled = Len(replied) + 1 /\ handled' = handled
        /\ buffer = <<[what |-> "reply", id |-> handled]>>
        /\ replied' = Append(replied, [id |-> SentId(buffer), close |-> FALSE])
    BY <1>2 DEF WriteOk, LedgerInv, TurnInv, Contents, histVars
  <2>2. SentId(buffer) = Len(replied) + 1
    BY <2>1 DEF SentId
  <2>3. Len(replied) \in Nat /\ Len(replied) < handled
    BY <2>1 DEF TurnInv, TypeOK
  <2>4. Replies!Open
    <3> SUFFICES ASSUME Len(replied) > 0 PROVE ~replied[Len(replied)].close
      BY DEF Replies!Open
    <3>1. replied[Len(replied)] \in Reply
      BY <2>3 DEF TurnInv, TypeOK
    <3> QED
      BY <3>1 DEF Reply
  <2>5. Replies!Reply(FALSE)
    BY <2>1, <2>2, <2>3, <2>4 DEF Replies!Reply
  <2> QED
    BY <2>5 DEF Replies!Next
<1>3. CASE ~OnReadReply /\ ~WriteOk
  BY <1>3, NextCases DEF vars, histVars,
     StartTimer, CancelWait, SetExpiry, StartAccept, OnAccept, OnTimerAgain,
     OnTimerPing, OnTimerClose, OnPing, OnPingFail, OnReadEnd, OnReadFatal,
     OnWrite, OnWriteFail, AcceptCompletes, ReadOk, ReadFails, ControlFrame,
     CloseFrame, WriteStops, PingOk, PingStops, DeadlinePasses, TimerFires
<1> QED
  BY <1>1, <1>2, <1>3

(* A session implements the promise of a connection that takes one message *)
(* at a time.                                                              *)
THEOREM Implements == Spec => ImplementsOrderedReplies
<1>1. Init => Replies!Init
  BY DEF Init, Replies!Init
<1> QED
  BY LedgerInvariant, <1>1, StepReplies, PTL
     DEF Spec, ImplementsOrderedReplies, Replies!Spec

Promises == INSTANCE OrderedRepliesProofs WITH Limit <- 1

LEMMA SamePromise == Replies!Spec => Promises!Spec
<1>1. Replies!Init => Promises!Init
  BY DEF Replies!Init, Promises!Init
<1>2. [Replies!Next]_<<handled, replied>> => [Promises!Next]_<<handled, replied>>
  BY DEF Replies!Next, Replies!Handle, Replies!Reply, Replies!Open,
         Promises!Next, Promises!Handle, Promises!Reply, Promises!Open
<1> QED
  BY <1>1, <1>2, PTL DEF Replies!Spec, Promises!Spec

(* What the promise amounts to here: the replies on a connection are those *)
(* to its messages, in their order, and the session never holds more than  *)
(* one message without a reply.                                            *)
THEOREM MessagesAnsweredInTurn == Spec => []Promises!Promise
<1>1. 1 \in Nat
  OBVIOUS
<1>2. Promises!Spec => []Promises!Promise
  BY <1>1, Promises!PromiseKept
<1> QED
  BY <1>2, Implements, SamePromise, PTL DEF ImplementsOrderedReplies

-----------------------------------------------------------------------------
(***************************************************************************)
(* The timer.                                                              *)
(***************************************************************************)

(* A deadline that has passed counts, and so does the one after which the  *)
(* ping was sent.                                                          *)
SilenceInv ==
    /\ deadline = "past" => silence >= 1
    /\ ping_state # 0 => silence >= IF deadline = "past" THEN 2 ELSE 1

LEMMA SilenceInit == Init => SilenceInv
  BY DEF Init, SilenceInv

LEMMA SilenceStep == TypeOK /\ SilenceInv /\ [Next]_vars => SilenceInv'
<1> SUFFICES ASSUME TypeOK, SilenceInv, [Next]_vars PROVE SilenceInv'
  OBVIOUS
<1> USE DEF TypeOK, SilenceInv, ops, pingVars, timerVars, histVars
<1>1. CASE StartTimer
  BY <1>1 DEF StartTimer
<1>2. CASE CancelWait
  BY <1>2 DEF CancelWait
<1>3. CASE SetExpiry
  BY <1>3 DEF SetExpiry
<1>4. CASE StartAccept
  BY <1>4 DEF StartAccept
<1>5. CASE OnAccept
  BY <1>5 DEF OnAccept, DoRead, Started
<1>6. CASE OnTimerAgain
  BY <1>6 DEF OnTimerAgain, TimerHandler
<1>7. CASE OnTimerPing
  BY <1>7 DEF OnTimerPing, TimerHandler
<1>8. CASE OnTimerClose
  BY <1>8 DEF OnTimerClose, TimerHandler, Abort
<1>9. CASE OnPing
  BY <1>9 DEF OnPing, SentState
<1>10. CASE OnPingFail
  BY <1>10 DEF OnPingFail
<1>11. CASE OnReadEnd
  BY <1>11 DEF OnReadEnd
<1>12. CASE OnReadReply
  BY <1>12 DEF OnReadReply, Activity, SetDeadline, Started, Consume, Processed, ReplyId
<1>13. CASE OnReadFatal
  BY <1>13 DEF OnReadFatal
<1>14. CASE OnWrite
  BY <1>14 DEF OnWrite, Consume, DoRead, Started
<1>15. CASE OnWriteFail
  BY <1>15 DEF OnWriteFail
<1>16. CASE AcceptCompletes
  BY <1>16 DEF AcceptCompletes
<1>17. CASE ReadOk
  BY <1>17 DEF ReadOk, Arrived
<1>18. CASE ReadFails
  BY <1>18 DEF ReadFails, Arrived
<1>19. CASE ControlFrame
  BY <1>19 DEF ControlFrame, Activity, SetDeadline
<1>20. CASE CloseFrame
  BY <1>20 DEF CloseFrame, Activity, SetDeadline
<1>21. CASE WriteOk
  BY <1>21 DEF WriteOk
<1>22. CASE WriteStops
  BY <1>22 DEF WriteStops
<1>23. CASE PingOk
  BY <1>23 DEF PingOk
<1>24. CASE PingStops
  BY <1>24 DEF PingStops
<1>25. CASE DeadlinePasses
  BY <1>25 DEF DeadlinePasses
<1>26. CASE TimerFires
  BY <1>26 DEF TimerFires
<1>27. CASE UNCHANGED vars
  BY <1>27 DEF vars
<1> QED
  BY <1>1, <1>2, <1>3, <1>4, <1>5, <1>6, <1>7, <1>8, <1>9, <1>10, <1>11,
     <1>12, <1>13, <1>14, <1>15, <1>16, <1>17, <1>18, <1>19, <1>20, <1>21,
     <1>22, <1>23, <1>24, <1>25, <1>26, <1>27, NextCases

(* Only on_timer closes the socket, and an open stream only when a ping    *)
(* has been sent and another deadline has passed since.                    *)
LEMMA CloseStep ==
    TypeOK /\ SilenceInv /\ [Next]_vars
        => (socket = "open" /\ socket' = "closed" /\ is_open => silence >= 2)
<1> SUFFICES ASSUME SilenceInv, [Next]_vars, socket = "open", socket' = "closed", is_open
             PROVE  silence >= 2
  OBVIOUS
<1>1. OnTimerClose
  BY NextCases DEF vars,
     StartTimer, CancelWait, SetExpiry, StartAccept, OnAccept, OnTimerAgain,
     OnTimerPing, OnPing, OnPingFail, OnReadEnd, OnReadReply, OnReadFatal,
     OnWrite, OnWriteFail, AcceptCompletes, ReadOk, ReadFails, ControlFrame,
     CloseFrame, WriteOk, WriteStops, PingOk, PingStops, DeadlinePasses, TimerFires
<1> QED
  BY <1>1 DEF OnTimerClose, SilenceInv

(* The timer closes an established connection only when the peer has been  *)
(* silent for two deadlines.                                               *)
THEOREM OnlySilentIsClosed == Spec => ClosesOnlySilent
<1>1. TypeOK /\ SilenceInv /\ [Next]_vars
          => [socket = "open" /\ socket' = "closed" /\ is_open => silence >= 2]_vars
  BY CloseStep
<1> QED
  BY TypeCorrect, SilenceInit, SilenceStep, <1>1, PTL DEF Spec, ClosesOnlySilent

(* Once the timer runs, an open socket has a wait outstanding.  With one   *)
(* thread it is never lost (left waiting for the expiry of the             *)
(* constructor): the wait that do_accept cancels stays aborted until the   *)
(* new expiry is set.                                                      *)
Watched ==
    /\ setup = "timer" => wait = "none" /\ socket = "open"
    /\ setup # "timer" /\ socket = "open" => wait # "none"
    /\ ~Concurrent => wait # "lost" /\ (setup = "expiry" => wait = "aborted")

LEMMA WatchedInit == Init => Watched
  BY DEF Init, Watched

LEMMA WatchedStep == TypeOK /\ Watched /\ [Next]_vars => Watched'
<1> SUFFICES ASSUME TypeOK, Watched, [Next]_vars PROVE Watched'
  OBVIOUS
<1> USE DEF TypeOK, Watched, StrandRuns, ops, pingVars, timerVars, histVars
<1>1. CASE StartTimer
  BY <1>1 DEF StartTimer
<1>2. CASE CancelWait
  BY <1>2 DEF CancelWait
<1>3. CASE SetExpiry
  BY <1>3 DEF SetExpiry
<1>4. CASE StartAccept
  BY <1>4 DEF StartAccept
<1>5. CASE OnAccept
  BY <1>5 DEF OnAccept, DoRead, Started
<1>6. CASE OnTimerAgain
  BY <1>6 DEF OnTimerAgain, TimerHandler
<1>7. CASE OnTimerPing
  BY <1>7 DEF OnTimerPing, TimerHandler
<1>8. CASE OnTimerClose
  BY <1>8 DEF OnTimerClose, TimerHandler, Abort
<1>9. CASE OnPing
  BY <1>9 DEF OnPing, SentState
<1>10. CASE OnPingFail
  BY <1>10 DEF OnPingFail
<1>11. CASE OnReadEnd
  BY <1>11 DEF OnReadEnd
<1>12. CASE OnReadReply
  BY <1>12 DEF OnReadReply, Activity, SetDeadline, Started, Consume, Processed, ReplyId
<1>13. CASE OnReadFatal
  BY <1>13 DEF OnReadFatal
<1>14. CASE OnWrite
  BY <1>14 DEF OnWrite, Consume, DoRead, Started
<1>15. CASE OnWriteFail
  BY <1>15 DEF OnWriteFail
<1>16. CASE AcceptCompletes
  BY <1>16 DEF AcceptCompletes
<1>17. CASE ReadOk
  BY <1>17 DEF ReadOk, Arrived
<1>18. CASE ReadFails
  BY <1>18 DEF ReadFails, Arrived
<1>19. CASE ControlFrame
  BY <1>19 DEF ControlFrame, Activity, SetDeadline
<1>20. CASE CloseFrame
  BY <1>20 DEF CloseFrame, Activity, SetDeadline
<1>21. CASE WriteOk
  BY <1>21 DEF WriteOk
<1>22. CASE WriteStops
  BY <1>22 DEF WriteStops
<1>23. CASE PingOk
  BY <1>23 DEF PingOk
<1>24. CASE PingStops
  BY <1>24 DEF PingStops
<1>25. CASE DeadlinePasses
  BY <1>25 DEF DeadlinePasses
<1>26. CASE TimerFires
  BY <1>26 DEF TimerFires
<1>27. CASE UNCHANGED vars
  BY <1>27 DEF vars
<1> QED
  BY <1>1, <1>2, <1>3, <1>4, <1>5, <1>6, <1>7, <1>8, <1>9, <1>10, <1>11,
     <1>12, <1>13, <1>14, <1>15, <1>16, <1>17, <1>18, <1>19, <1>20, <1>21,
     <1>22, <1>23, <1>24, <1>25, <1>26, <1>27, NextCases

(* An open socket always has a wait on the timer outstanding, although     *)
(* every change of the deadline cancels it; with one thread it is a wait   *)
(* for the deadline that is set.                                           *)
THEOREM AlwaysWatched == Spec => []Watched
  BY TypeCorrect, WatchedInit, WatchedStep, PTL DEF Spec

-----------------------------------------------------------------------------
(***************************************************************************)
(* The loop of messages.                                                   *)
(***************************************************************************)

(* While the connection is usable, one of the accept, the read and the     *)
(* write is under way or has a handler that starts the next: the loop of   *)
(* on_accept, on_read and on_write never stops by itself.                  *)
NeverIdle ==
    is_open /\ socket = "open" =>
        \/ accept = "ok" /\ read = "none" /\ write = "none"
        \/ accept = "none" /\ read \in {"pending", "ok"} /\ write = "none"
        \/ accept = "none" /\ read = "none" /\ write \in {"pending", "ok"}

LEMMA IdleInit == Init => NeverIdle
  BY DEF Init, NeverIdle

LEMMA IdleStep == TurnInv /\ NeverIdle /\ [Next]_vars => NeverIdle'
<1> SUFFICES ASSUME TurnInv, NeverIdle, [Next]_vars PROVE NeverIdle'
  OBVIOUS
<1> USE DEF TurnInv, TypeOK, Op, Turns, NeverIdle, StrandRuns, ops, pingVars, timerVars, histVars
<1>1. CASE StartTimer
  BY <1>1 DEF StartTimer
<1>2. CASE CancelWait
  BY <1>2 DEF CancelWait
<1>3. CASE SetExpiry
  BY <1>3 DEF SetExpiry
<1>4. CASE StartAccept
  BY <1>4 DEF StartAccept
<1>5. CASE OnAccept
  BY <1>5 DEF OnAccept, DoRead, Started
<1>6. CASE OnTimerAgain
  BY <1>6 DEF OnTimerAgain, TimerHandler
<1>7. CASE OnTimerPing
  BY <1>7 DEF OnTimerPing, TimerHandler
<1>8. CASE OnTimerClose
  BY <1>8 DEF OnTimerClose, TimerHandler, Abort
<1>9. CASE OnPing
  BY <1>9 DEF OnPing, SentState
<1>10. CASE OnPingFail
  BY <1>10 DEF OnPingFail
<1>11. CASE OnReadEnd
  BY <1>11 DEF OnReadEnd
<1>12. CASE OnReadReply
  BY <1>12 DEF OnReadReply, Activity, SetDeadline, Started, Consume, Processed, ReplyId
<1>13. CASE OnReadFatal
  BY <1>13 DEF OnReadFatal
<1>14. CASE OnWrite
  BY <1>14 DEF OnWrite, Consume, DoRead, Started
<1>15. CASE OnWriteFail
  BY <1>15 DEF OnWriteFail
<1>16. CASE AcceptCompletes
  BY <1>16 DEF AcceptCompletes
<1>17. CASE ReadOk
  BY <1>17 DEF ReadOk, Arrived
<1>18. CASE ReadFails
  BY <1>18 DEF ReadFails, Arrived
<1>19. CASE ControlFrame
  BY <1>19 DEF ControlFrame, Activity, SetDeadline
<1>20. CASE CloseFrame
  BY <1>20 DEF CloseFrame, Activity, SetDeadline
<1>21. CASE WriteOk
  BY <1>21 DEF WriteOk
<1>22. CASE WriteStops
  BY <1>22 DEF WriteStops
<1>23. CASE PingOk
  BY <1>23 DEF PingOk
<1>24. CASE PingStops
  BY <1>24 DEF PingStops
<1>25. CASE DeadlinePasses
  BY <1>25 DEF DeadlinePasses
<1>26. CASE TimerFires
  BY <1>26 DEF TimerFires
<1>27. CASE UNCHANGED vars
  BY <1>27 DEF vars
<1> QED
  BY <1>1, <1>2, <1>3, <1>4, <1>5, <1>6, <1>7, <1>8, <1>9, <1>10, <1>11,
     <1>12, <1>13, <1>14, <1>15, <1>16, <1>17, <1>18, <1>19, <1>20, <1>21,
     <1>22, <1>23, <1>24, <1>25, <1>26, <1>27, NextCases

(* A message is read, processed or answered for as long as the connection  *)
(* is usable, whatever the timer, the pings and the control frames do, and *)
(* also when the handlers overtake do_accept.                              *)
THEOREM NeverStuck == Spec => []NeverIdle
  BY TurnInvariant, IdleInit, IdleStep, PTL DEF Spec
=============================================================================
