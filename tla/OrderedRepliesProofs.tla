------------------------ MODULE OrderedRepliesProofs ------------------------
(***************************************************************************)
(* What the promise of OrderedReplies amounts to, for any limit.  A        *)
(* component that implements OrderedReplies has this, too.                 *)
(***************************************************************************)
EXTENDS OrderedReplies, SequenceTheorems, TLAPS

AnyReply == [id : Nat, close : BOOLEAN]

(* A peer that counts its requests and the replies can tell which reply    *)
(* belongs to which request, never waits for more than Limit of them, and  *)
(* need not read on after a reply that ends the connection.                *)
Promise ==
    /\ handled \in Nat /\ replied \in Seq(AnyReply)
    /\ Len(replied) <= handled /\ handled - Len(replied) <= Limit
    /\ \A i \in 1 .. Len(replied) : replied[i].id = i
    /\ \A i \in 1 .. Len(replied) - 1 : ~replied[i].close

LEMMA PromiseInit ==
    ASSUME Limit \in Nat, Init
    PROVE  Promise
<1>1. <<>> \in Seq(AnyReply) /\ Len(<<>>) = 0
  BY EmptySeq
<1> QED
  BY <1>1 DEF Init, Promise

LEMMA HandleKeeps ==
    ASSUME Limit \in Nat, Promise, Handle
    PROVE  Promise'
<1>1. Len(replied) \in Nat
  BY LenProperties DEF Promise
<1> QED
  BY <1>1 DEF Promise, Handle

LEMMA ReplyKeeps ==
    ASSUME Limit \in Nat, Promise, NEW close \in BOOLEAN, Reply(close)
    PROVE  Promise'
<1> DEFINE n == Len(replied)
           e == [id |-> n + 1, close |-> close]
<1>1. replied \in Seq(AnyReply) /\ n \in Nat /\ handled \in Nat
  BY LenProperties DEF Promise
<1>2. e \in AnyReply /\ e.id = n + 1
  BY <1>1 DEF AnyReply
<1>3. replied' = Append(replied, e) /\ handled' = handled /\ n < handled
  BY DEF Reply
<1> HIDE DEF e
<1>4. /\ Append(replied, e) \in Seq(AnyReply) /\ Len(Append(replied, e)) = n + 1
      /\ \A i \in 1 .. n : Append(replied, e)[i] = replied[i]
      /\ Append(replied, e)[n + 1] = e
  BY <1>1, <1>2, AppendProperties
<1>5. /\ replied' \in Seq(AnyReply) /\ Len(replied') = n + 1
      /\ \A i \in 1 .. n : replied'[i] = replied[i]
      /\ replied'[n + 1] = e
  BY <1>3, <1>4, Zenon
<1>6. \A i \in 1 .. n : ~replied[i].close
  <2>1. n > 0 => ~replied[n].close
    BY DEF Reply, Open
  <2>2. \A i \in 1 .. n : i \in 1 .. n - 1 \/ (i = n /\ n > 0)
    BY <1>1
  <2> QED
    BY <2>1, <2>2 DEF Promise
<1>7. /\ Len(replied') <= handled' /\ handled' - Len(replied') <= Limit
  BY <1>1, <1>3, <1>5 DEF Promise
<1>8. \A i \in 1 .. Len(replied') : replied'[i].id = i
  <2>1. \A i \in 1 .. n + 1 : i \in 1 .. n \/ i = n + 1
    BY <1>1
  <2> QED
    BY <1>2, <1>5, <2>1 DEF Promise
<1>9. \A i \in 1 .. Len(replied') - 1 : ~replied'[i].close
  <2>1. \A i \in 1 .. Len(replied') - 1 : i \in 1 .. n
    BY <1>1, <1>5
  <2> QED
    BY <1>5, <1>6, <2>1
<1> QED
  BY <1>1, <1>3, <1>5, <1>7, <1>8, <1>9 DEF Promise

(* Whoever implements OrderedReplies replies to the requests in their      *)
(* order, once each, with at most Limit unanswered, and ends with the      *)
(* reply that closes.                                                      *)
THEOREM PromiseKept ==
    ASSUME Limit \in Nat
    PROVE  Spec => []Promise
<1>1. Init => Promise
  BY PromiseInit
<1>2. Promise /\ [Next]_<<handled, replied>> => Promise'
  <2>1. Promise /\ UNCHANGED <<handled, replied>> => Promise'
    BY DEF Promise
  <2> QED
    BY <2>1, HandleKeeps, ReplyKeeps DEF Next
<1> QED
  BY <1>1, <1>2, PTL DEF Spec
=============================================================================
