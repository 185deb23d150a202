--------------------------- MODULE WsBacklogProofs --------------------------
(***************************************************************************)
(* Proofs about WsBacklog, which WsClientV1Proofs and WsClientV2Proofs     *)
(* show the two clients to implement.                                      *)
(***************************************************************************)
EXTENDS WsBacklog, SequenceTheorems, TLAPS

BacklogTyped == sent \in Nat /\ queue \in Seq(Nat) /\ node \in Nat

BInv == BacklogTyped /\ Gapless

LEMMA BacklogInit == Init => BInv
BY EmptySeq DEF Init, BInv, BacklogTyped, Gapless, Left

\* What each step does to the queue: the numbers that left, and those that wait.
LEMMA AcceptStep == ASSUME BInv, Accept PROVE BInv' /\ Left' = Left
<1>1. /\ sent \in Nat /\ queue \in Seq(Nat) /\ sent' = sent + 1
      /\ queue' = Append(queue, sent') /\ node' = node
  BY DEF BInv, BacklogTyped, Accept
<1>2. /\ queue' \in Seq(Nat) /\ Len(queue') = Len(queue) + 1
      /\ Len(queue) \in Nat /\ queue'[Len(queue) + 1] = sent + 1
      /\ \A i \in 1..Len(queue) : queue'[i] = queue[i]
  BY <1>1
<1>3. Left' = Left
  BY <1>1, <1>2 DEF Left
<1>4. ASSUME NEW i \in 1..Len(queue') PROVE queue'[i] = Left' + i
  <2>1. CASE i = Len(queue) + 1
    BY <1>1, <1>2, <1>3, <2>1 DEF Left
  <2>2. CASE i \in 1..Len(queue)
    BY <1>2, <1>3, <2>2 DEF BInv, Gapless
  <2> QED BY <1>2, <2>1, <2>2
<1>5. Len(queue') <= sent' /\ node' <= Left'
  BY <1>1, <1>2, <1>3 DEF BInv, Gapless
<1> QED BY <1>1, <1>2, <1>3, <1>4, <1>5 DEF BInv, BacklogTyped, Gapless

LEMMA TakeStep ==
  ASSUME BInv, Take PROVE BInv' /\ node' = Left + 1 /\ Left' = Left + 1
<1>1. /\ sent \in Nat /\ queue \in Seq(Nat) /\ queue # <<>> /\ sent' = sent
      /\ queue' = Tail(queue) /\ node' = Head(queue)
  BY DEF BInv, BacklogTyped, Take
<1>2. /\ queue' \in Seq(Nat) /\ Len(queue) \in Nat \ {0} /\ Head(queue) = queue[1]
      /\ Len(queue') = Len(queue) - 1
      /\ \A i \in 1..Len(queue') : queue'[i] = queue[i + 1]
  BY <1>1, EmptySeq, HeadTailProperties
<1>3. Left \in Nat /\ Left' = Left + 1
  BY <1>1, <1>2 DEF Left, BInv, Gapless
<1>4. node' = Left + 1
  BY <1>1, <1>2 DEF BInv, Gapless
<1>5. ASSUME NEW i \in 1..Len(queue') PROVE queue'[i] = Left' + i
  <2>1. i + 1 \in 1..Len(queue)
    BY <1>2
  <2>2. queue[i + 1] = Left + (i + 1)
    BY <2>1 DEF BInv, Gapless
  <2> QED BY <1>2, <1>3, <2>2
<1>6. Len(queue') <= sent' /\ node' <= Left'
  BY <1>1, <1>2, <1>3, <1>4 DEF BInv, Gapless
<1> QED BY <1>1, <1>2, <1>3, <1>4, <1>5, <1>6 DEF BInv, BacklogTyped, Gapless

LEMMA SettleStep == ASSUME BInv, Settle PROVE BInv' /\ Left' = Left
<1>1. Left' = Left /\ Left \in Nat
  BY DEF Settle, Left, BInv, BacklogTyped, Gapless
<1> QED BY <1>1 DEF BInv, BacklogTyped, Gapless, Settle

LEMMA DropAllStep == ASSUME BInv, DropAll PROVE BInv' /\ Left <= Left'
<1>1. Len(queue') = 0 /\ queue' \in Seq(Nat)
  BY EmptySeq DEF DropAll
<1> QED BY <1>1 DEF BInv, BacklogTyped, Gapless, DropAll, Left

LEMMA BacklogStep ==
  ASSUME BInv, Next
  PROVE  /\ BInv' /\ Left <= Left'
         /\ node' \notin {0, node} => node' = Left + 1 /\ Left' = Left + 1
<1>1. Left \in Nat
  BY DEF BInv, BacklogTyped, Gapless, Left
<1>2. CASE Accept
  BY <1>1, <1>2, AcceptStep DEF Accept
<1>3. CASE Take
  BY <1>1, <1>3, TakeStep
<1>4. CASE Settle
  BY <1>1, <1>4, SettleStep DEF Settle
<1>5. CASE DropAll
  BY <1>5, DropAllStep DEF DropAll
<1> QED BY <1>2, <1>3, <1>4, <1>5 DEF Next

\* The queue holds the messages accepted last, in order and without a gap; and
\* they leave it in that order, each at most once.
THEOREM BacklogOrder == Spec => []Gapless /\ InOrder
<1>1. ASSUME BInv, [Next]_backlogVars PROVE BInv'
  <2>1. CASE UNCHANGED backlogVars
    BY <1>1, <2>1 DEF backlogVars, BInv, BacklogTyped, Gapless, Left
  <2> QED BY <1>1, <2>1, BacklogStep
<1>2. ASSUME BInv, [Next]_backlogVars
      PROVE  [/\ Left <= Left'
              /\ node' \notin {0, node} => node' = Left + 1 /\ Left' = Left + 1]_backlogVars
  BY <1>2, BacklogStep
<1>3. BInv => Gapless
  BY DEF BInv
<1> QED BY <1>1, <1>2, <1>3, BacklogInit, PTL DEF Spec, InOrder
=============================================================================
