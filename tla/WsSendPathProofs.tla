-------------------------- MODULE WsSendPathProofs --------------------------
(***************************************************************************)
(* Proofs about WsSendPath, for any senders, messages, sizes and limits:   *)
(* an inductive invariant, the safety properties it implies, and that the  *)
(* send path implements WsFifo.                                            *)
(***************************************************************************)
EXTENDS WsSendPath, SequenceTheorems, WsInduction, TLAPS

(***************************************************************************)
(* What Weight computes, by induction over the list: its definition is a   *)
(* recursive function, of which the provers know nothing until it is shown *)
(* to exist and to be the only one.                                        *)
(***************************************************************************)

\* f holds the sizes of the prefixes of q: the function that Weight defines.
PrefixSums(q, f) ==
  f = [n \in 0..Len(q) |-> IF n = 0 THEN 0 ELSE f[n - 1] + Size[q[n]]]

LEMMA SumStep ==
  ASSUME NEW q, NEW f, PrefixSums(q, f), NEW n \in 0..Len(q)
  PROVE  f[n] = IF n = 0 THEN 0 ELSE f[n - 1] + Size[q[n]]
<1> DEFINE F == [k \in 0..Len(q) |-> IF k = 0 THEN 0 ELSE f[k - 1] + Size[q[k]]]
<1>1. f = F
  BY DEF PrefixSums
<1>2. F[n] = IF n = 0 THEN 0 ELSE f[n - 1] + Size[q[n]]
  OBVIOUS
<1> HIDE DEF F
<1> QED BY <1>1, <1>2

\* By induction on the length of a prefix, the sums exist and are naturals.
LEMMA SumsExist ==
  ASSUME NEW q \in Seq(Messages)
  PROVE  \E f \in [0..Len(q) -> Nat] : PrefixSums(q, f)
<1> DEFINE UpTo(f, k) ==
      \A n \in 0..k : f[n] = IF n = 0 THEN 0 ELSE f[n - 1] + Size[q[n]]
<1> DEFINE S == {k \in 0..Len(q) : \E f \in [0..Len(q) -> Nat] : UpTo(f, k)}
<1>1. Len(q) \in Nat /\ \A n \in 1..Len(q) : Size[q[n]] \in Nat
  BY SizesAssumption
<1>2. 0 \in S
  <2> DEFINE z == [n \in 0..Len(q) |-> 0]
  <2>1. z \in [0..Len(q) -> Nat]
    OBVIOUS
  <2>2. z[0] = 0
    BY <1>1
  <2> HIDE DEF z
  <2>3. UpTo(z, 0)
    BY <2>2
  <2>4. \E f \in [0..Len(q) -> Nat] : UpTo(f, 0)
    BY <2>1, <2>3
  <2> QED BY <1>1, <2>4
<1>3. ASSUME NEW k \in 0..Len(q), k < Len(q), k \in S PROVE k + 1 \in S
  <2>1. PICK f \in [0..Len(q) -> Nat] : UpTo(f, k)
    BY <1>3
  <2> DEFINE g == [f EXCEPT ![k + 1] = f[k] + Size[q[k + 1]]]
  <2>2. k + 1 \in 1..Len(q) /\ f[k] \in Nat
    BY <1>1, <1>3
  <2>3. g \in [0..Len(q) -> Nat]
    BY <1>1, <2>2
  <2>4. \A n \in 0..k : g[n] = f[n]
    BY <1>1, <2>2
  <2>5. g[k + 1] = f[k] + Size[q[k + 1]]
    BY <1>1, <2>2
  <2> HIDE DEF g
  <2>6. ASSUME NEW n \in 0..(k + 1)
        PROVE  g[n] = IF n = 0 THEN 0 ELSE g[n - 1] + Size[q[n]]
    <3>1. CASE n = k + 1
      BY <1>1, <2>2, <2>4, <2>5, <3>1
    <3>2. CASE n \in 1..k
      <4>1. n \in 0..k /\ n - 1 \in 0..k /\ n # 0
        BY <1>1, <3>2
      <4> QED BY <2>1, <2>4, <4>1
    <3>3. CASE n = 0
      BY <2>1, <2>4, <3>3
    <3> QED BY <1>1, <3>1, <3>2, <3>3
  <2> QED BY <2>2, <2>3, <2>6
<1> HIDE DEF S
<1>4. 0..Len(q) \subseteq S
  BY <1>1, <1>2, <1>3, BoundedInduction
<1>5. Len(q) \in S
  BY <1>1, <1>4
<1>6. PICK f \in [0..Len(q) -> Nat] : UpTo(f, Len(q))
  BY <1>5 DEF S
<1>7. PrefixSums(q, f)
  BY <1>6 DEF PrefixSums
<1> QED BY <1>7

\* By the same induction, they are unique.
LEMMA SumsUnique ==
  ASSUME NEW q \in Seq(Messages), NEW f, NEW g, PrefixSums(q, f), PrefixSums(q, g)
  PROVE  f = g
<1> DEFINE S == {k \in 0..Len(q) : f[k] = g[k]}
<1>1. Len(q) \in Nat
  OBVIOUS
<1>2. 0 \in S
  BY <1>1, SumStep
<1>3. ASSUME NEW k \in 0..Len(q), k < Len(q), k \in S PROVE k + 1 \in S
  <2>1. k + 1 \in 0..Len(q) /\ k + 1 # 0 /\ (k + 1) - 1 = k
    BY <1>1, <1>3
  <2>2. f[k + 1] = f[k] + Size[q[k + 1]] /\ g[k + 1] = g[k] + Size[q[k + 1]]
    BY <2>1, SumStep
  <2> QED BY <1>3, <2>1, <2>2
<1>4. 0..Len(q) \subseteq S
  <2> HIDE DEF S
  <2> QED BY <1>1, <1>2, <1>3, BoundedInduction
<1>5. \A n \in 0..Len(q) : f[n] = g[n]
  BY <1>4
<1>6. \A n \in 1..Len(q) : n - 1 \in 0..Len(q)
  BY <1>1
<1>7. \A n \in 0..Len(q) : n # 0 => f[n - 1] = g[n - 1]
  BY <1>1, <1>5
<1> QED BY <1>5, <1>7 DEF PrefixSums

\* So the last of the sums is the weight, whoever names them.
LEMMA WeightIsLast ==
  ASSUME NEW q \in Seq(Messages), NEW f, PrefixSums(q, f)
  PROVE  Weight(q) = f[Len(q)]
<1>1. \A g : PrefixSums(q, g) => g = f
  BY SumsUnique
<1> QED BY <1>1 DEF Weight, PrefixSums

LEMMA WeightType == ASSUME NEW q \in Seq(Messages) PROVE Weight(q) \in Nat
<1>1. PICK f \in [0..Len(q) -> Nat] : PrefixSums(q, f)
  BY SumsExist
<1>2. Len(q) \in 0..Len(q)
  OBVIOUS
<1> QED BY <1>1, <1>2, WeightIsLast

\* What the flush, enqueue and WRITEABLE do to the weight.
LEMMA WeightEmpty == Weight(<<>>) = 0
<1>1. <<>> \in Seq(Messages) /\ Len(<<>>) = 0
  BY EmptySeq
<1>2. PICK f \in [0..Len(<<>>) -> Nat] : PrefixSums(<<>>, f)
  BY <1>1, SumsExist
<1>3. 0 \in 0..Len(<<>>)
  BY <1>1
<1>4. f[0] = 0
  BY <1>2, <1>3, SumStep
<1> QED BY <1>1, <1>2, <1>4, WeightIsLast

LEMMA WeightAppend ==
  ASSUME NEW q \in Seq(Messages), NEW m \in Messages
  PROVE  Weight(Append(q, m)) = Weight(q) + Size[m]
<1> DEFINE r == Append(q, m)
<1>1. /\ r \in Seq(Messages) /\ Len(r) = Len(q) + 1 /\ Len(q) \in Nat
      /\ r[Len(q) + 1] = m /\ \A n \in 1..Len(q) : r[n] = q[n]
  OBVIOUS
<1> HIDE DEF r
<1>2. PICK f \in [0..Len(r) -> Nat] : PrefixSums(r, f)
  BY <1>1, SumsExist
<1> DEFINE g == [n \in 0..Len(q) |-> f[n]]
<1>3. PrefixSums(q, g)
  <2>1. ASSUME NEW n \in 0..Len(q)
        PROVE  f[n] = IF n = 0 THEN 0 ELSE g[n - 1] + Size[q[n]]
    <3>1. n \in 0..Len(r)
      BY <1>1
    <3>2. f[n] = IF n = 0 THEN 0 ELSE f[n - 1] + Size[r[n]]
      BY <1>2, <3>1, SumStep
    <3>3. n # 0 => n - 1 \in 0..Len(q) /\ r[n] = q[n]
      BY <1>1
    <3> QED BY <3>2, <3>3
  <2> QED BY <2>1 DEF PrefixSums
<1>4. Weight(q) = f[Len(q)]
  BY <1>1, <1>3, WeightIsLast
<1>5. Weight(r) = f[Len(q) + 1]
  BY <1>1, <1>2, WeightIsLast
<1>6. Len(q) + 1 \in 0..Len(r) /\ Len(q) + 1 # 0 /\ (Len(q) + 1) - 1 = Len(q)
  BY <1>1
<1>7. f[Len(q) + 1] = f[Len(q)] + Size[m]
  BY <1>1, <1>2, <1>6, SumStep
<1> QED BY <1>4, <1>5, <1>7 DEF r

LEMMA WeightTail ==
  ASSUME NEW q \in Seq(Messages), q # <<>>
  PROVE  Weight(q) = Size[Head(q)] + Weight(Tail(q))
<1> DEFINE r == Tail(q)
<1>1. /\ Len(q) \in Nat \ {0} /\ Head(q) = q[1] /\ Head(q) \in Messages
      /\ r \in Seq(Messages) /\ Len(r) = Len(q) - 1
      /\ \A n \in 1..Len(r) : r[n] = q[n + 1]
  BY EmptySeq, HeadTailProperties
<1> HIDE DEF r
<1>2. PICK f \in [0..Len(q) -> Nat] : PrefixSums(q, f)
  BY SumsExist
<1>3. f[1] = Size[Head(q)]
  <2>1. 1 \in 0..Len(q) /\ 0 \in 0..Len(q)
    BY <1>1
  <2>2. f[1] = f[0] + Size[q[1]] /\ f[0] = 0
    BY <1>2, <2>1, SumStep
  <2> QED BY <1>1, <2>2, SizesAssumption
<1> DEFINE g == [n \in 0..Len(r) |-> f[n + 1] - f[1]]
<1>4. PrefixSums(r, g)
  <2>1. ASSUME NEW n \in 0..Len(r)
        PROVE  f[n + 1] - f[1] = IF n = 0 THEN 0 ELSE g[n - 1] + Size[r[n]]
    <3>1. n + 1 \in 0..Len(q) /\ 1 \in 0..Len(q) /\ n + 1 # 0 /\ (n + 1) - 1 = n
      BY <1>1
    <3>2. CASE n = 0
      BY <1>2, <3>1, <3>2
    <3>3. CASE n # 0
      <4>1. f[n + 1] = f[n] + Size[q[n + 1]]
        BY <1>2, <3>1, SumStep
      <4>2. n - 1 \in 0..Len(r) /\ (n - 1) + 1 = n /\ n \in 1..Len(r)
        BY <1>1, <3>3
      <4>3. g[n - 1] = f[n] - f[1] /\ r[n] = q[n + 1]
        BY <1>1, <4>2
      <4>4. n \in 0..Len(q) /\ n + 1 \in 1..Len(q)
        BY <1>1, <4>2
      <4>5. f[n] \in Nat /\ f[1] \in Nat /\ Size[q[n + 1]] \in Nat
        BY <3>1, <4>4, SizesAssumption
      <4> HIDE DEF g
      <4> QED BY <3>3, <4>1, <4>3, <4>5
    <3> QED BY <3>2, <3>3
  <2> QED BY <2>1 DEF PrefixSums
<1>5. Weight(r) = f[Len(q)] - f[1]
  <2>1. Weight(r) = g[Len(r)]
    BY <1>1, <1>4, WeightIsLast
  <2>2. Len(r) \in 0..Len(r) /\ Len(r) + 1 = Len(q)
    BY <1>1
  <2> QED BY <2>1, <2>2
<1>6. Weight(q) = f[Len(q)]
  BY <1>2, WeightIsLast
<1>7. f[Len(q)] \in Nat /\ f[1] \in Nat
  BY <1>1
<1> QED BY <1>3, <1>5, <1>6, <1>7 DEF r

-----------------------------------------------------------------------------
\* The lock is held exactly by the sender between its check and its append; what
\* it checked still holds there, and stop has not yet flushed.
LockOK ==
  /\ \A t \in Senders : pc[t] = "append" <=> holder = t
  /\ \A t \in Senders : pc[t] = "append" => Room(arg[t]) /\ stop # "done"

\* A message is in flight exactly while the service thread writes it; stopping
\* is set by the first step of the stop; connections need the context, and
\* callbacks that may end with -1 a connection.
PlacesOK ==
  /\ at = "write" <=> node # None
  /\ stopping <=> stop # "no"
  /\ up => ctx
  /\ at # "poll" => up

IInv == /\ TypeOK /\ CountersExact /\ LockOK /\ PlacesOK
        /\ LimitsKept /\ StoppedEmpty /\ NoLostWakeup

LEMMA InitInv == Init => IInv
<1> SUFFICES ASSUME Init PROVE IInv
  OBVIOUS
<1>1. QueueTyped
  BY EmptySeq DEF Init, QueueTyped
<1>2. FlagsTyped
  BY Zenon DEF Init, Link!Init, FlagsTyped
<1>3. PlacesTyped
  BY DEF Init, Link!Init, PlacesTyped
<1>4. CountersExact /\ LockOK /\ PlacesOK
  BY NoneAssumption, WeightEmpty
     DEF Init, Link!Init, CountersExact, LockOK, PlacesOK
<1>5. LimitsKept /\ StoppedEmpty /\ NoLostWakeup
  BY LimitsAssumption, WeightEmpty
     DEF Init, Link!Init, LimitsKept, StoppedEmpty, NoLostWakeup
<1> QED BY <1>1, <1>2, <1>3, <1>4, <1>5 DEF IInv, TypeOK

-----------------------------------------------------------------------------
(***************************************************************************)
(* One lemma per action: first the conjuncts it does not touch, then one   *)
(* step for each that it might disturb.                                    *)
(***************************************************************************)
LEMMA SendInv == ASSUME IInv, NEW t \in Senders, NEW m \in Messages, Send(t, m)
                 PROVE  IInv'
<1>1. QueueTyped' /\ FlagsTyped' /\ CountersExact' /\ PlacesOK' /\ LimitsKept'
  BY DEF IInv, TypeOK, QueueTyped, FlagsTyped, CountersExact, PlacesOK, LimitsKept,
         Send, queueVars, pingVars, stopVars, linkVars, wakeVars, svcVars
<1>2. PlacesTyped'
  BY DEF IInv, TypeOK, PlacesTyped, Send, queueVars, pingVars, stopVars,
         linkVars, wakeVars, svcVars
<1>3. LockOK'
  BY NoneAssumption DEF IInv, TypeOK, LockOK, PlacesTyped, PlacesOK, Room,
         Send, queueVars, pingVars, stopVars, linkVars, wakeVars, svcVars
<1>4. StoppedEmpty'
  BY DEF IInv, TypeOK, StoppedEmpty, PlacesTyped, LockOK, PlacesOK, Send,
         queueVars, pingVars, stopVars, linkVars, wakeVars, svcVars
<1>5. NoLostWakeup'
  BY DEF IInv, TypeOK, NoLostWakeup, QueueTyped, PlacesTyped, FlagsTyped,
         PlacesOK, Announced, Send, queueVars, pingVars, stopVars, linkVars,
         wakeVars, svcVars
<1> QED BY <1>1, <1>2, <1>3, <1>4, <1>5 DEF IInv, TypeOK

LEMMA EnqCheckInv == ASSUME IInv, NEW t \in Senders, EnqCheck(t) PROVE IInv'
<1>1. QueueTyped' /\ FlagsTyped' /\ CountersExact' /\ PlacesOK' /\ LimitsKept'
  BY DEF IInv, TypeOK, QueueTyped, FlagsTyped, CountersExact, PlacesOK, LimitsKept,
         EnqCheck, queueVars, pingVars, stopVars, linkVars, wakeVars, svcVars
<1>2. PlacesTyped'
  BY DEF IInv, TypeOK, PlacesTyped, EnqCheck, queueVars, pingVars, stopVars,
         linkVars, wakeVars, svcVars
<1>3. LockOK'
  BY NoneAssumption DEF IInv, TypeOK, LockOK, PlacesTyped, PlacesOK, Room,
         EnqCheck, queueVars, pingVars, stopVars, linkVars, wakeVars, svcVars
<1>4. StoppedEmpty'
  BY DEF IInv, TypeOK, StoppedEmpty, PlacesTyped, LockOK, PlacesOK, EnqCheck,
         queueVars, pingVars, stopVars, linkVars, wakeVars, svcVars
<1>5. NoLostWakeup'
  BY DEF IInv, TypeOK, NoLostWakeup, QueueTyped, PlacesTyped, FlagsTyped,
         PlacesOK, Announced, EnqCheck, queueVars, pingVars, stopVars,
         linkVars, wakeVars, svcVars
<1> QED BY <1>1, <1>2, <1>3, <1>4, <1>5 DEF IInv, TypeOK

LEMMA EnqAppendInv == ASSUME IInv, NEW t \in Senders, EnqAppend(t) PROVE IInv'
<1>1. FlagsTyped' /\ PlacesOK'
  BY DEF IInv, TypeOK, FlagsTyped, PlacesOK, EnqAppend, Behind, pingVars,
         stopVars, linkVars, wakeVars, svcVars
<1>2. QueueTyped'
  BY SizesAssumption DEF IInv, TypeOK, QueueTyped, PlacesTyped, PlacesOK,
         EnqAppend, Behind, pingVars, stopVars, linkVars, wakeVars, svcVars
<1>3. PlacesTyped'
  BY DEF IInv, TypeOK, PlacesTyped, EnqAppend, Behind, pingVars, stopVars,
         linkVars, wakeVars, svcVars
<1>4. CountersExact'
  <2>1. queue \in Seq(Messages) /\ arg[t] \in Messages
    BY DEF IInv, TypeOK, QueueTyped, PlacesTyped, EnqAppend
  <2>2. Weight(queue') = Weight(queue) + Size[arg[t]]
    BY <2>1, WeightAppend DEF EnqAppend, Behind
  <2> QED BY <2>1, <2>2 DEF IInv, CountersExact, EnqAppend, Behind
<1>5. LockOK'
  BY NoneAssumption DEF IInv, TypeOK, LockOK, PlacesTyped, PlacesOK, Room,
         EnqAppend, Behind, pingVars, stopVars, linkVars, wakeVars, svcVars
<1>6. LimitsKept'
  <2>1. Room(arg[t]) /\ arg[t] \in Messages
    BY DEF IInv, TypeOK, PlacesTyped, LockOK, EnqAppend
  <2>2. bytes + Size[arg[t]] = Weight(queue') /\ msgs + 1 = Len(queue')
    BY <1>4 DEF CountersExact, EnqAppend
  <2>3. msgs \in Nat
    BY DEF IInv, TypeOK, QueueTyped
  <2> QED BY <2>1, <2>2, <2>3, LimitsAssumption DEF LimitsKept, Room
<1>7. StoppedEmpty'
  BY DEF IInv, TypeOK, StoppedEmpty, PlacesTyped, LockOK, PlacesOK, EnqAppend,
         Behind, pingVars, stopVars, linkVars, wakeVars, svcVars
<1>8. NoLostWakeup'
  BY DEF IInv, TypeOK, NoLostWakeup, QueueTyped, PlacesTyped, FlagsTyped,
         PlacesOK, Announced, EnqAppend, Behind, pingVars, stopVars, linkVars,
         wakeVars, svcVars
<1> QED BY <1>1, <1>2, <1>3, <1>4, <1>5, <1>6, <1>7, <1>8 DEF IInv, TypeOK

LEMMA EnqWakeInv == ASSUME IInv, NEW t \in Senders, EnqWake(t) PROVE IInv'
<1>1. QueueTyped' /\ CountersExact' /\ PlacesOK' /\ LimitsKept'
  BY DEF IInv, TypeOK, QueueTyped, CountersExact, PlacesOK, LimitsKept,
         EnqWake, Link!Wake, queueVars, pingVars, svcVars
<1>2. PlacesTyped'
  BY DEF IInv, TypeOK, PlacesTyped, EnqWake, Link!Wake, queueVars, pingVars,
         svcVars
<1>3. FlagsTyped'
  BY DEF IInv, TypeOK, FlagsTyped, EnqWake, Link!Wake, queueVars, pingVars,
         svcVars
<1>4. LockOK'
  BY NoneAssumption DEF IInv, TypeOK, LockOK, PlacesTyped, PlacesOK, Room,
         EnqWake, Link!Wake, queueVars, pingVars, svcVars
<1>5. StoppedEmpty'
  BY DEF IInv, TypeOK, StoppedEmpty, PlacesTyped, LockOK, PlacesOK, EnqWake,
         Link!Wake, queueVars, pingVars, svcVars
<1>6. NoLostWakeup'
  BY DEF IInv, TypeOK, NoLostWakeup, QueueTyped, PlacesTyped, FlagsTyped,
         PlacesOK, Announced, EnqWake, Link!Wake, queueVars, pingVars, svcVars
<1> QED BY <1>1, <1>2, <1>3, <1>4, <1>5, <1>6 DEF IInv, TypeOK

LEMMA StopBeginInv == ASSUME IInv, StopBegin PROVE IInv'
<1>1. QueueTyped' /\ CountersExact' /\ LimitsKept' /\ NoLostWakeup'
  BY DEF IInv, TypeOK, QueueTyped, CountersExact, LimitsKept, NoLostWakeup,
         Announced, StopBegin, Link!StopBegins, queueVars, pingVars, sendVars,
         svcVars
<1>2. PlacesTyped'
  BY DEF IInv, TypeOK, PlacesTyped, StopBegin, Link!StopBegins, queueVars,
         pingVars, sendVars, svcVars
<1>3. FlagsTyped'
  BY DEF IInv, TypeOK, FlagsTyped, StopBegin, Link!StopBegins, queueVars,
         pingVars, sendVars, svcVars
<1>4. LockOK'
  BY NoneAssumption DEF IInv, TypeOK, LockOK, PlacesTyped, PlacesOK, Room,
         StopBegin, Link!StopBegins, queueVars, pingVars, sendVars, svcVars
<1>5. PlacesOK'
  BY NoneAssumption DEF IInv, TypeOK, PlacesOK, QueueTyped, PlacesTyped,
         FlagsTyped, StopBegin, Link!StopBegins, queueVars, pingVars, sendVars,
         svcVars
<1>6. StoppedEmpty'
  BY DEF IInv, TypeOK, StoppedEmpty, PlacesTyped, LockOK, PlacesOK, StopBegin,
         Link!StopBegins, queueVars, pingVars, sendVars, svcVars
<1> QED BY <1>1, <1>2, <1>3, <1>4, <1>5, <1>6 DEF IInv, TypeOK

LEMMA StopLookInv == ASSUME IInv, StopLook PROVE IInv'
<1>1. QueueTyped' /\ CountersExact' /\ LimitsKept'
  BY DEF IInv, TypeOK, QueueTyped, CountersExact, LimitsKept, StopLook,
         Link!StopLooks, queueVars, pingVars, sendVars, svcVars
<1>2. PlacesTyped'
  BY DEF IInv, TypeOK, PlacesTyped, StopLook, Link!StopLooks, queueVars,
         pingVars, sendVars, svcVars
<1>3. FlagsTyped'
  BY DEF IInv, TypeOK, FlagsTyped, StopLook, Link!StopLooks, queueVars,
         pingVars, sendVars, svcVars
<1>4. LockOK'
  BY NoneAssumption DEF IInv, TypeOK, LockOK, PlacesTyped, PlacesOK, Room,
         StopLook, Link!StopLooks, queueVars, pingVars, sendVars, svcVars
<1>5. PlacesOK'
  BY NoneAssumption DEF IInv, TypeOK, PlacesOK, QueueTyped, PlacesTyped,
         FlagsTyped, StopLook, Link!StopLooks, queueVars, pingVars, sendVars,
         svcVars
<1>6. StoppedEmpty'
  BY DEF IInv, TypeOK, StoppedEmpty, PlacesTyped, LockOK, PlacesOK, StopLook,
         Link!StopLooks, queueVars, pingVars, sendVars, svcVars
<1>7. NoLostWakeup'
  BY DEF IInv, TypeOK, NoLostWakeup, QueueTyped, PlacesTyped, FlagsTyped,
         PlacesOK, Announced, StopLook, Link!StopLooks, queueVars, pingVars,
         sendVars, svcVars
<1> QED BY <1>1, <1>2, <1>3, <1>4, <1>5, <1>6, <1>7 DEF IInv, TypeOK

LEMMA StopFlushInv == ASSUME IInv, StopFlush PROVE IInv'
<1>1. FlagsTyped'
  BY DEF IInv, TypeOK, FlagsTyped, StopFlush, Link!StopReturns, Flush,
         LockFree, pingVars, sendVars, svcVars
<1>2. QueueTyped'
  BY SizesAssumption DEF IInv, TypeOK, QueueTyped, PlacesTyped, PlacesOK,
         StopFlush, Link!StopReturns, Flush, LockFree, pingVars, sendVars,
         svcVars
<1>3. PlacesTyped'
  BY DEF IInv, TypeOK, PlacesTyped, StopFlush, Link!StopReturns, Flush,
         LockFree, pingVars, sendVars, svcVars
<1>4. CountersExact'
  BY WeightEmpty, EmptySeq DEF CountersExact, StopFlush, Link!StopReturns,
         Flush
<1>5. LockOK'
  BY NoneAssumption DEF IInv, TypeOK, LockOK, PlacesTyped, PlacesOK, Room,
         StopFlush, Link!StopReturns, Flush, LockFree, pingVars, sendVars,
         svcVars
<1>6. PlacesOK'
  BY NoneAssumption DEF IInv, TypeOK, PlacesOK, QueueTyped, PlacesTyped,
         FlagsTyped, StopFlush, Link!StopReturns, Flush, LockFree, pingVars,
         sendVars, svcVars
<1>7. LimitsKept'
  BY WeightEmpty, EmptySeq, LimitsAssumption DEF LimitsKept, StopFlush,
         Link!StopReturns, Flush
<1>8. StoppedEmpty'
  BY NoneAssumption DEF IInv, TypeOK, StoppedEmpty, PlacesTyped, LockOK,
         PlacesOK, StopFlush, Link!StopReturns, Flush, LockFree, pingVars,
         sendVars, svcVars
<1>9. NoLostWakeup'
  BY DEF IInv, TypeOK, NoLostWakeup, QueueTyped, PlacesTyped, FlagsTyped,
         PlacesOK, Announced, StopFlush, Link!StopReturns, Flush, LockFree,
         pingVars, sendVars, svcVars
<1> QED BY <1>1, <1>2, <1>3, <1>4, <1>5, <1>6, <1>7, <1>8, <1>9 DEF IInv,
                                                                    TypeOK

LEMMA PoolStartInv == ASSUME IInv, PoolStart PROVE IInv'
<1>1. /\ QueueTyped' /\ PlacesTyped' /\ CountersExact' /\ LockOK'
      /\ LimitsKept' /\ StoppedEmpty' /\ NoLostWakeup'
  BY DEF IInv, TypeOK, QueueTyped, PlacesTyped, CountersExact, LockOK,
         LimitsKept, StoppedEmpty, NoLostWakeup, Room, Announced, PoolStart,
         Link!Open, queueVars, pingVars, sendVars, svcVars
<1>2. FlagsTyped'
  BY DEF IInv, TypeOK, FlagsTyped, PoolStart, Link!Open, queueVars, pingVars,
         sendVars, svcVars
<1>3. PlacesOK'
  BY NoneAssumption DEF IInv, TypeOK, PlacesOK, QueueTyped, PlacesTyped,
         FlagsTyped, PoolStart, Link!Open, queueVars, pingVars, sendVars,
         svcVars
<1> QED BY <1>1, <1>2, <1>3 DEF IInv, TypeOK

LEMMA ContextGoneInv == ASSUME IInv, ContextGone PROVE IInv'
<1>1. /\ QueueTyped' /\ PlacesTyped' /\ CountersExact' /\ LockOK'
      /\ LimitsKept' /\ StoppedEmpty'
  BY DEF IInv, TypeOK, QueueTyped, PlacesTyped, CountersExact, LockOK,
         LimitsKept, StoppedEmpty, Room, ContextGone, Link!Close, queueVars,
         sendVars, svcVars
<1>2. FlagsTyped'
  BY DEF IInv, TypeOK, FlagsTyped, ContextGone, Link!Close, svcVars
<1>3. PlacesOK' /\ NoLostWakeup'
  BY DEF IInv, PlacesOK, NoLostWakeup, ContextGone, Link!Close, svcVars
<1> QED BY <1>1, <1>2, <1>3 DEF IInv, TypeOK

LEMMA OtherWakeInv == ASSUME IInv, OtherWake PROVE IInv'
<1>1. /\ QueueTyped' /\ PlacesTyped' /\ CountersExact' /\ LockOK'
      /\ PlacesOK' /\ LimitsKept' /\ StoppedEmpty'
  BY DEF IInv, TypeOK, QueueTyped, PlacesTyped, CountersExact, LockOK,
         PlacesOK, LimitsKept, StoppedEmpty, Room, OtherWake, Link!Wake,
         queueVars, sendVars, svcVars
<1>2. FlagsTyped'
  BY DEF IInv, TypeOK, FlagsTyped, OtherWake, Link!Wake, pingVars, svcVars
<1>3. NoLostWakeup'
  BY DEF IInv, TypeOK, FlagsTyped, NoLostWakeup, Announced, OtherWake,
         Link!Wake, queueVars, sendVars, svcVars
<1> QED BY <1>1, <1>2, <1>3 DEF IInv, TypeOK

LEMMA EstablishedInv == ASSUME IInv, Established PROVE IInv'
<1>1. /\ QueueTyped' /\ PlacesTyped' /\ CountersExact' /\ LockOK'
      /\ LimitsKept' /\ StoppedEmpty'
  BY DEF IInv, TypeOK, QueueTyped, PlacesTyped, CountersExact, LockOK,
         LimitsKept, StoppedEmpty, Room, Established, Link!Up, queueVars,
         sendVars, svcVars
<1>2. FlagsTyped'
  BY DEF IInv, TypeOK, FlagsTyped, Established, Link!Up, queueVars, sendVars,
         svcVars
<1>3. PlacesOK'
  BY NoneAssumption DEF IInv, TypeOK, PlacesOK, QueueTyped, PlacesTyped,
         FlagsTyped, Established, Link!Up, queueVars, sendVars, svcVars
<1>4. NoLostWakeup'
  BY DEF IInv, TypeOK, NoLostWakeup, QueueTyped, PlacesTyped, FlagsTyped,
         PlacesOK, Announced, Established, Link!Up, queueVars, sendVars,
         svcVars
<1> QED BY <1>1, <1>2, <1>3, <1>4 DEF IInv, TypeOK

LEMMA ClosedInv == ASSUME IInv, Closed PROVE IInv'
<1>1. /\ QueueTyped' /\ PlacesTyped' /\ CountersExact' /\ LockOK'
      /\ LimitsKept' /\ StoppedEmpty'
  BY DEF IInv, TypeOK, QueueTyped, PlacesTyped, CountersExact, LockOK,
         LimitsKept, StoppedEmpty, Room, Closed, Disconnect, Link!Down,
         queueVars, sendVars, svcVars
<1>2. FlagsTyped'
  BY DEF IInv, TypeOK, FlagsTyped, Closed, Disconnect, Link!Down, queueVars,
         sendVars, svcVars
<1>3. PlacesOK'
  BY NoneAssumption DEF IInv, TypeOK, PlacesOK, QueueTyped, PlacesTyped,
         FlagsTyped, Closed, Disconnect, Link!Down, queueVars, sendVars,
         svcVars
<1>4. NoLostWakeup'
  BY DEF IInv, TypeOK, NoLostWakeup, QueueTyped, PlacesTyped, FlagsTyped,
         PlacesOK, Announced, Closed, Disconnect, Link!Down, queueVars,
         sendVars, svcVars
<1> QED BY <1>1, <1>2, <1>3, <1>4 DEF IInv, TypeOK

LEMMA WaitCancelledInv == ASSUME IInv, WaitCancelled PROVE IInv'
<1>1. QueueTyped' /\ CountersExact' /\ LockOK' /\ LimitsKept' /\ StoppedEmpty'
  BY DEF IInv, TypeOK, QueueTyped, CountersExact, LockOK, LimitsKept,
         StoppedEmpty, Room, WaitCancelled, Link!Serve, Request, queueVars,
         pingVars, sendVars
<1>2. PlacesTyped'
  BY DEF IInv, TypeOK, PlacesTyped, WaitCancelled, Link!Serve, Request,
         queueVars, pingVars, sendVars
<1>3. FlagsTyped'
  BY DEF IInv, TypeOK, FlagsTyped, WaitCancelled, Link!Serve, Request,
         queueVars, pingVars, sendVars
<1>4. PlacesOK'
  BY NoneAssumption DEF IInv, TypeOK, PlacesOK, QueueTyped, PlacesTyped,
         FlagsTyped, WaitCancelled, Link!Serve, Request, queueVars, pingVars,
         sendVars
<1>5. NoLostWakeup'
  BY DEF IInv, TypeOK, NoLostWakeup, QueueTyped, PlacesTyped, FlagsTyped,
         PlacesOK, Announced, WaitCancelled, Link!Serve, Request, queueVars,
         pingVars, sendVars
<1> QED BY <1>1, <1>2, <1>3, <1>4, <1>5 DEF IInv, TypeOK

LEMMA ScanInv == ASSUME IInv, Scan PROVE IInv'
<1>1. QueueTyped' /\ CountersExact' /\ LockOK' /\ LimitsKept' /\ StoppedEmpty'
  BY DEF IInv, TypeOK, QueueTyped, CountersExact, LockOK, LimitsKept, StoppedEmpty,
         Room, Scan, RequestIf, LockFree, queueVars, pingVars, sendVars,
         stopVars, linkVars
<1>2. PlacesTyped'
  BY DEF IInv, TypeOK, PlacesTyped, Scan, RequestIf, LockFree, queueVars,
         pingVars, sendVars, stopVars, linkVars
<1>3. FlagsTyped'
  BY DEF IInv, TypeOK, FlagsTyped, Scan, RequestIf, LockFree, queueVars,
         pingVars, sendVars, stopVars, linkVars
<1>4. PlacesOK'
  BY NoneAssumption DEF IInv, TypeOK, PlacesOK, QueueTyped, PlacesTyped,
         FlagsTyped, Scan, RequestIf, LockFree, queueVars, pingVars, sendVars,
         stopVars, linkVars
<1>5. NoLostWakeup'
  BY DEF IInv, TypeOK, NoLostWakeup, QueueTyped, PlacesTyped, FlagsTyped,
         PlacesOK, Announced, Scan, RequestIf, LockFree, queueVars, pingVars,
         sendVars, stopVars, linkVars
<1> QED BY <1>1, <1>2, <1>3, <1>4, <1>5 DEF IInv, TypeOK

LEMMA WritePingInv == ASSUME IInv, WritePing PROVE IInv'
<1>1. QueueTyped' /\ CountersExact' /\ LockOK' /\ LimitsKept' /\ StoppedEmpty'
  BY DEF IInv, TypeOK, QueueTyped, CountersExact, LockOK, LimitsKept, StoppedEmpty,
         Room, WritePing, queueVars, sendVars, stopVars, linkVars
<1>2. PlacesTyped'
  BY DEF IInv, TypeOK, PlacesTyped, WritePing, queueVars, sendVars, stopVars,
         linkVars
<1>3. FlagsTyped'
  BY DEF IInv, TypeOK, FlagsTyped, WritePing, queueVars, sendVars, stopVars,
         linkVars
<1>4. PlacesOK'
  BY NoneAssumption DEF IInv, TypeOK, PlacesOK, QueueTyped, PlacesTyped,
         FlagsTyped, WritePing, queueVars, sendVars, stopVars, linkVars
<1>5. NoLostWakeup'
  BY DEF IInv, TypeOK, NoLostWakeup, QueueTyped, PlacesTyped, FlagsTyped,
         PlacesOK, Announced, WritePing, queueVars, sendVars, stopVars,
         linkVars
<1> QED BY <1>1, <1>2, <1>3, <1>4, <1>5 DEF IInv, TypeOK

LEMMA PingDoneInv == ASSUME IInv, PingDone PROVE IInv'
<1>1. QueueTyped' /\ CountersExact' /\ LockOK' /\ LimitsKept' /\ StoppedEmpty'
  BY DEF IInv, TypeOK, QueueTyped, CountersExact, LockOK, LimitsKept, StoppedEmpty,
         Room, PingDone, RequestIf, LockFree, HasData, queueVars, pingVars,
         sendVars, stopVars, linkVars
<1>2. PlacesTyped'
  BY DEF IInv, TypeOK, PlacesTyped, PingDone, RequestIf, LockFree, HasData,
         queueVars, pingVars, sendVars, stopVars, linkVars
<1>3. FlagsTyped'
  BY DEF IInv, TypeOK, FlagsTyped, PingDone, RequestIf, LockFree, HasData,
         queueVars, pingVars, sendVars, stopVars, linkVars
<1>4. PlacesOK'
  BY NoneAssumption DEF IInv, TypeOK, PlacesOK, QueueTyped, PlacesTyped,
         FlagsTyped, PingDone, RequestIf, LockFree, HasData, queueVars,
         pingVars, sendVars, stopVars, linkVars
<1>5. NoLostWakeup'
  BY DEF IInv, TypeOK, NoLostWakeup, QueueTyped, PlacesTyped, FlagsTyped,
         PlacesOK, Announced, PingDone, RequestIf, LockFree, HasData,
         queueVars, pingVars, sendVars, stopVars, linkVars
<1> QED BY <1>1, <1>2, <1>3, <1>4, <1>5 DEF IInv, TypeOK

LEMMA DequeueInv == ASSUME IInv, Dequeue PROVE IInv'
<1>1. CASE queue = <<>>
  <2>1. /\ QueueTyped' /\ PlacesTyped' /\ CountersExact' /\ LockOK' /\ PlacesOK'
        /\ LimitsKept' /\ StoppedEmpty'
    BY <1>1 DEF IInv, TypeOK, QueueTyped, PlacesTyped, CountersExact, LockOK,
                Room, PlacesOK, LimitsKept, StoppedEmpty, Dequeue, queueVars,
                sendVars, stopVars, linkVars
  <2>2. FlagsTyped' /\ NoLostWakeup'
    BY <1>1 DEF IInv, TypeOK, FlagsTyped, NoLostWakeup, Dequeue, queueVars,
                pingVars, stopVars, linkVars
  <2> QED BY <2>1, <2>2 DEF IInv, TypeOK
<1>2. CASE queue # <<>>
  <2>1. /\ queue' = Tail(queue) /\ node' = Head(queue) /\ at' = "write"
        /\ msgs' = msgs - 1 /\ bytes' = bytes - Size[Head(queue)]
        /\ more' = (Len(queue) > 1) /\ at = "poll" /\ up
        /\ UNCHANGED <<pingVars, sendVars, stopVars, linkVars, cancel, silent,
                       written>>
    BY <1>2 DEF Dequeue, MoreLeft
  <2>2. /\ queue \in Seq(Messages) /\ Len(queue) \in Nat \ {0}
        /\ msgs = Len(queue) /\ bytes = Weight(queue) /\ bytes \in Int
    BY <1>2, EmptySeq DEF IInv, TypeOK, QueueTyped, CountersExact
  <2>3. /\ Head(queue) \in Messages /\ Tail(queue) \in Seq(Messages)
        /\ Len(Tail(queue)) = Len(queue) - 1
    BY <1>2, <2>2, HeadTailProperties
  <2>4. Size[Head(queue)] \in Nat
    BY <2>3, SizesAssumption
  <2>5. /\ Weight(queue) = Size[Head(queue)] + Weight(queue')
         /\ Weight(queue') \in Nat
    BY <1>2, <2>1, <2>2, <2>3, WeightTail, WeightType
  <2>6. QueueTyped' /\ CountersExact'
    BY <2>1, <2>2, <2>3, <2>4, <2>5 DEF IInv, TypeOK, QueueTyped, CountersExact
  <2>7. PlacesTyped' /\ FlagsTyped'
    <3>1. PlacesTyped'
      BY <2>1 DEF IInv, TypeOK, PlacesTyped, sendVars, stopVars
    <3>2. more' \in BOOLEAN /\ writable' = FALSE
      BY <2>1 DEF Dequeue
    <3>3. FlagsTyped'
      BY <2>1, <3>2 DEF IInv, TypeOK, FlagsTyped, pingVars, stopVars, linkVars
    <3> QED BY <3>1, <3>3
  <2>8. LockOK'
    BY <2>1, <2>2, <2>4, SizesAssumption, LimitsAssumption, NoneAssumption
       DEF IInv, TypeOK, PlacesTyped, LockOK, Room, Dequeue, LockFree,
           sendVars, stopVars
  <2>9. PlacesOK' /\ StoppedEmpty'
    BY <1>2, <2>1, <2>3, NoneAssumption DEF IInv, PlacesOK, StoppedEmpty,
                                            stopVars, linkVars, sendVars
  <2>10. LimitsKept'
    BY <2>1, <2>2, <2>3, <2>4, <2>5, LimitsAssumption DEF IInv, LimitsKept
  <2>11. NoLostWakeup'
    <3>1. CASE Len(queue) > 1
      BY <2>1, <3>1 DEF NoLostWakeup, Announced
    <3>2. CASE ~(Len(queue) > 1)
      <4>1. Tail(queue) = <<>>
        BY <2>2, <2>3, <3>2, EmptySeq
      <4> QED BY <2>1, <4>1 DEF NoLostWakeup
    <3> QED BY <3>1, <3>2
  <2> QED BY <2>6, <2>7, <2>8, <2>9, <2>10, <2>11 DEF IInv, TypeOK
<1> QED BY <1>1, <1>2

LEMMA WriteInv == ASSUME IInv, Write PROVE IInv'
<1>1. CountersExact' /\ LockOK' /\ LimitsKept' /\ StoppedEmpty'
  BY DEF IInv, CountersExact, LockOK, LimitsKept, StoppedEmpty, Room, Write,
         RequestIf, queueVars, pingVars, sendVars, stopVars, linkVars
<1>2. QueueTyped'
  BY SizesAssumption DEF IInv, TypeOK, QueueTyped, PlacesTyped, PlacesOK,
         Write, RequestIf, queueVars, pingVars, sendVars, stopVars, linkVars
<1>3. PlacesTyped'
  BY DEF IInv, TypeOK, PlacesTyped, Write, RequestIf, queueVars, pingVars,
         sendVars, stopVars, linkVars
<1>4. FlagsTyped'
  BY DEF IInv, TypeOK, FlagsTyped, Write, RequestIf, queueVars, pingVars,
         sendVars, stopVars, linkVars
<1>5. PlacesOK'
  BY NoneAssumption DEF IInv, TypeOK, PlacesOK, QueueTyped, PlacesTyped,
         FlagsTyped, Write, RequestIf, queueVars, pingVars, sendVars, stopVars,
         linkVars
<1>6. NoLostWakeup'
  BY DEF IInv, TypeOK, NoLostWakeup, QueueTyped, PlacesTyped, FlagsTyped,
         PlacesOK, Announced, Write, RequestIf, queueVars, pingVars, sendVars,
         stopVars, linkVars
<1> QED BY <1>1, <1>2, <1>3, <1>4, <1>5, <1>6 DEF IInv, TypeOK

LEMMA WriteFailsInv == ASSUME IInv, WriteFails PROVE IInv'
<1>1. CountersExact' /\ LockOK' /\ LimitsKept' /\ StoppedEmpty'
  BY DEF IInv, CountersExact, LockOK, LimitsKept, StoppedEmpty, Room,
         WriteFails, Disconnect, Link!Down, queueVars, sendVars
<1>2. QueueTyped'
  BY SizesAssumption DEF IInv, TypeOK, QueueTyped, PlacesTyped, PlacesOK,
         WriteFails, Disconnect, Link!Down, queueVars, sendVars
<1>3. PlacesTyped'
  BY DEF IInv, TypeOK, PlacesTyped, WriteFails, Disconnect, Link!Down,
         queueVars, sendVars
<1>4. FlagsTyped'
  BY DEF IInv, TypeOK, FlagsTyped, WriteFails, Disconnect, Link!Down,
         queueVars, sendVars
<1>5. PlacesOK'
  BY NoneAssumption DEF IInv, TypeOK, PlacesOK, QueueTyped, PlacesTyped,
         FlagsTyped, WriteFails, Disconnect, Link!Down, queueVars, sendVars
<1>6. NoLostWakeup'
  BY DEF IInv, TypeOK, NoLostWakeup, QueueTyped, PlacesTyped, FlagsTyped,
         PlacesOK, Announced, WriteFails, Disconnect, Link!Down, queueVars,
         sendVars
<1> QED BY <1>1, <1>2, <1>3, <1>4, <1>5, <1>6 DEF IInv, TypeOK

LEMMA TickInv == ASSUME IInv, Tick PROVE IInv'
<1>1. QueueTyped' /\ CountersExact' /\ LockOK' /\ LimitsKept' /\ StoppedEmpty'
  BY DEF IInv, TypeOK, QueueTyped, CountersExact, LockOK, LimitsKept, StoppedEmpty,
         Room, Tick, queueVars, sendVars, stopVars, linkVars, wakeVars
<1>2. PlacesTyped'
  BY DEF IInv, TypeOK, PlacesTyped, Tick, queueVars, sendVars, stopVars,
         linkVars, wakeVars
<1>3. FlagsTyped'
  BY DEF IInv, TypeOK, FlagsTyped, Tick, queueVars, sendVars, stopVars,
         linkVars, wakeVars
<1>4. PlacesOK'
  BY NoneAssumption DEF IInv, TypeOK, PlacesOK, QueueTyped, PlacesTyped,
         FlagsTyped, Tick, queueVars, sendVars, stopVars, linkVars, wakeVars
<1>5. NoLostWakeup'
  BY DEF IInv, TypeOK, NoLostWakeup, QueueTyped, PlacesTyped, FlagsTyped,
         PlacesOK, Announced, Tick, queueVars, sendVars, stopVars, linkVars,
         wakeVars
<1> QED BY <1>1, <1>2, <1>3, <1>4, <1>5 DEF IInv, TypeOK

LEMMA OwnTickInv == ASSUME IInv, OwnTick PROVE IInv'
<1>1. QueueTyped' /\ CountersExact' /\ LockOK' /\ LimitsKept' /\ StoppedEmpty'
  BY DEF IInv, TypeOK, QueueTyped, CountersExact, LockOK, LimitsKept, StoppedEmpty,
         Room, OwnTick, Rearmed, queueVars, sendVars, stopVars, linkVars,
         wakeVars
<1>2. PlacesTyped'
  BY DEF IInv, TypeOK, PlacesTyped, OwnTick, Rearmed, queueVars, sendVars,
         stopVars, linkVars, wakeVars
<1>3. FlagsTyped'
  BY DEF IInv, TypeOK, FlagsTyped, OwnTick, Rearmed, queueVars, sendVars,
         stopVars, linkVars, wakeVars
<1>4. PlacesOK'
  BY NoneAssumption DEF IInv, TypeOK, PlacesOK, QueueTyped, PlacesTyped,
         FlagsTyped, OwnTick, Rearmed, queueVars, sendVars, stopVars, linkVars,
         wakeVars
<1>5. NoLostWakeup'
  BY DEF IInv, TypeOK, NoLostWakeup, QueueTyped, PlacesTyped, FlagsTyped,
         PlacesOK, Announced, OwnTick, Rearmed, queueVars, sendVars, stopVars,
         linkVars, wakeVars
<1> QED BY <1>1, <1>2, <1>3, <1>4, <1>5 DEF IInv, TypeOK

LEMMA AskPingInv == ASSUME IInv, AskPing PROVE IInv'
<1>1. QueueTyped' /\ CountersExact' /\ LockOK' /\ LimitsKept' /\ StoppedEmpty'
  BY DEF IInv, TypeOK, QueueTyped, CountersExact, LockOK, LimitsKept, StoppedEmpty,
         Room, AskPing, Request, Rearmed, queueVars, sendVars, stopVars,
         linkVars
<1>2. PlacesTyped'
  BY DEF IInv, TypeOK, PlacesTyped, AskPing, Request, Rearmed, queueVars,
         sendVars, stopVars, linkVars
<1>3. FlagsTyped'
  BY DEF IInv, TypeOK, FlagsTyped, AskPing, Request, Rearmed, queueVars,
         sendVars, stopVars, linkVars
<1>4. PlacesOK'
  BY NoneAssumption DEF IInv, TypeOK, PlacesOK, QueueTyped, PlacesTyped,
         FlagsTyped, AskPing, Request, Rearmed, queueVars, sendVars, stopVars,
         linkVars
<1>5. NoLostWakeup'
  BY DEF IInv, TypeOK, NoLostWakeup, QueueTyped, PlacesTyped, FlagsTyped,
         PlacesOK, Announced, AskPing, Request, Rearmed, queueVars, sendVars,
         stopVars, linkVars
<1> QED BY <1>1, <1>2, <1>3, <1>4, <1>5 DEF IInv, TypeOK

LEMMA PongTimeoutInv == ASSUME IInv, PongTimeout PROVE IInv'
<1>1. QueueTyped' /\ CountersExact' /\ LockOK' /\ LimitsKept' /\ StoppedEmpty'
  BY DEF IInv, TypeOK, QueueTyped, CountersExact, LockOK, LimitsKept,
         StoppedEmpty, Room, PongTimeout, Disconnect, Link!Down, queueVars,
         sendVars
<1>2. PlacesTyped'
  BY DEF IInv, TypeOK, PlacesTyped, PongTimeout, Disconnect, Link!Down,
         queueVars, sendVars
<1>3. FlagsTyped'
  BY DEF IInv, TypeOK, FlagsTyped, PongTimeout, Disconnect, Link!Down,
         queueVars, sendVars
<1>4. PlacesOK'
  BY NoneAssumption DEF IInv, TypeOK, PlacesOK, QueueTyped, PlacesTyped,
         FlagsTyped, PongTimeout, Disconnect, Link!Down, queueVars, sendVars
<1>5. NoLostWakeup'
  BY DEF IInv, TypeOK, NoLostWakeup, QueueTyped, PlacesTyped, FlagsTyped,
         PlacesOK, Announced, PongTimeout, Disconnect, Link!Down, queueVars,
         sendVars
<1> QED BY <1>1, <1>2, <1>3, <1>4, <1>5 DEF IInv, TypeOK

LEMMA PongInv == ASSUME IInv, Pong PROVE IInv'
<1>1. /\ QueueTyped' /\ PlacesTyped' /\ CountersExact' /\ LockOK'
      /\ PlacesOK' /\ LimitsKept' /\ StoppedEmpty' /\ NoLostWakeup'
  BY DEF IInv, TypeOK, QueueTyped, PlacesTyped, CountersExact, LockOK, PlacesOK,
         LimitsKept, StoppedEmpty, NoLostWakeup, Room, Announced, Pong,
         queueVars, sendVars, stopVars, linkVars, wakeVars, svcVars
<1>2. FlagsTyped'
  BY DEF IInv, TypeOK, FlagsTyped, Pong, queueVars, sendVars, stopVars,
         linkVars, wakeVars, svcVars
<1> QED BY <1>1, <1>2 DEF IInv, TypeOK

LEMMA NextInv == ASSUME IInv, [Next]_vars PROVE IInv'
<1>1. CASE UNCHANGED vars
  BY <1>1 DEF vars, queueVars, pingVars, sendVars, stopVars, linkVars,
              wakeVars, svcVars,
              IInv, TypeOK, QueueTyped, PlacesTyped, FlagsTyped, CountersExact,
              LockOK, Room,
              PlacesOK, LimitsKept, StoppedEmpty, NoLostWakeup, Announced
<1>2. ASSUME NEW t \in Senders, SendStep(t) PROVE IInv'
  BY <1>2, SendInv, EnqCheckInv, EnqAppendInv, EnqWakeInv DEF SendStep
<1>3. CASE StopStep
  BY <1>3, StopBeginInv, StopLookInv, StopFlushInv DEF StopStep
<1>4. CASE WriteStep
  BY <1>4, WritePingInv, PingDoneInv, DequeueInv, WriteInv,
     WriteFailsInv DEF WriteStep
<1>5. CASE Tick \/ TickStep \/ Pong
  BY <1>5, TickInv, OwnTickInv, AskPingInv, PongTimeoutInv,
     PongInv DEF TickStep
<1>6. CASE PoolStep \/ Established \/ Closed \/ WaitCancelled \/ Scan
  BY <1>6, PoolStartInv, ContextGoneInv, OtherWakeInv, EstablishedInv,
     ClosedInv, WaitCancelledInv, ScanInv DEF PoolStep
<1> QED BY <1>1, <1>2, <1>3, <1>4, <1>5, <1>6 DEF Next, ServiceStep

-----------------------------------------------------------------------------
\* The invariant is inductive and holds initially.
THEOREM SendInvariance == Spec => []IInv
BY InitInv, NextInv, PTL DEF Spec

\* Type correctness of the send path.
THEOREM TypeCorrect == Spec => []TypeOK
<1>1. IInv => TypeOK
  BY DEF IInv
<1> QED BY <1>1, SendInvariance, PTL

\* q_msgs and q_bytes count exactly what the list holds, for lists of any length
\* and messages of any size.
THEOREM CountersHold == Spec => []CountersExact
<1>1. IInv => CountersExact
  BY DEF IInv
<1> QED BY <1>1, SendInvariance, PTL

\* A queue on an established connection is announced, except for a queue the
\* connection came up on.
THEOREM WakeupNotLost == Spec => []NoLostWakeup
<1>1. IInv => NoLostWakeup
  BY DEF IInv
<1> QED BY <1>1, SendInvariance, PTL

-----------------------------------------------------------------------------
(***************************************************************************)
(* Refinement.  Only five actions are visible in WsFifo.                   *)
(***************************************************************************)
LEMMA FifoSend == ASSUME IInv, NEW t \in Senders, SendStep(t)
                  PROVE  [Fifo!Next]_(Fifo!fifoVars)
<1>1. CASE \E m \in Messages : Send(t, m)
  BY <1>1 DEF Send, queueVars, stopVars, svcVars, Fifo!fifoVars
<1>2. CASE EnqCheck(t)
  BY <1>2 DEF EnqCheck, queueVars, stopVars, svcVars, Fifo!fifoVars
<1>3. CASE EnqAppend(t)
  <2>1. /\ arg[t] \in Messages
        /\ stop # "done"
        /\ MaxMsgs = 0 \/ Len(queue) < MaxMsgs
    BY <1>3 DEF EnqAppend, IInv, TypeOK, PlacesTyped, CountersExact, LockOK, Room
  <2>2. Fifo!Put(arg[t])
    BY <1>3, <2>1 DEF EnqAppend, Behind, stopVars, svcVars, Fifo!Put
  <2> QED BY <2>1, <2>2 DEF Fifo!Next
<1>4. CASE EnqWake(t)
  BY <1>4 DEF EnqWake, Link!Wake, queueVars, svcVars, Fifo!fifoVars
<1> QED BY <1>1, <1>2, <1>3, <1>4 DEF SendStep

LEMMA FifoStop == ASSUME IInv, StopStep PROVE [Fifo!Next]_(Fifo!fifoVars)
<1>1. CASE StopBegin
  BY <1>1 DEF StopBegin, Link!StopBegins, queueVars, svcVars, Fifo!fifoVars
<1>2. CASE StopLook
  BY <1>2 DEF StopLook, Link!StopLooks, queueVars, svcVars, Fifo!fifoVars
<1>3. CASE StopFlush
  BY <1>3 DEF StopFlush, Link!StopReturns, Flush, svcVars, Fifo!Next,
              Fifo!Shut
<1> QED BY <1>1, <1>2, <1>3 DEF StopStep

LEMMA FifoWrite == ASSUME IInv, WriteStep PROVE [Fifo!Next]_(Fifo!fifoVars)
<1>1. CASE WritePing
  BY <1>1 DEF WritePing, queueVars, stopVars, Fifo!fifoVars
<1>2. CASE PingDone
  BY <1>2 DEF PingDone, queueVars, stopVars, Fifo!fifoVars
<1>3. CASE Dequeue /\ queue = <<>>
  BY <1>3 DEF Dequeue, queueVars, stopVars, Fifo!fifoVars
<1>4. CASE Dequeue /\ queue # <<>>
  <2>1. node = None
    BY <1>4 DEF Dequeue, IInv, PlacesOK
  <2> QED BY <1>4, <2>1 DEF Dequeue, stopVars, Fifo!Next, Fifo!Take
<1>5. CASE Write
  BY <1>5 DEF Write, IInv, PlacesOK, queueVars, stopVars, Fifo!Next,
              Fifo!Deliver
<1>6. CASE WriteFails
  BY <1>6 DEF WriteFails, Disconnect, Link!Down, IInv, PlacesOK,
              queueVars, Fifo!Next, Fifo!Lose
<1> QED BY <1>1, <1>2, <1>3, <1>4, <1>5, <1>6 DEF WriteStep

\* Everything else is invisible to the application's view of the queue.
LEMMA FifoOther ==
  ASSUME IInv,
         \/ PoolStep \/ Established \/ Closed \/ WaitCancelled \/ Scan
         \/ Tick \/ TickStep \/ Pong
  PROVE  UNCHANGED Fifo!fifoVars
<1> USE DEF queueVars, svcVars, Fifo!fifoVars
<1>1. CASE PoolStep
  BY <1>1 DEF PoolStep, PoolStart, ContextGone, OtherWake, Link!Open,
              Link!Close, Link!Wake
<1>2. CASE Established \/ Closed \/ PongTimeout
  BY <1>2 DEF Established, Closed, PongTimeout, Disconnect, Link!Up, Link!Down
<1>3. CASE WaitCancelled
  BY <1>3 DEF WaitCancelled, Link!Serve
<1>4. CASE Scan \/ Tick \/ OwnTick \/ AskPing \/ Pong
  BY <1>4 DEF Scan, Tick, OwnTick, AskPing, Pong, stopVars
<1> QED BY <1>1, <1>2, <1>3, <1>4 DEF TickStep

\* The client's queue is a bounded FIFO with one reader: every accepted message
\* is written in the order of acceptance, or lost with the write that failed, or
\* dropped by the stop.
THEOREM ImplementsFifo == Spec => FifoSpec
<1>1. Init => Fifo!Init
  BY DEF Init, Link!Init, Fifo!Init
<1>2. ASSUME IInv, [Next]_vars PROVE [Fifo!Next]_(Fifo!fifoVars)
  <2>1. CASE UNCHANGED vars
    BY <2>1 DEF vars, queueVars, stopVars, svcVars, Fifo!fifoVars
  <2>2. CASE Next
    BY <1>2, <2>2, FifoSend, FifoStop, FifoWrite, FifoOther DEF Next,
                                                                ServiceStep
  <2> QED BY <1>2, <2>1, <2>2
<1> QED BY <1>1, <1>2, SendInvariance, PTL DEF Spec, FifoSpec, Fifo!Spec

-----------------------------------------------------------------------------
(***************************************************************************)
(* No message is written twice.  A second layer: what is anywhere was      *)
(* offered, and what a sender brings is nowhere yet and brought by no      *)
(* other.                                                                  *)
(***************************************************************************)
Brings(t, m)  == pc[t] \in {"enter", "append"} /\ arg[t] = m
Somewhere(m)  == Contains(queue, m) \/ Contains(written, m) \/ node = m
OnceInv ==
  /\ AtMostOnce
  /\ \A m \in Messages : Somewhere(m) => m \in offered
  /\ \A t \in Senders, m \in Messages :
       Brings(t, m) => m \in offered /\ ~Somewhere(m)
  /\ \A t, u \in Senders, m \in Messages : Brings(t, m) /\ Brings(u, m) => t = u

\* What a sequence holds after the two things that happen to one.
LEMMA ContainsAppend ==
  ASSUME NEW s \in Seq(Messages), NEW m \in Messages
  PROVE  /\ \A k \in Messages : Contains(Append(s, m), k) <=> Contains(s, k) \/ k = m
         /\ IsInjective(s) /\ ~Contains(s, m) => IsInjective(Append(s, m))
<1> DEFINE r == Append(s, m)
<1>1. /\ Len(r) = Len(s) + 1 /\ Len(s) \in Nat
      /\ r[Len(s) + 1] = m
      /\ \A i \in 1..Len(s) : r[i] = s[i]
  OBVIOUS
<1>2. \A i : i \in 1..Len(r) <=> i \in 1..Len(s) \/ i = Len(s) + 1
  BY <1>1
<1> HIDE DEF r
<1>3. \A k \in Messages : Contains(r, k) <=> Contains(s, k) \/ k = m
  BY <1>1, <1>2 DEF Contains
<1>4. IsInjective(s) /\ ~Contains(s, m) => IsInjective(r)
  BY <1>1, <1>2 DEF IsInjective, Contains
<1> QED BY <1>3, <1>4 DEF r

LEMMA ContainsTail ==
  ASSUME NEW s \in Seq(Messages), s # <<>>, IsInjective(s)
  PROVE  /\ IsInjective(Tail(s)) /\ ~Contains(Tail(s), Head(s))
         /\ \A k \in Messages : Contains(s, k) <=> Contains(Tail(s), k) \/ k = Head(s)
<1> DEFINE r == Tail(s)
<1>1. /\ Len(s) \in Nat /\ Len(s) >= 1 /\ Len(r) = Len(s) - 1 /\ Head(s) = s[1]
      /\ DOMAIN s = 1..Len(s) /\ DOMAIN r = 1..Len(r)
      /\ \A i \in 1..Len(r) : r[i] = s[i + 1]
  BY EmptySeq, HeadTailProperties
<1>2. /\ \A i \in 1..Len(r) : i + 1 \in 1..Len(s) /\ i + 1 # 1
      /\ \A i, j \in 1..Len(r) : i + 1 = j + 1 => i = j
      /\ 1 \in 1..Len(s)
  BY <1>1
<1> HIDE DEF r
<1>3. \A i \in 1..Len(s) : i # 1 => i - 1 \in 1..Len(r) /\ r[i - 1] = s[i]
  BY <1>1
<1>4. IsInjective(r)
  <2>1. ASSUME NEW i \in 1..Len(r), NEW j \in 1..Len(r), r[i] = r[j] PROVE i = j
    <3>1. s[i + 1] = s[j + 1] /\ i + 1 \in DOMAIN s /\ j + 1 \in DOMAIN s
      BY <1>1, <1>2, <2>1
    <3>2. i + 1 = j + 1
      BY <3>1 DEF IsInjective
    <3> QED BY <1>2, <3>2
  <2> QED BY <1>1, <2>1 DEF IsInjective
<1>5. ~Contains(r, Head(s))
  <2>1. \A i \in 1..Len(r) : s[i + 1] # s[1]
    BY <1>1, <1>2 DEF IsInjective
  <2> QED BY <1>1, <2>1 DEF Contains
<1>6. \A k \in Messages : Contains(s, k) <=> Contains(r, k) \/ k = Head(s)
  BY <1>1, <1>2, <1>3 DEF Contains
<1> QED BY <1>4, <1>5, <1>6 DEF r

\* An empty queue, before the first message and after the flush.
LEMMA ContainsEmpty == IsInjective(<<>>) /\ \A m : ~Contains(<<>>, m)
BY DEF IsInjective, Contains

LEMMA OnceSend ==
  ASSUME IInv, OnceInv, NEW t \in Senders, SendStep(t)
  PROVE  OnceInv'
<1>1. arg \in [Senders -> Messages \cup {None}]
      /\ DOMAIN pc = Senders
  BY DEF IInv, TypeOK, PlacesTyped
<1>2. ASSUME NEW m \in Messages, Send(t, m) PROVE OnceInv'
  <2>1. AtMostOnce' /\ \A k \in Messages : Somewhere(k)' <=> Somewhere(k)
    BY <1>2 DEF Send, OnceInv, AtMostOnce, Somewhere, queueVars, svcVars
  <2>2. m \notin offered /\ offered' = offered \cup {m}
    BY <1>2 DEF Send
  <2>3. \A u \in Senders, k \in Messages :
          Brings(u, k)' => Brings(u, k) \/ (u = t /\ k = m)
    BY <1>1, <1>2 DEF Send, Brings
  <2> QED BY <2>1, <2>2, <2>3 DEF OnceInv
<1>3. CASE EnqCheck(t)
  <2>1. AtMostOnce' /\ \A k \in Messages : Somewhere(k)' <=> Somewhere(k)
    BY <1>3 DEF EnqCheck, OnceInv, AtMostOnce, Somewhere, queueVars, svcVars
  <2>2. \A u \in Senders, k \in Messages : Brings(u, k)' => Brings(u, k)
    BY <1>1, <1>3 DEF EnqCheck, Brings
  <2> QED BY <1>3, <2>1, <2>2 DEF EnqCheck, OnceInv
<1>4. CASE EnqAppend(t)
  <2>1. /\ Brings(t, arg[t]) /\ arg[t] \in Messages
        /\ queue' = Append(queue, arg[t])
        /\ UNCHANGED <<node, written, offered>>
    BY <1>4 DEF EnqAppend, Behind, Brings, IInv, TypeOK, PlacesTyped, svcVars
  <2>2. queue \in Seq(Messages)
    BY DEF IInv, TypeOK, QueueTyped
  <2>3. /\ \A k \in Messages : Contains(queue', k) <=> Contains(queue, k) \/ k = arg[t]
        /\ IsInjective(queue) /\ ~Contains(queue, arg[t]) => IsInjective(queue')
    BY <2>1, <2>2, ContainsAppend
  <2>4. node \in Messages \cup {None}
    BY DEF IInv, TypeOK, QueueTyped
  <2>5. AtMostOnce'
    BY <2>1, <2>3, <2>4 DEF OnceInv, AtMostOnce, Somewhere
  <2>6. \A k \in Messages : Somewhere(k)' <=> Somewhere(k) \/ k = arg[t]
    BY <2>1, <2>3 DEF Somewhere
  <2>7. \A u \in Senders, k \in Messages : Brings(u, k)' => Brings(u, k) /\ u # t
    BY <1>1, <1>4 DEF EnqAppend, Brings
  <2> QED BY <2>1, <2>5, <2>6, <2>7 DEF OnceInv
<1>5. CASE EnqWake(t)
  <2>1. AtMostOnce' /\ \A k \in Messages : Somewhere(k)' <=> Somewhere(k)
    BY <1>5 DEF EnqWake, OnceInv, AtMostOnce, Somewhere, queueVars, svcVars
  <2>2. \A u \in Senders, k \in Messages : Brings(u, k)' => Brings(u, k)
    BY <1>1, <1>5 DEF EnqWake, Brings
  <2> QED BY <1>5, <2>1, <2>2 DEF EnqWake, OnceInv
<1> QED BY <1>2, <1>3, <1>4, <1>5 DEF SendStep

\* A step that moves neither the queue nor a sender.
LEMMA OnceSame ==
  ASSUME OnceInv, UNCHANGED <<queue, node, written, pc, arg, offered>>
  PROVE  OnceInv'
BY DEF OnceInv, AtMostOnce, Somewhere, Brings

LEMMA OnceStop == ASSUME OnceInv, StopStep PROVE OnceInv'
<1>1. CASE StopBegin \/ StopLook
  BY <1>1, OnceSame DEF StopBegin, StopLook, queueVars, sendVars, svcVars
<1>2. CASE StopFlush
  <2>1. queue' = <<>> /\ UNCHANGED <<node, written, pc, arg, offered>>
    BY <1>2 DEF StopFlush, Flush, sendVars, svcVars
  <2> QED BY <2>1, ContainsEmpty DEF OnceInv, AtMostOnce, Somewhere, Brings
<1> QED BY <1>1, <1>2 DEF StopStep

LEMMA OnceWrite == ASSUME IInv, OnceInv, WriteStep PROVE OnceInv'
<1>1. queue \in Seq(Messages) /\ written \in Seq(Messages)
  BY DEF IInv, TypeOK, QueueTyped
<1>2. CASE WritePing \/ PingDone \/ (Dequeue /\ queue = <<>>)
  BY <1>2, OnceSame DEF WritePing, PingDone, Dequeue, queueVars, sendVars
<1>3. CASE Dequeue /\ queue # <<>>
  <2>1. /\ node = None /\ node' = Head(queue) /\ queue' = Tail(queue)
        /\ UNCHANGED <<written, pc, arg, offered>>
    BY <1>3 DEF Dequeue, IInv, PlacesOK, sendVars
  <2>2. /\ IsInjective(queue') /\ ~Contains(queue', node')
        /\ \A k \in Messages : Contains(queue, k) <=> Contains(queue', k) \/ k = node'
    BY <1>1, <1>3, <2>1, ContainsTail DEF OnceInv, AtMostOnce
  <2>3. node' \in Messages /\ node \notin Messages
    BY <1>1, <1>3, <2>1, HeadTailProperties, NoneAssumption
  <2>4. AtMostOnce'
    BY <2>1, <2>2, <2>3 DEF OnceInv, AtMostOnce
  <2>5. \A k \in Messages : Somewhere(k)' <=> Somewhere(k)
    BY <2>1, <2>2, <2>3 DEF Somewhere
  <2> QED BY <2>1, <2>4, <2>5 DEF OnceInv, Brings
<1>4. CASE Write
  <2>1. /\ node # None /\ node' = None /\ written' = Append(written, node)
        /\ UNCHANGED <<queue, pc, arg, offered>>
    BY <1>4 DEF Write, IInv, PlacesOK, queueVars, sendVars
  <2>2. node \in Messages /\ node' \notin Messages
    BY <2>1, NoneAssumption DEF IInv, TypeOK, QueueTyped
  <2>3. /\ \A k \in Messages : Contains(written', k) <=> Contains(written, k) \/ k = node
        /\ IsInjective(written) /\ ~Contains(written, node) => IsInjective(written')
    BY <1>1, <2>1, <2>2, ContainsAppend
  <2>4. AtMostOnce'
    BY <2>1, <2>2, <2>3 DEF OnceInv, AtMostOnce
  <2>5. \A k \in Messages : Somewhere(k)' <=> Somewhere(k)
    BY <2>1, <2>2, <2>3 DEF Somewhere
  <2> QED BY <2>1, <2>4, <2>5 DEF OnceInv, Brings
<1>5. CASE WriteFails
  <2>1. node' = None /\ UNCHANGED <<queue, written, pc, arg, offered>>
    BY <1>5 DEF WriteFails, queueVars, sendVars
  <2>2. AtMostOnce' /\ \A k \in Messages : Somewhere(k)' => Somewhere(k)
    BY <2>1, NoneAssumption DEF OnceInv, AtMostOnce, Somewhere
  <2> QED BY <2>1, <2>2 DEF OnceInv, Brings
<1> QED BY <1>2, <1>3, <1>4, <1>5 DEF WriteStep

LEMMA OnceNext == IInv /\ OnceInv /\ [Next]_vars => OnceInv'
<1> SUFFICES ASSUME IInv, OnceInv, [Next]_vars PROVE OnceInv'
  OBVIOUS
<1>1. CASE UNCHANGED vars
  BY <1>1, OnceSame DEF vars, queueVars, sendVars, svcVars
<1>2. CASE \/ PoolStep \/ Established \/ Closed \/ WaitCancelled \/ Scan
           \/ Tick \/ TickStep \/ Pong
  <2>1. UNCHANGED <<queue, node, written, pc, arg, offered>>
    BY <1>2 DEF PoolStep, PoolStart, ContextGone, OtherWake, Established,
       Closed, WaitCancelled, Scan, Tick, TickStep, OwnTick, AskPing,
       PongTimeout, Pong, queueVars, sendVars, svcVars
  <2> QED BY <2>1, OnceSame
<1> QED BY <1>1, <1>2, OnceSend, OnceStop, OnceWrite DEF Next, ServiceStep

\* What the application sends once is written at most once, by any number of
\* senders and over any number of connections.
THEOREM WrittenOnce == Spec => []AtMostOnce
<1>1. Init => OnceInv
  BY ContainsEmpty, NoneAssumption DEF Init, OnceInv, AtMostOnce, Somewhere, Brings
<1>2. OnceInv => AtMostOnce
  BY DEF OnceInv
<1> QED BY <1>1, <1>2, OnceNext, SendInvariance, PTL DEF Spec

\* The limits of wsp_set_queue_limit are never exceeded, after the flush of
\* wsp_client_stop nothing is queued and nobody is about to, and what is queued is
\* nowhere else.
THEOREM QueueHolds == Spec => []QueueKept
<1>1. IInv /\ AtMostOnce => QueueKept
  BY DEF IInv, QueueKept
<1> QED BY <1>1, SendInvariance, WrittenOnce, PTL
=============================================================================
