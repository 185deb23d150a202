-------------------------- MODULE WsClientV1Proofs --------------------------
(***************************************************************************)
(* Proofs about WsClientV1, for any senders, addresses, limit and delays:  *)
(* an inductive invariant, the safety properties it implies, and the       *)
(* back-off.                                                               *)
(***************************************************************************)
EXTENDS WsClientV1, SequenceTheorems, TLAPS

\* The places of the two threads: the service thread exists between its creation
\* and the join, the context between start and the end of the stop, and only a
\* stop makes the loop end.  A message is in flight only while it is written.
LifeOK ==
  /\ thread = "none" <=> main \in {"out", "opened", "joined", "gone"}
  /\ ctx <=> main \notin {"out", "gone"}
  /\ main \in {"stopping", "joining", "joined"} => stopping
  /\ thread \in {"flush", "ended"} => stopping
  /\ thread # "write" => node = 0

\* Connection and client: WRITEABLE works on a connection, a dial and a start find
\* none, and one that is established has state and delay as ESTABLISHED set them.
LinkOK ==
  /\ thread \in {"pinged", "write"} => wsi # None
  /\ thread = "dial" \/ main \in {"out", "opened", "gone"} \/ state = "RECONNECT_WAIT" => wsi = None
  /\ \A w \in Wsis : phase[w] = "open" /\ main # "joined" => state = "CONNECTED" /\ delay = InitDelay

IInv == /\ TypeOK /\ LifeOK /\ LinkOK
        /\ WsiExact /\ NotAbandoned /\ NoLostWakeup /\ NothingLeft

LEMMA InitInv == Init => IInv
<1> SUFFICES ASSUME Init PROVE IInv
  OBVIOUS
<1>1. PlacesTyped
  BY DelayAssumption DEF Init, PlacesTyped
<1>2. QueueTyped
  BY EmptySeq DEF Init, QueueTyped
<1>3. FlagsTyped
  BY Zenon DEF Init, FlagsTyped
<1>4. LifeOK /\ LinkOK /\ WsiExact
  BY NullAssumption DEF Init, LifeOK, LinkOK, WsiExact
<1>5. NotAbandoned /\ NoLostWakeup /\ NothingLeft
  BY DEF Init, NotAbandoned, NoLostWakeup, NothingLeft, Up
<1> QED BY <1>1, <1>2, <1>3, <1>4, <1>5 DEF IInv, TypeOK

-----------------------------------------------------------------------------
(***************************************************************************)
(* One lemma per action: first the conjuncts it does not touch, then one   *)
(* step for each that it might disturb.                                    *)
(***************************************************************************)
LEMMA EnqueueInv == ASSUME IInv, NEW t \in Senders, Enqueue(t) PROVE IInv'
<1>1. /\ PlacesTyped' /\ FlagsTyped' /\ LifeOK'
      /\ LinkOK' /\ WsiExact' /\ NotAbandoned'
  BY DEF IInv, TypeOK, PlacesTyped, FlagsTyped, LifeOK, LinkOK, WsiExact,
         NotAbandoned, Enqueue, Behind, Room, mainVars, linkVars, retryVars, pingVars,
         wakeVars, workVars
<1>2. QueueTyped'
  BY DEF IInv, TypeOK, QueueTyped, Enqueue, Behind, Room, mainVars, linkVars,
         retryVars, pingVars, wakeVars, workVars
<1>3. NoLostWakeup'
  BY NullAssumption DEF IInv, TypeOK, NoLostWakeup, PlacesTyped, QueueTyped,
         FlagsTyped, LifeOK, LinkOK, WsiExact, Announced, Up, Enqueue, Behind, Room,
         mainVars, linkVars, retryVars, pingVars, wakeVars, workVars
<1>4. NothingLeft'
  BY NullAssumption DEF IInv, TypeOK, NothingLeft, PlacesTyped, LifeOK, LinkOK,
         WsiExact, Up, Enqueue, Behind, Room, mainVars, linkVars, retryVars, pingVars,
         wakeVars, workVars
<1> QED BY <1>1, <1>2, <1>3, <1>4 DEF IInv, TypeOK

LEMMA WakeInv == ASSUME IInv, NEW t \in Senders, Wake(t) PROVE IInv'
<1>1. /\ PlacesTyped' /\ LifeOK' /\ LinkOK'
      /\ WsiExact' /\ NotAbandoned' /\ NothingLeft'
  BY DEF IInv, TypeOK, PlacesTyped, LifeOK, LinkOK, WsiExact, NotAbandoned,
         NothingLeft, Up, Wake, mainVars, linkVars, retryVars, pingVars,
         wakeVars, workVars
<1>2. QueueTyped'
  BY DEF IInv, TypeOK, QueueTyped, Wake, mainVars, linkVars, retryVars,
         pingVars, wakeVars, workVars
<1>3. FlagsTyped'
  BY DEF IInv, TypeOK, FlagsTyped, Wake, mainVars, linkVars, retryVars,
         pingVars, wakeVars, workVars
<1>4. NoLostWakeup'
  BY NullAssumption DEF IInv, TypeOK, NoLostWakeup, PlacesTyped, QueueTyped,
         FlagsTyped, LifeOK, LinkOK, WsiExact, Announced, Up, Wake, mainVars,
         linkVars, retryVars, pingVars, wakeVars, workVars
<1> QED BY <1>1, <1>2, <1>3, <1>4 DEF IInv, TypeOK

LEMMA SetReconnectInv == ASSUME IInv, SetReconnect PROVE IInv'
<1>1. /\ QueueTyped' /\ FlagsTyped' /\ LifeOK' /\ WsiExact'
      /\ NotAbandoned' /\ NoLostWakeup' /\ NothingLeft'
  BY DEF IInv, TypeOK, QueueTyped, FlagsTyped, LifeOK, WsiExact, NotAbandoned,
         NoLostWakeup, NothingLeft, Announced, Up, SetReconnect, mainVars,
         linkVars, pingVars, wakeVars, sendVars, workVars
<1>2. PlacesTyped'
  BY DelayAssumption DEF IInv, TypeOK, PlacesTyped, SetReconnect, mainVars,
         linkVars, pingVars, wakeVars, sendVars, workVars
<1>3. LinkOK'
  BY NullAssumption DEF IInv, TypeOK, LinkOK, PlacesTyped, LifeOK, WsiExact,
         SetReconnect, mainVars, linkVars, pingVars, wakeVars, sendVars,
         workVars
<1> QED BY <1>1, <1>2, <1>3 DEF IInv, TypeOK

LEMMA StartInv == ASSUME IInv, Start PROVE IInv'
<1>1. QueueTyped' /\ NoLostWakeup'
  BY DEF IInv, TypeOK, QueueTyped, NoLostWakeup, Announced, Up, Start,
         retryVars, pingVars, wakeVars, sendVars, workVars
<1>2. PlacesTyped'
  BY DelayAssumption DEF IInv, TypeOK, PlacesTyped, Start, retryVars, pingVars,
         wakeVars, sendVars, workVars
<1>3. FlagsTyped'
  BY DEF IInv, TypeOK, FlagsTyped, Start, retryVars, pingVars, wakeVars,
         sendVars, workVars
<1>4. LifeOK'
  BY DEF IInv, TypeOK, LifeOK, PlacesTyped, Start, retryVars, pingVars,
         wakeVars, sendVars, workVars
<1>5. LinkOK'
  BY NullAssumption DEF IInv, TypeOK, LinkOK, PlacesTyped, LifeOK, WsiExact,
         Start, retryVars, pingVars, wakeVars, sendVars, workVars
<1>6. WsiExact'
  BY NullAssumption DEF IInv, TypeOK, WsiExact, PlacesTyped, LifeOK, LinkOK,
         Start, retryVars, pingVars, wakeVars, sendVars, workVars
<1>7. NotAbandoned'
  BY DelayAssumption, NullAssumption DEF IInv, TypeOK, NotAbandoned,
         PlacesTyped, LifeOK, LinkOK, Start, retryVars, pingVars, wakeVars,
         sendVars, workVars
<1>8. NothingLeft'
  BY NullAssumption DEF IInv, TypeOK, NothingLeft, PlacesTyped, LifeOK, LinkOK,
         WsiExact, Up, Start, retryVars, pingVars, wakeVars, sendVars, workVars
<1> QED BY <1>1, <1>2, <1>3, <1>4, <1>5, <1>6, <1>7, <1>8 DEF IInv, TypeOK

LEMMA SpawnInv == ASSUME IInv, Spawn PROVE IInv'
<1>1. QueueTyped' /\ FlagsTyped'
  BY DEF IInv, TypeOK, QueueTyped, FlagsTyped, Spawn, linkVars, retryVars,
         pingVars, wakeVars, sendVars, workVars
<1>2. PlacesTyped'
  BY DelayAssumption DEF IInv, TypeOK, PlacesTyped, Spawn, linkVars, retryVars,
         pingVars, wakeVars, sendVars, workVars
<1>3. LifeOK'
  BY DEF IInv, TypeOK, LifeOK, PlacesTyped, Spawn, linkVars, retryVars,
         pingVars, wakeVars, sendVars, workVars
<1>4. LinkOK'
  BY NullAssumption DEF IInv, TypeOK, LinkOK, PlacesTyped, LifeOK, WsiExact,
         Spawn, linkVars, retryVars, pingVars, wakeVars, sendVars, workVars
<1>5. WsiExact'
  BY NullAssumption DEF IInv, TypeOK, WsiExact, PlacesTyped, LifeOK, LinkOK,
         Spawn, linkVars, retryVars, pingVars, wakeVars, sendVars, workVars
<1>6. NotAbandoned'
  BY DelayAssumption, NullAssumption DEF IInv, TypeOK, NotAbandoned,
         PlacesTyped, LifeOK, LinkOK, Spawn, linkVars, retryVars, pingVars,
         wakeVars, sendVars, workVars
<1>7. NoLostWakeup'
  BY NullAssumption DEF IInv, TypeOK, NoLostWakeup, PlacesTyped, QueueTyped,
         FlagsTyped, LifeOK, LinkOK, WsiExact, Announced, Up, Spawn, linkVars,
         retryVars, pingVars, wakeVars, sendVars, workVars
<1>8. NothingLeft'
  BY NullAssumption DEF IInv, TypeOK, NothingLeft, PlacesTyped, LifeOK, LinkOK,
         WsiExact, Up, Spawn, linkVars, retryVars, pingVars, wakeVars,
         sendVars, workVars
<1> QED BY <1>1, <1>2, <1>3, <1>4, <1>5, <1>6, <1>7, <1>8 DEF IInv, TypeOK

LEMMA SpawnFailsInv == ASSUME IInv, SpawnFails PROVE IInv'
<1>1. QueueTyped' /\ NotAbandoned'
  BY DEF IInv, TypeOK, QueueTyped, NotAbandoned, SpawnFails, linkVars,
         retryVars, pingVars, wakeVars, sendVars, workVars
<1>2. PlacesTyped'
  BY DelayAssumption DEF IInv, TypeOK, PlacesTyped, SpawnFails, linkVars,
         retryVars, pingVars, wakeVars, sendVars, workVars
<1>3. FlagsTyped'
  BY DEF IInv, TypeOK, FlagsTyped, SpawnFails, linkVars, retryVars, pingVars,
         wakeVars, sendVars, workVars
<1>4. LifeOK'
  BY DEF IInv, TypeOK, LifeOK, PlacesTyped, SpawnFails, linkVars, retryVars,
         pingVars, wakeVars, sendVars, workVars
<1>5. LinkOK'
  BY NullAssumption DEF IInv, TypeOK, LinkOK, PlacesTyped, LifeOK, WsiExact,
         SpawnFails, linkVars, retryVars, pingVars, wakeVars, sendVars,
         workVars
<1>6. WsiExact'
  BY NullAssumption DEF IInv, TypeOK, WsiExact, PlacesTyped, LifeOK, LinkOK,
         SpawnFails, linkVars, retryVars, pingVars, wakeVars, sendVars,
         workVars
<1>7. NoLostWakeup'
  BY NullAssumption DEF IInv, TypeOK, NoLostWakeup, PlacesTyped, QueueTyped,
         FlagsTyped, LifeOK, LinkOK, WsiExact, Announced, Up, SpawnFails,
         linkVars, retryVars, pingVars, wakeVars, sendVars, workVars
<1>8. NothingLeft'
  BY NullAssumption DEF IInv, TypeOK, NothingLeft, PlacesTyped, LifeOK, LinkOK,
         WsiExact, Up, SpawnFails, linkVars, retryVars, pingVars, wakeVars,
         sendVars, workVars
<1> QED BY <1>1, <1>2, <1>3, <1>4, <1>5, <1>6, <1>7, <1>8 DEF IInv, TypeOK

LEMMA StopInv == ASSUME IInv, Stop PROVE IInv'
<1>1. QueueTyped' /\ NoLostWakeup'
  BY DEF IInv, TypeOK, QueueTyped, NoLostWakeup, Announced, Up, Stop, linkVars,
         retryVars, pingVars, wakeVars, sendVars, workVars
<1>2. PlacesTyped'
  BY DelayAssumption DEF IInv, TypeOK, PlacesTyped, Stop, linkVars, retryVars,
         pingVars, wakeVars, sendVars, workVars
<1>3. FlagsTyped'
  BY DEF IInv, TypeOK, FlagsTyped, Stop, linkVars, retryVars, pingVars,
         wakeVars, sendVars, workVars
<1>4. LifeOK'
  BY DEF IInv, TypeOK, LifeOK, PlacesTyped, Stop, linkVars, retryVars,
         pingVars, wakeVars, sendVars, workVars
<1>5. LinkOK'
  BY NullAssumption DEF IInv, TypeOK, LinkOK, PlacesTyped, LifeOK, WsiExact,
         Stop, linkVars, retryVars, pingVars, wakeVars, sendVars, workVars
<1>6. WsiExact'
  BY NullAssumption DEF IInv, TypeOK, WsiExact, PlacesTyped, LifeOK, LinkOK,
         Stop, linkVars, retryVars, pingVars, wakeVars, sendVars, workVars
<1>7. NotAbandoned'
  BY DelayAssumption, NullAssumption DEF IInv, TypeOK, NotAbandoned,
         PlacesTyped, LifeOK, LinkOK, Stop, linkVars, retryVars, pingVars,
         wakeVars, sendVars, workVars
<1>8. NothingLeft'
  BY NullAssumption DEF IInv, TypeOK, NothingLeft, PlacesTyped, LifeOK, LinkOK,
         WsiExact, Up, Stop, linkVars, retryVars, pingVars, wakeVars, sendVars,
         workVars
<1> QED BY <1>1, <1>2, <1>3, <1>4, <1>5, <1>6, <1>7, <1>8 DEF IInv, TypeOK

LEMMA StopWakeInv == ASSUME IInv, StopWake PROVE IInv'
<1>1. QueueTyped' /\ NotAbandoned'
  BY DEF IInv, TypeOK, QueueTyped, NotAbandoned, StopWake, linkVars, retryVars,
         pingVars, wakeVars, sendVars, workVars
<1>2. PlacesTyped'
  BY DelayAssumption DEF IInv, TypeOK, PlacesTyped, StopWake, linkVars,
         retryVars, pingVars, wakeVars, sendVars, workVars
<1>3. FlagsTyped'
  BY DEF IInv, TypeOK, FlagsTyped, StopWake, linkVars, retryVars, pingVars,
         wakeVars, sendVars, workVars
<1>4. LifeOK'
  BY DEF IInv, TypeOK, LifeOK, PlacesTyped, StopWake, linkVars, retryVars,
         pingVars, wakeVars, sendVars, workVars
<1>5. LinkOK'
  BY NullAssumption DEF IInv, TypeOK, LinkOK, PlacesTyped, LifeOK, WsiExact,
         StopWake, linkVars, retryVars, pingVars, wakeVars, sendVars, workVars
<1>6. WsiExact'
  BY NullAssumption DEF IInv, TypeOK, WsiExact, PlacesTyped, LifeOK, LinkOK,
         StopWake, linkVars, retryVars, pingVars, wakeVars, sendVars, workVars
<1>7. NoLostWakeup'
  BY NullAssumption DEF IInv, TypeOK, NoLostWakeup, PlacesTyped, QueueTyped,
         FlagsTyped, LifeOK, LinkOK, WsiExact, Announced, Up, StopWake,
         linkVars, retryVars, pingVars, wakeVars, sendVars, workVars
<1>8. NothingLeft'
  BY NullAssumption DEF IInv, TypeOK, NothingLeft, PlacesTyped, LifeOK, LinkOK,
         WsiExact, Up, StopWake, linkVars, retryVars, pingVars, wakeVars,
         sendVars, workVars
<1> QED BY <1>1, <1>2, <1>3, <1>4, <1>5, <1>6, <1>7, <1>8 DEF IInv, TypeOK

LEMMA JoinInv == ASSUME IInv, Join PROVE IInv'
<1>1. QueueTyped' /\ FlagsTyped'
  BY DEF IInv, TypeOK, QueueTyped, FlagsTyped, Join, retryVars, pingVars,
         wakeVars, sendVars, workVars
<1>2. PlacesTyped'
  BY DelayAssumption DEF IInv, TypeOK, PlacesTyped, Join, retryVars, pingVars,
         wakeVars, sendVars, workVars
<1>3. LifeOK'
  BY DEF IInv, TypeOK, LifeOK, PlacesTyped, Join, retryVars, pingVars,
         wakeVars, sendVars, workVars
<1>4. LinkOK'
  BY NullAssumption DEF IInv, TypeOK, LinkOK, PlacesTyped, LifeOK, WsiExact,
         Join, retryVars, pingVars, wakeVars, sendVars, workVars
<1>5. WsiExact'
  BY NullAssumption DEF IInv, TypeOK, WsiExact, PlacesTyped, LifeOK, LinkOK,
         Join, retryVars, pingVars, wakeVars, sendVars, workVars
<1>6. NotAbandoned'
  BY DelayAssumption, NullAssumption DEF IInv, TypeOK, NotAbandoned,
         PlacesTyped, LifeOK, LinkOK, Join, retryVars, pingVars, wakeVars,
         sendVars, workVars
<1>7. NoLostWakeup'
  BY NullAssumption DEF IInv, TypeOK, NoLostWakeup, PlacesTyped, QueueTyped,
         FlagsTyped, LifeOK, LinkOK, WsiExact, Announced, Up, Join, retryVars,
         pingVars, wakeVars, sendVars, workVars
<1>8. NothingLeft'
  BY NullAssumption DEF IInv, TypeOK, NothingLeft, PlacesTyped, LifeOK, LinkOK,
         WsiExact, Up, Join, retryVars, pingVars, wakeVars, sendVars, workVars
<1> QED BY <1>1, <1>2, <1>3, <1>4, <1>5, <1>6, <1>7, <1>8 DEF IInv, TypeOK

LEMMA ContextDestroyInv == ASSUME IInv, ContextDestroy PROVE IInv'
<1>1. QueueTyped'
  BY DEF IInv, TypeOK, QueueTyped, ContextDestroy, retryVars, sendVars,
         workVars
<1>2. PlacesTyped'
  BY DelayAssumption DEF IInv, TypeOK, PlacesTyped, ContextDestroy, retryVars,
         sendVars, workVars
<1>3. FlagsTyped'
  BY DEF IInv, TypeOK, FlagsTyped, ContextDestroy, retryVars, sendVars,
         workVars
<1>4. LifeOK'
  BY DEF IInv, TypeOK, LifeOK, PlacesTyped, ContextDestroy, retryVars,
         sendVars, workVars
<1>5. LinkOK'
  BY NullAssumption DEF IInv, TypeOK, LinkOK, PlacesTyped, LifeOK, WsiExact,
         ContextDestroy, retryVars, sendVars, workVars
<1>6. WsiExact'
  BY NullAssumption DEF IInv, TypeOK, WsiExact, PlacesTyped, LifeOK, LinkOK,
         ContextDestroy, retryVars, sendVars, workVars
<1>7. NotAbandoned'
  BY DelayAssumption, NullAssumption DEF IInv, TypeOK, NotAbandoned,
         PlacesTyped, LifeOK, LinkOK, ContextDestroy, retryVars, sendVars,
         workVars
<1>8. NoLostWakeup'
  BY NullAssumption DEF IInv, TypeOK, NoLostWakeup, PlacesTyped, QueueTyped,
         FlagsTyped, LifeOK, LinkOK, WsiExact, Announced, Up, ContextDestroy,
         retryVars, sendVars, workVars
<1>9. NothingLeft'
  BY NullAssumption DEF IInv, TypeOK, NothingLeft, PlacesTyped, LifeOK, LinkOK,
         WsiExact, Up, ContextDestroy, retryVars, sendVars, workVars
<1> QED BY <1>1, <1>2, <1>3, <1>4, <1>5, <1>6, <1>7, <1>8, <1>9 DEF IInv, TypeOK

LEMMA DestroyInv == ASSUME IInv, Destroy PROVE IInv'
<1>1. FlagsTyped' /\ NotAbandoned'
  BY DEF IInv, TypeOK, FlagsTyped, NotAbandoned, Destroy, FreesQueue, linkVars,
         retryVars, pingVars, wakeVars, sendVars, workVars
<1>2. PlacesTyped'
  BY DelayAssumption DEF IInv, TypeOK, PlacesTyped, Destroy, FreesQueue,
         linkVars, retryVars, pingVars, wakeVars, sendVars, workVars
<1>3. QueueTyped'
  BY EmptySeq DEF IInv, TypeOK, QueueTyped, Destroy, FreesQueue, linkVars,
         retryVars, pingVars, wakeVars, sendVars, workVars
<1>4. LifeOK'
  BY DEF IInv, TypeOK, LifeOK, PlacesTyped, Destroy, FreesQueue, linkVars,
         retryVars, pingVars, wakeVars, sendVars, workVars
<1>5. LinkOK'
  BY NullAssumption DEF IInv, TypeOK, LinkOK, PlacesTyped, LifeOK, WsiExact,
         Destroy, FreesQueue, linkVars, retryVars, pingVars, wakeVars,
         sendVars, workVars
<1>6. WsiExact'
  BY NullAssumption DEF IInv, TypeOK, WsiExact, PlacesTyped, LifeOK, LinkOK,
         Destroy, FreesQueue, linkVars, retryVars, pingVars, wakeVars,
         sendVars, workVars
<1>7. NoLostWakeup'
  BY NullAssumption DEF IInv, TypeOK, NoLostWakeup, PlacesTyped, QueueTyped,
         FlagsTyped, LifeOK, LinkOK, WsiExact, Announced, Up, Destroy,
         FreesQueue, linkVars, retryVars, pingVars, wakeVars, sendVars,
         workVars
<1>8. NothingLeft'
  BY NullAssumption DEF IInv, TypeOK, NothingLeft, PlacesTyped, LifeOK, LinkOK,
         WsiExact, Up, Destroy, FreesQueue, linkVars, retryVars, pingVars,
         wakeVars, sendVars, workVars
<1> QED BY <1>1, <1>2, <1>3, <1>4, <1>5, <1>6, <1>7, <1>8 DEF IInv, TypeOK

LEMMA LeaveInv == ASSUME IInv, Leave PROVE IInv'
<1>1. QueueTyped' /\ FlagsTyped' /\ WsiExact'
  BY DEF IInv, TypeOK, QueueTyped, FlagsTyped, WsiExact, Leave, LoopEnds,
         mainVars, linkVars, retryVars, pingVars, wakeVars, sendVars, workVars
<1>2. PlacesTyped'
  BY DelayAssumption DEF IInv, TypeOK, PlacesTyped, Leave, LoopEnds, mainVars,
         linkVars, retryVars, pingVars, wakeVars, sendVars, workVars
<1>3. LifeOK'
  BY DEF IInv, TypeOK, LifeOK, PlacesTyped, Leave, LoopEnds, mainVars,
         linkVars, retryVars, pingVars, wakeVars, sendVars, workVars
<1>4. LinkOK'
  BY NullAssumption DEF IInv, TypeOK, LinkOK, PlacesTyped, LifeOK, WsiExact,
         Leave, LoopEnds, mainVars, linkVars, retryVars, pingVars, wakeVars,
         sendVars, workVars
<1>5. NotAbandoned'
  BY DelayAssumption, NullAssumption DEF IInv, TypeOK, NotAbandoned,
         PlacesTyped, LifeOK, LinkOK, Leave, LoopEnds, mainVars, linkVars,
         retryVars, pingVars, wakeVars, sendVars, workVars
<1>6. NoLostWakeup'
  BY NullAssumption DEF IInv, TypeOK, NoLostWakeup, PlacesTyped, QueueTyped,
         FlagsTyped, LifeOK, LinkOK, WsiExact, Announced, Up, Leave, LoopEnds,
         mainVars, linkVars, retryVars, pingVars, wakeVars, sendVars, workVars
<1>7. NothingLeft'
  BY NullAssumption DEF IInv, TypeOK, NothingLeft, PlacesTyped, LifeOK, LinkOK,
         WsiExact, Up, Leave, LoopEnds, mainVars, linkVars, retryVars,
         pingVars, wakeVars, sendVars, workVars
<1> QED BY <1>1, <1>2, <1>3, <1>4, <1>5, <1>6, <1>7 DEF IInv, TypeOK

LEMMA RetryInv == ASSUME IInv, Retry PROVE IInv'
<1>1. QueueTyped' /\ FlagsTyped' /\ WsiExact'
  BY DEF IInv, TypeOK, QueueTyped, FlagsTyped, WsiExact, Retry, mainVars,
         linkVars, pingVars, wakeVars, sendVars, workVars
<1>2. PlacesTyped'
  BY DelayAssumption DEF IInv, TypeOK, PlacesTyped, Retry, mainVars, linkVars,
         pingVars, wakeVars, sendVars, workVars
<1>3. LifeOK'
  BY DEF IInv, TypeOK, LifeOK, PlacesTyped, Retry, mainVars, linkVars,
         pingVars, wakeVars, sendVars, workVars
<1>4. LinkOK'
  BY NullAssumption DEF IInv, TypeOK, LinkOK, PlacesTyped, LifeOK, WsiExact,
         Retry, mainVars, linkVars, pingVars, wakeVars, sendVars, workVars
<1>5. NotAbandoned'
  BY DelayAssumption, NullAssumption DEF IInv, TypeOK, NotAbandoned,
         PlacesTyped, LifeOK, LinkOK, Retry, mainVars, linkVars, pingVars,
         wakeVars, sendVars, workVars
<1>6. NoLostWakeup'
  BY NullAssumption DEF IInv, TypeOK, NoLostWakeup, PlacesTyped, QueueTyped,
         FlagsTyped, LifeOK, LinkOK, WsiExact, Announced, Up, Retry, mainVars,
         linkVars, pingVars, wakeVars, sendVars, workVars
<1>7. NothingLeft'
  BY NullAssumption DEF IInv, TypeOK, NothingLeft, PlacesTyped, LifeOK, LinkOK,
         WsiExact, Up, Retry, mainVars, linkVars, pingVars, wakeVars, sendVars,
         workVars
<1> QED BY <1>1, <1>2, <1>3, <1>4, <1>5, <1>6, <1>7 DEF IInv, TypeOK

LEMMA DoConnectInv == ASSUME IInv, NEW w \in Wsis, DoConnect(w) PROVE IInv'
<1>1. QueueTyped' /\ FlagsTyped'
  BY DEF IInv, TypeOK, QueueTyped, FlagsTyped, DoConnect, mainVars, retryVars,
         pingVars, wakeVars, sendVars, workVars
<1>2. PlacesTyped'
  BY DelayAssumption DEF IInv, TypeOK, PlacesTyped, DoConnect, mainVars,
         retryVars, pingVars, wakeVars, sendVars, workVars
<1>3. LifeOK'
  BY DEF IInv, TypeOK, LifeOK, PlacesTyped, DoConnect, mainVars, retryVars,
         pingVars, wakeVars, sendVars, workVars
<1>4. LinkOK'
  BY NullAssumption DEF IInv, TypeOK, LinkOK, PlacesTyped, LifeOK, WsiExact,
         DoConnect, mainVars, retryVars, pingVars, wakeVars, sendVars, workVars
<1>5. WsiExact'
  BY NullAssumption DEF IInv, TypeOK, WsiExact, PlacesTyped, LifeOK, LinkOK,
         DoConnect, mainVars, retryVars, pingVars, wakeVars, sendVars, workVars
<1>6. NotAbandoned'
  BY DelayAssumption, NullAssumption DEF IInv, TypeOK, NotAbandoned,
         PlacesTyped, LifeOK, LinkOK, DoConnect, mainVars, retryVars, pingVars,
         wakeVars, sendVars, workVars
<1>7. NoLostWakeup'
  BY NullAssumption DEF IInv, TypeOK, NoLostWakeup, PlacesTyped, QueueTyped,
         FlagsTyped, LifeOK, LinkOK, WsiExact, Announced, Up, DoConnect,
         mainVars, retryVars, pingVars, wakeVars, sendVars, workVars
<1>8. NothingLeft'
  BY NullAssumption DEF IInv, TypeOK, NothingLeft, PlacesTyped, LifeOK, LinkOK,
         WsiExact, Up, DoConnect, mainVars, retryVars, pingVars, wakeVars,
         sendVars, workVars
<1> QED BY <1>1, <1>2, <1>3, <1>4, <1>5, <1>6, <1>7, <1>8 DEF IInv, TypeOK

LEMMA DoConnectFailsInv == ASSUME IInv, DoConnectFails PROVE IInv'
<1>1. QueueTyped' /\ FlagsTyped'
  BY DEF IInv, TypeOK, QueueTyped, FlagsTyped, DoConnectFails, PlansAnew,
         ScheduleReconnect, Doubled, mainVars, pingVars, wakeVars, sendVars,
         workVars
<1>2. PlacesTyped'
  BY DelayAssumption DEF IInv, TypeOK, PlacesTyped, DoConnectFails, PlansAnew,
         ScheduleReconnect, Doubled, mainVars, pingVars, wakeVars, sendVars,
         workVars
<1>3. LifeOK'
  BY DEF IInv, TypeOK, LifeOK, PlacesTyped, DoConnectFails, PlansAnew,
         ScheduleReconnect, Doubled, mainVars, pingVars, wakeVars, sendVars,
         workVars
<1>4. LinkOK'
  BY NullAssumption DEF IInv, TypeOK, LinkOK, PlacesTyped, LifeOK, WsiExact,
         DoConnectFails, PlansAnew, ScheduleReconnect, Doubled, mainVars,
         pingVars, wakeVars, sendVars, workVars
<1>5. WsiExact'
  BY NullAssumption DEF IInv, TypeOK, WsiExact, PlacesTyped, LifeOK, LinkOK,
         DoConnectFails, PlansAnew, ScheduleReconnect, Doubled, mainVars,
         pingVars, wakeVars, sendVars, workVars
<1>6. NotAbandoned'
  BY DelayAssumption, NullAssumption DEF IInv, TypeOK, NotAbandoned,
         PlacesTyped, LifeOK, LinkOK, DoConnectFails, PlansAnew,
         ScheduleReconnect, Doubled, mainVars, pingVars, wakeVars, sendVars,
         workVars
<1>7. NoLostWakeup'
  BY NullAssumption DEF IInv, TypeOK, NoLostWakeup, PlacesTyped, QueueTyped,
         FlagsTyped, LifeOK, LinkOK, WsiExact, Announced, Up, DoConnectFails,
         PlansAnew, ScheduleReconnect, Doubled, mainVars, pingVars, wakeVars,
         sendVars, workVars
<1>8. NothingLeft'
  BY NullAssumption DEF IInv, TypeOK, NothingLeft, PlacesTyped, LifeOK, LinkOK,
         WsiExact, Up, DoConnectFails, PlansAnew, ScheduleReconnect, Doubled,
         mainVars, pingVars, wakeVars, sendVars, workVars
<1> QED BY <1>1, <1>2, <1>3, <1>4, <1>5, <1>6, <1>7, <1>8 DEF IInv, TypeOK

LEMMA FlushInv == ASSUME IInv, Flush PROVE IInv'
<1>1. FlagsTyped' /\ WsiExact'
  BY DEF IInv, TypeOK, FlagsTyped, WsiExact, Flush, mainVars, linkVars,
         retryVars, pingVars, wakeVars, sendVars, workVars
<1>2. PlacesTyped'
  BY DelayAssumption DEF IInv, TypeOK, PlacesTyped, Flush, mainVars, linkVars,
         retryVars, pingVars, wakeVars, sendVars, workVars
<1>3. QueueTyped'
  BY EmptySeq DEF IInv, TypeOK, QueueTyped, Flush, mainVars, linkVars,
         retryVars, pingVars, wakeVars, sendVars, workVars
<1>4. LifeOK'
  BY DEF IInv, TypeOK, LifeOK, PlacesTyped, Flush, mainVars, linkVars,
         retryVars, pingVars, wakeVars, sendVars, workVars
<1>5. LinkOK'
  BY NullAssumption DEF IInv, TypeOK, LinkOK, PlacesTyped, LifeOK, WsiExact,
         Flush, mainVars, linkVars, retryVars, pingVars, wakeVars, sendVars,
         workVars
<1>6. NotAbandoned'
  BY DelayAssumption, NullAssumption DEF IInv, TypeOK, NotAbandoned,
         PlacesTyped, LifeOK, LinkOK, Flush, mainVars, linkVars, retryVars,
         pingVars, wakeVars, sendVars, workVars
<1>7. NoLostWakeup'
  BY NullAssumption DEF IInv, TypeOK, NoLostWakeup, PlacesTyped, QueueTyped,
         FlagsTyped, LifeOK, LinkOK, WsiExact, Announced, Up, Flush, mainVars,
         linkVars, retryVars, pingVars, wakeVars, sendVars, workVars
<1>8. NothingLeft'
  BY NullAssumption DEF IInv, TypeOK, NothingLeft, PlacesTyped, LifeOK, LinkOK,
         WsiExact, Up, Flush, mainVars, linkVars, retryVars, pingVars,
         wakeVars, sendVars, workVars
<1> QED BY <1>1, <1>2, <1>3, <1>4, <1>5, <1>6, <1>7, <1>8 DEF IInv, TypeOK

LEMMA EstablishedInv == ASSUME IInv, NEW w \in Wsis, Established(w) PROVE IInv'
<1>1. QueueTyped' /\ LifeOK'
  BY DEF IInv, TypeOK, QueueTyped, LifeOK, Established, mainVars, sendVars,
         workVars
<1>2. PlacesTyped'
  BY DelayAssumption DEF IInv, TypeOK, PlacesTyped, Established, mainVars,
         sendVars, workVars
<1>3. FlagsTyped'
  BY DEF IInv, TypeOK, FlagsTyped, Established, mainVars, sendVars, workVars
<1>4. LinkOK'
  BY NullAssumption DEF IInv, TypeOK, LinkOK, PlacesTyped, LifeOK, WsiExact,
         Established, mainVars, sendVars, workVars
<1>5. WsiExact'
  BY NullAssumption DEF IInv, TypeOK, WsiExact, PlacesTyped, LifeOK, LinkOK,
         Established, mainVars, sendVars, workVars
<1>6. NotAbandoned'
  BY DelayAssumption, NullAssumption DEF IInv, TypeOK, NotAbandoned,
         PlacesTyped, LifeOK, LinkOK, Established, mainVars, sendVars, workVars
<1>7. NoLostWakeup'
  BY NullAssumption DEF IInv, TypeOK, NoLostWakeup, PlacesTyped, QueueTyped,
         FlagsTyped, LifeOK, LinkOK, WsiExact, Announced, Up, Established,
         mainVars, sendVars, workVars
<1>8. NothingLeft'
  BY NullAssumption DEF IInv, TypeOK, NothingLeft, PlacesTyped, LifeOK, LinkOK,
         WsiExact, Up, Established, mainVars, sendVars, workVars
<1> QED BY <1>1, <1>2, <1>3, <1>4, <1>5, <1>6, <1>7, <1>8 DEF IInv, TypeOK

LEMMA ConnectionErrorInv == ASSUME IInv, NEW w \in Wsis, ConnectionError(w)
                            PROVE  IInv'
<1>1. QueueTyped' /\ LifeOK'
  BY DEF IInv, TypeOK, QueueTyped, LifeOK, ConnectionError, Lost, Forget,
         ScheduleReconnect, Doubled, mainVars, retryVars, sendVars, workVars
<1>2. PlacesTyped'
  BY DelayAssumption DEF IInv, TypeOK, PlacesTyped, ConnectionError, Lost,
         Forget, ScheduleReconnect, Doubled, mainVars, retryVars, sendVars,
         workVars
<1>3. FlagsTyped'
  BY DEF IInv, TypeOK, FlagsTyped, ConnectionError, Lost, Forget,
         ScheduleReconnect, Doubled, mainVars, retryVars, sendVars, workVars
<1>4. LinkOK'
  BY NullAssumption DEF IInv, TypeOK, LinkOK, PlacesTyped, LifeOK, WsiExact,
         ConnectionError, Lost, Forget, ScheduleReconnect, Doubled, mainVars,
         retryVars, sendVars, workVars
<1>5. WsiExact'
  BY NullAssumption DEF IInv, TypeOK, WsiExact, PlacesTyped, LifeOK, LinkOK,
         ConnectionError, Lost, Forget, ScheduleReconnect, Doubled, mainVars,
         retryVars, sendVars, workVars
<1>6. NotAbandoned'
  BY DelayAssumption, NullAssumption DEF IInv, TypeOK, NotAbandoned,
         PlacesTyped, LifeOK, LinkOK, ConnectionError, Lost, Forget,
         ScheduleReconnect, Doubled, mainVars, retryVars, sendVars, workVars
<1>7. NoLostWakeup'
  BY NullAssumption DEF IInv, TypeOK, NoLostWakeup, PlacesTyped, QueueTyped,
         FlagsTyped, LifeOK, LinkOK, WsiExact, Announced, Up, ConnectionError,
         Lost, Forget, ScheduleReconnect, Doubled, mainVars, retryVars,
         sendVars, workVars
<1>8. NothingLeft'
  BY NullAssumption DEF IInv, TypeOK, NothingLeft, PlacesTyped, LifeOK, LinkOK,
         WsiExact, Up, ConnectionError, Lost, Forget, ScheduleReconnect,
         Doubled, mainVars, retryVars, sendVars, workVars
<1> QED BY <1>1, <1>2, <1>3, <1>4, <1>5, <1>6, <1>7, <1>8 DEF IInv, TypeOK

LEMMA ClosedInv == ASSUME IInv, NEW w \in Wsis, Closed(w) PROVE IInv'
<1>1. QueueTyped' /\ LifeOK'
  BY DEF IInv, TypeOK, QueueTyped, LifeOK, Closed, Lost, Forget,
         ScheduleReconnect, Doubled, mainVars, retryVars, sendVars, workVars
<1>2. PlacesTyped'
  BY DelayAssumption DEF IInv, TypeOK, PlacesTyped, Closed, Lost, Forget,
         ScheduleReconnect, Doubled, mainVars, retryVars, sendVars, workVars
<1>3. FlagsTyped'
  BY DEF IInv, TypeOK, FlagsTyped, Closed, Lost, Forget, ScheduleReconnect,
         Doubled, mainVars, retryVars, sendVars, workVars
<1>4. LinkOK'
  BY NullAssumption DEF IInv, TypeOK, LinkOK, PlacesTyped, LifeOK, WsiExact,
         Closed, Lost, Forget, ScheduleReconnect, Doubled, mainVars, retryVars,
         sendVars, workVars
<1>5. WsiExact'
  BY NullAssumption DEF IInv, TypeOK, WsiExact, PlacesTyped, LifeOK, LinkOK,
         Closed, Lost, Forget, ScheduleReconnect, Doubled, mainVars, retryVars,
         sendVars, workVars
<1>6. NotAbandoned'
  BY DelayAssumption, NullAssumption DEF IInv, TypeOK, NotAbandoned,
         PlacesTyped, LifeOK, LinkOK, Closed, Lost, Forget, ScheduleReconnect,
         Doubled, mainVars, retryVars, sendVars, workVars
<1>7. NoLostWakeup'
  BY NullAssumption DEF IInv, TypeOK, NoLostWakeup, PlacesTyped, QueueTyped,
         FlagsTyped, LifeOK, LinkOK, WsiExact, Announced, Up, Closed, Lost,
         Forget, ScheduleReconnect, Doubled, mainVars, retryVars, sendVars,
         workVars
<1>8. NothingLeft'
  BY NullAssumption DEF IInv, TypeOK, NothingLeft, PlacesTyped, LifeOK, LinkOK,
         WsiExact, Up, Closed, Lost, Forget, ScheduleReconnect, Doubled,
         mainVars, retryVars, sendVars, workVars
<1> QED BY <1>1, <1>2, <1>3, <1>4, <1>5, <1>6, <1>7, <1>8 DEF IInv, TypeOK

LEMMA WaitCancelledInv == ASSUME IInv, WaitCancelled PROVE IInv'
<1>1. /\ PlacesTyped' /\ QueueTyped' /\ LifeOK' /\ LinkOK'
      /\ WsiExact' /\ NotAbandoned' /\ NothingLeft'
  BY DEF IInv, TypeOK, PlacesTyped, QueueTyped, LifeOK, LinkOK, WsiExact,
         NotAbandoned, NothingLeft, Up, WaitCancelled, RequestIf, mainVars,
         linkVars, retryVars, pingVars, wakeVars, sendVars, workVars
<1>2. FlagsTyped'
  BY DEF IInv, TypeOK, FlagsTyped, WaitCancelled, RequestIf, mainVars,
         linkVars, retryVars, pingVars, wakeVars, sendVars, workVars
<1>3. NoLostWakeup'
  BY NullAssumption DEF IInv, TypeOK, NoLostWakeup, PlacesTyped, QueueTyped,
         FlagsTyped, LifeOK, LinkOK, WsiExact, Announced, Up, WaitCancelled,
         RequestIf, mainVars, linkVars, retryVars, pingVars, wakeVars,
         sendVars, workVars
<1> QED BY <1>1, <1>2, <1>3 DEF IInv, TypeOK

LEMMA WritePingInv == ASSUME IInv, WritePing PROVE IInv'
<1>1. QueueTyped' /\ WsiExact'
  BY DEF IInv, TypeOK, QueueTyped, WsiExact, WritePing, Up, mainVars, linkVars,
         retryVars, sendVars, workVars
<1>2. PlacesTyped'
  BY DelayAssumption DEF IInv, TypeOK, PlacesTyped, WritePing, Up, mainVars,
         linkVars, retryVars, sendVars, workVars
<1>3. FlagsTyped'
  BY DEF IInv, TypeOK, FlagsTyped, WritePing, Up, mainVars, linkVars,
         retryVars, sendVars, workVars
<1>4. LifeOK'
  BY DEF IInv, TypeOK, LifeOK, PlacesTyped, WritePing, Up, mainVars, linkVars,
         retryVars, sendVars, workVars
<1>5. LinkOK'
  BY NullAssumption DEF IInv, TypeOK, LinkOK, PlacesTyped, LifeOK, WsiExact,
         WritePing, Up, mainVars, linkVars, retryVars, sendVars, workVars
<1>6. NotAbandoned'
  BY DelayAssumption, NullAssumption DEF IInv, TypeOK, NotAbandoned,
         PlacesTyped, LifeOK, LinkOK, WritePing, Up, mainVars, linkVars,
         retryVars, sendVars, workVars
<1>7. NoLostWakeup'
  BY NullAssumption DEF IInv, TypeOK, NoLostWakeup, PlacesTyped, QueueTyped,
         FlagsTyped, LifeOK, LinkOK, WsiExact, Announced, Up, WritePing,
         mainVars, linkVars, retryVars, sendVars, workVars
<1>8. NothingLeft'
  BY NullAssumption DEF IInv, TypeOK, NothingLeft, PlacesTyped, LifeOK, LinkOK,
         WsiExact, Up, WritePing, mainVars, linkVars, retryVars, sendVars,
         workVars
<1> QED BY <1>1, <1>2, <1>3, <1>4, <1>5, <1>6, <1>7, <1>8 DEF IInv, TypeOK

LEMMA PingDoneInv == ASSUME IInv, PingDone PROVE IInv'
<1>1. QueueTyped' /\ WsiExact'
  BY DEF IInv, TypeOK, QueueTyped, WsiExact, PingDone, RequestIf, HasData,
         mainVars, linkVars, retryVars, pingVars, sendVars, workVars
<1>2. PlacesTyped'
  BY DelayAssumption DEF IInv, TypeOK, PlacesTyped, PingDone, RequestIf,
         HasData, mainVars, linkVars, retryVars, pingVars, sendVars, workVars
<1>3. FlagsTyped'
  BY DEF IInv, TypeOK, FlagsTyped, PingDone, RequestIf, HasData, mainVars,
         linkVars, retryVars, pingVars, sendVars, workVars
<1>4. LifeOK'
  BY DEF IInv, TypeOK, LifeOK, PlacesTyped, PingDone, RequestIf, HasData,
         mainVars, linkVars, retryVars, pingVars, sendVars, workVars
<1>5. LinkOK'
  BY NullAssumption DEF IInv, TypeOK, LinkOK, PlacesTyped, LifeOK, WsiExact,
         PingDone, RequestIf, HasData, mainVars, linkVars, retryVars, pingVars,
         sendVars, workVars
<1>6. NotAbandoned'
  BY DelayAssumption, NullAssumption DEF IInv, TypeOK, NotAbandoned,
         PlacesTyped, LifeOK, LinkOK, PingDone, RequestIf, HasData, mainVars,
         linkVars, retryVars, pingVars, sendVars, workVars
<1>7. NoLostWakeup'
  BY NullAssumption DEF IInv, TypeOK, NoLostWakeup, PlacesTyped, QueueTyped,
         FlagsTyped, LifeOK, LinkOK, WsiExact, Announced, Up, PingDone,
         RequestIf, HasData, mainVars, linkVars, retryVars, pingVars, sendVars,
         workVars
<1>8. NothingLeft'
  BY NullAssumption DEF IInv, TypeOK, NothingLeft, PlacesTyped, LifeOK, LinkOK,
         WsiExact, Up, PingDone, RequestIf, HasData, mainVars, linkVars,
         retryVars, pingVars, sendVars, workVars
<1> QED BY <1>1, <1>2, <1>3, <1>4, <1>5, <1>6, <1>7, <1>8 DEF IInv, TypeOK

LEMMA DequeueInv == ASSUME IInv, Dequeue PROVE IInv'
<1>1. WsiExact'
  BY DEF IInv, WsiExact, Dequeue, Up, mainVars, linkVars, retryVars, pingVars,
         sendVars
<1>2. PlacesTyped'
  BY DelayAssumption DEF IInv, TypeOK, PlacesTyped, Dequeue, Up, mainVars,
         linkVars, retryVars, pingVars, sendVars
<1>3. QueueTyped'
  BY HeadTailProperties DEF IInv, TypeOK, QueueTyped, Dequeue, Up, mainVars,
         linkVars, retryVars, pingVars, sendVars
<1>4. FlagsTyped'
  <2>1. more' \in BOOLEAN
    <3>1. CASE queue = <<>>
      BY <3>1 DEF IInv, TypeOK, FlagsTyped, Dequeue
    <3>2. CASE queue # <<>>
      <4>1. more' = (Len(queue) > 1)
        BY <3>2 DEF Dequeue
      <4> QED BY <4>1
    <3> QED BY <3>1, <3>2
  <2> QED BY <2>1 DEF IInv, TypeOK, FlagsTyped, Dequeue, mainVars, pingVars
<1>5. LifeOK'
  BY DEF IInv, TypeOK, LifeOK, PlacesTyped, Dequeue, Up, mainVars, linkVars,
         retryVars, pingVars, sendVars
<1>6. LinkOK'
  BY NullAssumption DEF IInv, TypeOK, LinkOK, PlacesTyped, LifeOK, WsiExact,
         Dequeue, Up, mainVars, linkVars, retryVars, pingVars, sendVars
<1>7. NotAbandoned'
  BY DelayAssumption, NullAssumption DEF IInv, TypeOK, NotAbandoned,
         PlacesTyped, LifeOK, LinkOK, Dequeue, Up, mainVars, linkVars,
         retryVars, pingVars, sendVars
<1>8. NoLostWakeup'
  BY NullAssumption DEF IInv, TypeOK, NoLostWakeup, PlacesTyped, QueueTyped,
         FlagsTyped, LifeOK, LinkOK, WsiExact, Announced, Up, Dequeue,
         mainVars, linkVars, retryVars, pingVars, sendVars
<1>9. NothingLeft'
  BY NullAssumption DEF IInv, TypeOK, NothingLeft, PlacesTyped, LifeOK, LinkOK,
         WsiExact, Up, Dequeue, mainVars, linkVars, retryVars, pingVars,
         sendVars
<1> QED BY <1>1, <1>2, <1>3, <1>4, <1>5, <1>6, <1>7, <1>8, <1>9 DEF IInv, TypeOK

LEMMA WriteInv == ASSUME IInv, Write PROVE IInv'
<1>1. WsiExact'
  BY DEF IInv, WsiExact, Write, RequestIf, mainVars, linkVars, retryVars,
         pingVars, sendVars
<1>2. PlacesTyped'
  BY DelayAssumption DEF IInv, TypeOK, PlacesTyped, Write, RequestIf, mainVars,
         linkVars, retryVars, pingVars, sendVars
<1>3. QueueTyped'
  BY DEF IInv, TypeOK, QueueTyped, Write, RequestIf, mainVars, linkVars,
         retryVars, pingVars, sendVars
<1>4. FlagsTyped'
  BY DEF IInv, TypeOK, FlagsTyped, Write, RequestIf, mainVars, linkVars,
         retryVars, pingVars, sendVars
<1>5. LifeOK'
  BY DEF IInv, TypeOK, LifeOK, PlacesTyped, Write, RequestIf, mainVars,
         linkVars, retryVars, pingVars, sendVars
<1>6. LinkOK'
  BY NullAssumption DEF IInv, TypeOK, LinkOK, PlacesTyped, LifeOK, WsiExact,
         Write, RequestIf, mainVars, linkVars, retryVars, pingVars, sendVars
<1>7. NotAbandoned'
  BY DelayAssumption, NullAssumption DEF IInv, TypeOK, NotAbandoned,
         PlacesTyped, LifeOK, LinkOK, Write, RequestIf, mainVars, linkVars,
         retryVars, pingVars, sendVars
<1>8. NoLostWakeup'
  BY NullAssumption DEF IInv, TypeOK, NoLostWakeup, PlacesTyped, QueueTyped,
         FlagsTyped, LifeOK, LinkOK, WsiExact, Announced, Up, Write, RequestIf,
         mainVars, linkVars, retryVars, pingVars, sendVars
<1>9. NothingLeft'
  BY NullAssumption DEF IInv, TypeOK, NothingLeft, PlacesTyped, LifeOK, LinkOK,
         WsiExact, Up, Write, RequestIf, mainVars, linkVars, retryVars,
         pingVars, sendVars
<1> QED BY <1>1, <1>2, <1>3, <1>4, <1>5, <1>6, <1>7, <1>8, <1>9 DEF IInv, TypeOK

LEMMA WriteFailsInv == ASSUME IInv, NEW w \in Wsis, WriteFails(w) PROVE IInv'
<1>1. PlacesTyped'
  BY DelayAssumption DEF IInv, TypeOK, PlacesTyped, WriteFails, Lost, Forget,
         ScheduleReconnect, Doubled, mainVars, retryVars, sendVars
<1>2. QueueTyped'
  BY DEF IInv, TypeOK, QueueTyped, WriteFails, Lost, Forget, ScheduleReconnect,
         Doubled, mainVars, retryVars, sendVars
<1>3. FlagsTyped'
  BY DEF IInv, TypeOK, FlagsTyped, WriteFails, Lost, Forget, ScheduleReconnect,
         Doubled, mainVars, retryVars, sendVars
<1>4. LifeOK'
  BY DEF IInv, TypeOK, LifeOK, PlacesTyped, WriteFails, Lost, Forget,
         ScheduleReconnect, Doubled, mainVars, retryVars, sendVars
<1>5. LinkOK'
  BY NullAssumption DEF IInv, TypeOK, LinkOK, PlacesTyped, LifeOK, WsiExact,
         WriteFails, Lost, Forget, ScheduleReconnect, Doubled, mainVars,
         retryVars, sendVars
<1>6. WsiExact'
  BY NullAssumption DEF IInv, TypeOK, WsiExact, PlacesTyped, LifeOK, LinkOK,
         WriteFails, Lost, Forget, ScheduleReconnect, Doubled, mainVars,
         retryVars, sendVars
<1>7. NotAbandoned'
  BY DelayAssumption, NullAssumption DEF IInv, TypeOK, NotAbandoned,
         PlacesTyped, LifeOK, LinkOK, WriteFails, Lost, Forget,
         ScheduleReconnect, Doubled, mainVars, retryVars, sendVars
<1>8. NoLostWakeup'
  BY NullAssumption DEF IInv, TypeOK, NoLostWakeup, PlacesTyped, QueueTyped,
         FlagsTyped, LifeOK, LinkOK, WsiExact, Announced, Up, WriteFails, Lost,
         Forget, ScheduleReconnect, Doubled, mainVars, retryVars, sendVars
<1>9. NothingLeft'
  BY NullAssumption DEF IInv, TypeOK, NothingLeft, PlacesTyped, LifeOK, LinkOK,
         WsiExact, Up, WriteFails, Lost, Forget, ScheduleReconnect, Doubled,
         mainVars, retryVars, sendVars
<1> QED BY <1>1, <1>2, <1>3, <1>4, <1>5, <1>6, <1>7, <1>8, <1>9 DEF IInv, TypeOK

LEMMA PongTimeoutInv == ASSUME IInv, NEW w \in Wsis, PongTimeout(w) PROVE IInv'
<1>1. QueueTyped' /\ LifeOK'
  BY DEF IInv, TypeOK, QueueTyped, LifeOK, PongTimeout, Lost, Forget,
         ScheduleReconnect, Doubled, mainVars, retryVars, sendVars, workVars
<1>2. PlacesTyped'
  BY DelayAssumption DEF IInv, TypeOK, PlacesTyped, PongTimeout, Lost, Forget,
         ScheduleReconnect, Doubled, mainVars, retryVars, sendVars, workVars
<1>3. FlagsTyped'
  BY DEF IInv, TypeOK, FlagsTyped, PongTimeout, Lost, Forget,
         ScheduleReconnect, Doubled, mainVars, retryVars, sendVars, workVars
<1>4. LinkOK'
  BY NullAssumption DEF IInv, TypeOK, LinkOK, PlacesTyped, LifeOK, WsiExact,
         PongTimeout, Lost, Forget, ScheduleReconnect, Doubled, mainVars,
         retryVars, sendVars, workVars
<1>5. WsiExact'
  BY NullAssumption DEF IInv, TypeOK, WsiExact, PlacesTyped, LifeOK, LinkOK,
         PongTimeout, Lost, Forget, ScheduleReconnect, Doubled, mainVars,
         retryVars, sendVars, workVars
<1>6. NotAbandoned'
  BY DelayAssumption, NullAssumption DEF IInv, TypeOK, NotAbandoned,
         PlacesTyped, LifeOK, LinkOK, PongTimeout, Lost, Forget,
         ScheduleReconnect, Doubled, mainVars, retryVars, sendVars, workVars
<1>7. NoLostWakeup'
  BY NullAssumption DEF IInv, TypeOK, NoLostWakeup, PlacesTyped, QueueTyped,
         FlagsTyped, LifeOK, LinkOK, WsiExact, Announced, Up, PongTimeout,
         Lost, Forget, ScheduleReconnect, Doubled, mainVars, retryVars,
         sendVars, workVars
<1>8. NothingLeft'
  BY NullAssumption DEF IInv, TypeOK, NothingLeft, PlacesTyped, LifeOK, LinkOK,
         WsiExact, Up, PongTimeout, Lost, Forget, ScheduleReconnect, Doubled,
         mainVars, retryVars, sendVars, workVars
<1> QED BY <1>1, <1>2, <1>3, <1>4, <1>5, <1>6, <1>7, <1>8 DEF IInv, TypeOK

LEMMA AskPingInv == ASSUME IInv, AskPing PROVE IInv'
<1>1. /\ PlacesTyped' /\ QueueTyped' /\ LifeOK' /\ LinkOK'
      /\ WsiExact' /\ NotAbandoned' /\ NothingLeft'
  BY DEF IInv, TypeOK, PlacesTyped, QueueTyped, LifeOK, LinkOK, WsiExact,
         NotAbandoned, NothingLeft, Up, AskPing, Request, Rearmed, mainVars,
         linkVars, retryVars, sendVars, workVars
<1>2. FlagsTyped'
  BY DEF IInv, TypeOK, FlagsTyped, AskPing, Up, Request, Rearmed, mainVars,
         linkVars, retryVars, sendVars, workVars
<1>3. NoLostWakeup'
  BY NullAssumption DEF IInv, TypeOK, NoLostWakeup, PlacesTyped, QueueTyped,
         FlagsTyped, LifeOK, LinkOK, WsiExact, Announced, Up, AskPing, Request,
         Rearmed, mainVars, linkVars, retryVars, sendVars, workVars
<1> QED BY <1>1, <1>2, <1>3 DEF IInv, TypeOK

LEMMA PongInv == ASSUME IInv, Pong PROVE IInv'
<1>1. /\ PlacesTyped' /\ QueueTyped' /\ LifeOK' /\ LinkOK'
      /\ WsiExact' /\ NotAbandoned' /\ NoLostWakeup' /\ NothingLeft'
  BY DEF IInv, TypeOK, PlacesTyped, QueueTyped, LifeOK, LinkOK, WsiExact,
         NotAbandoned, NoLostWakeup, NothingLeft, Announced, Up, Pong,
         mainVars, linkVars, retryVars, wakeVars, sendVars, workVars
<1>2. FlagsTyped'
  BY DEF IInv, TypeOK, FlagsTyped, Pong, Up, mainVars, linkVars, retryVars,
         wakeVars, sendVars, workVars
<1> QED BY <1>1, <1>2 DEF IInv, TypeOK

LEMMA NextInv == ASSUME IInv, [Next]_vars PROVE IInv'
<1>1. CASE UNCHANGED vars
  BY <1>1 DEF vars, mainVars, linkVars, retryVars, pingVars, wakeVars, sendVars, workVars,
              IInv, TypeOK, PlacesTyped, QueueTyped, FlagsTyped, LifeOK, LinkOK, WsiExact,
              NotAbandoned, NoLostWakeup, Announced, NothingLeft, Up
<1>2. CASE SendStep
  BY <1>2, EnqueueInv, WakeInv DEF SendStep
<1>3. CASE MainStep
  BY <1>3, SetReconnectInv, StartInv, SpawnInv, SpawnFailsInv, StopInv, StopWakeInv,
     JoinInv, ContextDestroyInv, DestroyInv DEF MainStep, StopStep
<1>4. CASE Leave \/ Retry \/ DialStep \/ Flush
  BY <1>4, LeaveInv, RetryInv, DoConnectInv, DoConnectFailsInv, FlushInv DEF DialStep
<1>5. CASE LinkStep \/ TickStep \/ Pong
  BY <1>5, EstablishedInv, ConnectionErrorInv, ClosedInv, PongTimeoutInv, AskPingInv,
     PongInv DEF LinkStep, TickStep
<1>6. CASE WaitCancelled \/ WritePing \/ Dequeue \/ WorkStep
  BY <1>6, WaitCancelledInv, WritePingInv, DequeueInv, PingDoneInv, WriteInv,
     WriteFailsInv DEF WorkStep
<1> QED BY <1>1, <1>2, <1>3, <1>4, <1>5, <1>6 DEF Next, ThreadStep

-----------------------------------------------------------------------------
\* The invariant is inductive and holds initially.
THEOREM V1Invariance == Spec => []IInv
BY InitInv, NextInv, PTL DEF Spec

\* Type correctness of the v1 client; reconnect_delay_ms stays between init and max.
THEOREM V1TypeCorrect == Spec => []TypeOK
<1>1. IInv => TypeOK
  BY DEF IInv
<1> QED BY <1>1, V1Invariance, PTL

\* c->wsi is the connection lws has; a running client always has one or a retry planned.
THEOREM V1ConnectionKept == Spec => []ConnectionKept
<1>1. IInv => ConnectionKept
  BY DEF IInv, ConnectionKept
<1> QED BY <1>1, V1Invariance, PTL

\* A queue on an established connection is announced, except for a queue the
\* connection came up on.
THEOREM V1WakeupNotLost == Spec => []NoLostWakeup
<1>1. IInv => NoLostWakeup
  BY DEF IInv
<1> QED BY <1>1, V1Invariance, PTL

\* A stop leaves no thread, connection or context, a destroy no message.
THEOREM V1NothingLeft == Spec => []NothingLeft
<1>1. IInv => NothingLeft
  BY DEF IInv
<1> QED BY <1>1, V1Invariance, PTL

-----------------------------------------------------------------------------
(***************************************************************************)
(* The back-off.  Its invariant: reconnect_delay_ms is the wait to plan    *)
(* next, in terms of the one planned last, and a retry is planned only     *)
(* where there is neither a connection nor a dial.                         *)
(***************************************************************************)
RetryOK ==
  /\ delay = Due
  /\ wait # 0 => wsi = None /\ thread # "dial" /\ main # "opened"

\* The code's doubling, and the one the property speaks of.
LEMMA DoublingCapped ==
  ASSUME NEW d \in InitDelay..MaxDelay
  PROVE  Doubled(d) = Capped(2 * d) /\ Doubled(d) \in InitDelay..MaxDelay /\ d # 0
BY DelayAssumption DEF Doubled, Capped

LEMMA ScheduleKeeps ==
  ASSUME NEW d \in InitDelay..MaxDelay, ScheduleReconnect(d) PROVE delay' = Due'
BY DoublingCapped DEF ScheduleReconnect, Due

LEMMA LostRetry ==
  ASSUME IInv, RetryOK, NEW w \in Wsis, Lost(w), thread \in {"poll", "write"},
         thread' = "poll", main' = main, wsi = w
  PROVE  RetryOK'
<1>1. wsi' = None /\ thread' # "dial" /\ main' # "opened"
  BY DEF Lost, Forget, IInv, LifeOK
<1>2. delay' = Due'
  <2>1. CASE stopping
    BY <2>1 DEF Lost, retryVars, RetryOK, Due
  <2>2. CASE ~stopping
    BY <2>2, ScheduleKeeps DEF Lost, IInv, TypeOK, PlacesTyped
  <2> QED BY <2>1, <2>2
<1> QED BY <1>1, <1>2 DEF RetryOK

LEMMA RetryStep == ASSUME IInv, RetryOK, [Next]_vars PROVE RetryOK'
<1>1. ASSUME NEW w \in Wsis,
             ConnectionError(w) \/ Closed(w) \/ WriteFails(w) \/ PongTimeout(w)
      PROVE  RetryOK'
  <2>1. wsi = w
    BY <1>1 DEF ConnectionError, Closed, WriteFails, PongTimeout, IInv, LifeOK, WsiExact
  <2> QED BY <1>1, <2>1, LostRetry
          DEF ConnectionError, Closed, WriteFails, PongTimeout, mainVars
<1>2. CASE DoConnectFails
  <2>1. delay \in InitDelay..MaxDelay /\ main # "opened"
    BY <1>2 DEF DoConnectFails, IInv, TypeOK, PlacesTyped, LifeOK
  <2>2. delay' = Due'
    BY <1>2, <2>1, DoublingCapped, ScheduleKeeps DEF DoConnectFails, PlansAnew
  <2> QED BY <1>2, <2>1, <2>2 DEF DoConnectFails, mainVars, RetryOK
<1>3. ASSUME NEW w \in Wsis, Established(w) PROVE RetryOK'
  <2>1. wait = 0
    BY <1>3, NullAssumption DEF Established, IInv, LifeOK, WsiExact, RetryOK
  <2> QED BY <1>3, <2>1 DEF Established, RetryOK, Due
<1>4. CASE SetReconnect
  BY <1>4 DEF SetReconnect, mainVars, linkVars, RetryOK, Due
<1>5. CASE Start \/ Spawn \/ Retry \/ \E w \in Wsis : DoConnect(w)
  BY <1>5 DEF Start, Spawn, Retry, DoConnect, mainVars, linkVars, retryVars, RetryOK, Due
<1>6. CASE \/ SendStep \/ SpawnFails \/ Stop \/ StopStep \/ Destroy \/ Leave \/ Flush
           \/ WaitCancelled \/ WritePing \/ Dequeue \/ PingDone \/ Write \/ AskPing \/ Pong
           \/ UNCHANGED vars
  <2>1. UNCHANGED retryVars /\ wsi' \in {wsi, None}
    BY <1>6 DEF SendStep, Enqueue, Wake, SpawnFails, Stop, StopStep, StopWake, Join,
         ContextDestroy, Destroy, Leave, Flush, WaitCancelled, WritePing, Dequeue, PingDone,
         Write, AskPing, Pong, vars, linkVars
  <2>2. (thread' = "dial" => thread = "dial") /\ (main' = "opened" => main = "opened")
    BY <1>6 DEF SendStep, Enqueue, Wake, SpawnFails, Stop, StopStep, StopWake, Join,
         ContextDestroy, Destroy, Leave, Flush, WaitCancelled, WritePing, Dequeue, PingDone,
         Write, AskPing, Pong, vars, mainVars
  <2> QED BY <2>1, <2>2 DEF retryVars, RetryOK, Due
<1> QED BY <1>1, <1>2, <1>3, <1>4, <1>5, <1>6
        DEF Next, MainStep, ThreadStep, DialStep, LinkStep, TickStep, WorkStep

LEMMA V1RetryOK == Spec => [](IInv /\ RetryOK)
<1>1. Init => RetryOK
  BY DEF Init, RetryOK, Due
<1> QED BY <1>1, InitInv, NextInv, RetryStep, PTL DEF Spec

\* What a step may do to wait, in terms of the state before it.
Planned ==
  wait' # wait /\ wait' # 0 => wait' = Due \/ (CountedTwice /\ wait' = Capped(2 * Due))

LEMMA LostPlans ==
  ASSUME RetryOK, NEW w \in Wsis, Lost(w)
  PROVE  Planned
BY DEF Lost, ScheduleReconnect, retryVars, RetryOK, Planned

LEMMA DialPlans == ASSUME IInv, RetryOK, DoConnectFails PROVE Planned
<1>1. CASE ScheduleReconnect(delay)
  BY <1>1 DEF ScheduleReconnect, RetryOK, Planned
<1>2. CASE ~stopping /\ ScheduleReconnect(Doubled(delay))
  <2>1. Due \in InitDelay..MaxDelay
    BY DEF IInv, RetryOK, TypeOK, PlacesTyped
  <2>2. wait' = Capped(2 * Due)
    BY <1>2, <2>1, DoublingCapped DEF ScheduleReconnect, RetryOK
  <2> QED BY <1>2, <2>2 DEF DoConnectFails, CountedTwice, Planned
<1> QED BY <1>1, <1>2 DEF DoConnectFails, PlansAnew

\* Everything else leaves the planned wait alone, or uses it up.
LEMMA OtherPlans ==
  ASSUME \/ SendStep \/ MainStep \/ Leave \/ Retry \/ Flush \/ WaitCancelled
         \/ WritePing \/ Dequeue \/ PingDone \/ Write \/ AskPing \/ Pong
         \/ (\E w \in Wsis : DoConnect(w) \/ Established(w))
  PROVE  wait' \in {wait, 0}
BY DEF SendStep, Enqueue, Wake, MainStep, StopStep, SetReconnect, Start, Spawn, SpawnFails, Stop,
       StopWake, Join, ContextDestroy, Destroy, Leave, Retry, Flush, WaitCancelled, WritePing, Dequeue,
       PingDone, Write, AskPing, Pong, DoConnect, Established, retryVars

\* The first wait behind a connection is init, and each further failure doubles the wait
\* before it, up to max; only a dial that fails inside lws_client_connect_via_info counts
\* twice (ws_client.c:98-107, 333-337).
THEOREM V1Backoff == Spec => Backoff
<1>1. ASSUME IInv, RetryOK, [Next]_vars PROVE [Planned]_vars
  <2>1. ASSUME NEW w \in Wsis,
               ConnectionError(w) \/ Closed(w) \/ WriteFails(w) \/ PongTimeout(w)
        PROVE  Planned
    BY <1>1, <2>1, LostPlans DEF ConnectionError, Closed, WriteFails, PongTimeout
  <2>2. CASE DoConnectFails
    BY <1>1, <2>2, DialPlans
  <2>3. CASE \/ SendStep \/ MainStep \/ Leave \/ Retry \/ Flush \/ WaitCancelled
             \/ WritePing \/ Dequeue \/ PingDone \/ Write \/ AskPing \/ Pong
             \/ (\E w \in Wsis : DoConnect(w) \/ Established(w))
    BY <2>3, OtherPlans DEF Planned
  <2> QED BY <1>1, <2>1, <2>2, <2>3
          DEF Next, ThreadStep, DialStep, LinkStep, TickStep, WorkStep
<1> QED BY <1>1, V1RetryOK, PTL DEF Spec, Backoff, Planned
-----------------------------------------------------------------------------
(***************************************************************************)
(* The queue: the client implements WsBacklog, of which WsBacklogProofs    *)
(* shows that messages leave it in order, at most once and without a gap.  *)
(***************************************************************************)
LEMMA AcceptStep ==
  ASSUME NEW t \in Senders, Enqueue(t) PROVE Backlog!Accept
BY DEF Enqueue, Room, Behind, workVars, Backlog!Accept

LEMMA TakeStep ==
  ASSUME IInv, Dequeue PROVE [Backlog!Next]_(Backlog!backlogVars)
<1>1. node = 0
  BY DEF Dequeue, IInv, LifeOK
<1>2. CASE queue = <<>>
  BY <1>2 DEF Dequeue, sendVars, Backlog!backlogVars
<1>3. CASE queue # <<>>
  BY <1>1, <1>3 DEF Dequeue, sendVars, Backlog!Next, Backlog!Take
<1> QED BY <1>2, <1>3

LEMMA SettleStep ==
  ASSUME IInv, Write \/ \E w \in Wsis : WriteFails(w)
  PROVE  [Backlog!Next]_(Backlog!backlogVars)
<1>1. node' = 0 /\ UNCHANGED <<sent, queue>>
  BY DEF Write, WriteFails, sendVars
<1>2. CASE node = 0
  BY <1>1, <1>2 DEF Backlog!backlogVars
<1>3. CASE node # 0
  BY <1>1, <1>3 DEF Backlog!Next, Backlog!Settle
<1> QED BY <1>2, <1>3

LEMMA DropStep ==
  ASSUME IInv, Flush \/ Destroy PROVE Backlog!DropAll
<1>1. node = 0
  BY DEF Flush, Destroy, IInv, LifeOK
<1> QED BY <1>1 DEF Flush, Destroy, FreesQueue, sendVars, workVars, Backlog!DropAll

\* Everything else is invisible in the queue.
Hidden ==
  \/ SetReconnect \/ Start \/ Spawn \/ SpawnFails \/ Stop \/ StopWake
  \/ Join \/ ContextDestroy \/ Leave \/ Retry \/ DoConnectFails
  \/ WaitCancelled \/ WritePing \/ PingDone \/ AskPing \/ Pong
  \/ (\E t \in Senders : Wake(t))
  \/ (\E w \in Wsis : \/ DoConnect(w) \/ Established(w) \/ ConnectionError(w)
                     \/ Closed(w) \/ PongTimeout(w))

LEMMA HiddenStep == ASSUME Hidden PROVE UNCHANGED Backlog!backlogVars
BY DEF Hidden, SetReconnect, Start, Spawn, SpawnFails, Stop, StopWake, Join, ContextDestroy,
       Leave, Retry, DoConnectFails, WaitCancelled, WritePing, PingDone, AskPing,
       Pong, Wake, DoConnect, Established, ConnectionError, Closed, PongTimeout,
       Lost, sendVars, workVars, Backlog!backlogVars

\* Messages leave the queue in the order of their acceptance, over starts, stops and
\* reconnects: the client implements WsBacklog.
THEOREM V1Backlog == Spec => BacklogSpec
<1>1. Init => Backlog!Init
  BY DEF Init, Backlog!Init
<1>2. ASSUME IInv, [Next]_vars PROVE [Backlog!Next]_(Backlog!backlogVars)
  <2>1. CASE UNCHANGED vars
    BY <2>1 DEF vars, sendVars, workVars, Backlog!backlogVars
  <2>2. CASE \E t \in Senders : Enqueue(t)
    BY <2>2, AcceptStep DEF Backlog!Next
  <2>3. CASE Dequeue
    BY <1>2, <2>3, TakeStep
  <2>4. CASE Write \/ \E w \in Wsis : WriteFails(w)
    BY <1>2, <2>4, SettleStep
  <2>5. CASE Flush \/ Destroy
    BY <1>2, <2>5, DropStep DEF Backlog!Next
  <2>6. CASE Hidden
    BY <2>6, HiddenStep
  <2> QED BY <1>2, <2>1, <2>2, <2>3, <2>4, <2>5, <2>6
          DEF Next, SendStep, MainStep, StopStep, ThreadStep, DialStep, LinkStep,
              TickStep, WorkStep, Hidden
<1> QED BY <1>1, <1>2, V1Invariance, PTL DEF Spec, BacklogSpec, Backlog!Spec

\* So what waits is what was accepted last, in order and without a gap, and no
\* message is taken twice or overtakes another.
Proved == INSTANCE WsBacklogProofs

THEOREM V1InOrder == Spec => []Backlog!Gapless /\ Backlog!InOrder
<1>1. Backlog!Init => Proved!Init
  BY DEF Backlog!Init, Proved!Init
<1>2. ASSUME [Backlog!Next]_(Backlog!backlogVars)
      PROVE  [Proved!Next]_(Proved!backlogVars)
  BY <1>2 DEF Backlog!backlogVars, Backlog!Next, Backlog!Accept, Backlog!Take,
              Backlog!Settle, Backlog!DropAll, Proved!backlogVars, Proved!Next,
              Proved!Accept, Proved!Take, Proved!Settle, Proved!DropAll
<1>3. Backlog!Spec => Proved!Spec
  BY <1>1, <1>2, PTL DEF Backlog!Spec, Proved!Spec
<1>4. Proved!Gapless => Backlog!Gapless
  BY DEF Proved!Gapless, Proved!Left, Backlog!Gapless, Backlog!Left
<1>5. ASSUME [/\ Proved!Left <= Proved!Left'
              /\ node' \notin {0, node} =>
                   node' = Proved!Left + 1 /\ Proved!Left' = Proved!Left + 1]_(Proved!backlogVars)
      PROVE  [/\ Backlog!Left <= Backlog!Left'
              /\ node' \notin {0, node} =>
                   node' = Backlog!Left + 1 /\ Backlog!Left' = Backlog!Left + 1]_(Backlog!backlogVars)
  BY <1>5 DEF Proved!Left, Proved!backlogVars, Backlog!Left, Backlog!backlogVars
<1>6. Proved!InOrder => Backlog!InOrder
  BY <1>5, PTL DEF Proved!InOrder, Backlog!InOrder
<1>7. Proved!Spec => []Proved!Gapless /\ Proved!InOrder
  BY Proved!BacklogOrder
<1> QED BY <1>3, <1>4, <1>6, <1>7, V1Backlog, PTL DEF BacklogSpec
=============================================================================
