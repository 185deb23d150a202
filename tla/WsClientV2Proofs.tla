-------------------------- MODULE WsClientV2Proofs --------------------------
(***************************************************************************)
(* Proofs about WsClientV2, for any senders, addresses, limits, delays and *)
(* hooks: an inductive invariant and the safety properties it implies.     *)
(***************************************************************************)
EXTENDS WsClientV2, SequenceTheorems, TLAPS

\* The places of the two threads: the service thread exists between its creation
\* and the join, the context between start and the end of the stop.
LifeOK ==
  /\ thread = "none" <=> main \in {"out", "opened", "joined", "gone"}
  /\ ctx <=> main \notin {"out", "gone"}
  /\ main = "opened" => state = "IDLE"

\* Connection and client: WRITEABLE works on a connection; a dial, a scheduled
\* retry and a start find none; a dial and a start find no retry scheduled and no
\* breaker open either.
LinkOK ==
  /\ thread \in {"pinged", "write", "written"} => wsi # None
  /\ thread = "dial" \/ main \in {"out", "opened", "gone"} \/ sul => wsi = None
  /\ thread = "dial" \/ main \in {"out", "opened", "gone"} => ~sul /\ state # "STOPPED"

\* What is queued was accepted after the last flush.
QueueOK ==
  /\ flushed <= sent
  /\ \A i \in 1..Len(queue) : flushed < queue[i] /\ queue[i] <= sent

IInv == /\ TypeOK /\ LifeOK /\ LinkOK /\ QueueOK
        /\ WsiExact /\ NotAbandoned /\ BreakerHolds
        /\ NoLostWakeup /\ HeartbeatGoesOn /\ LeaksOnlyLate

LEMMA InitInv == Init => IInv
<1> SUFFICES ASSUME Init PROVE IInv
  OBVIOUS
<1>1. PlacesTyped
  BY DEF Init, PlacesTyped
<1>2. QueueTyped
  BY EmptySeq DEF Init, QueueTyped
<1>3. FlagsTyped
  BY Zenon DEF Init, FlagsTyped
<1>4. LifeOK /\ LinkOK /\ QueueOK /\ WsiExact
  BY NullAssumption DEF Init, LifeOK, LinkOK, QueueOK, WsiExact
<1>5. NotAbandoned /\ BreakerHolds /\ NoLostWakeup /\ HeartbeatGoesOn /\ LeaksOnlyLate
  BY DEF Init, NotAbandoned, BreakerHolds, NoLostWakeup, HeartbeatGoesOn,
         LeaksOnlyLate, Up
<1> QED BY <1>1, <1>2, <1>3, <1>4, <1>5 DEF IInv, TypeOK

-----------------------------------------------------------------------------
(***************************************************************************)
(* One lemma per action: first the conjuncts it does not touch, then one   *)
(* step for each that it might disturb.                                    *)
(***************************************************************************)
LEMMA EnqueueInv == ASSUME IInv, NEW t \in Senders, Enqueue(t) PROVE IInv'
<1>1. /\ PlacesTyped' /\ FlagsTyped' /\ LifeOK' /\ LinkOK'
      /\ WsiExact' /\ NotAbandoned' /\ BreakerHolds' /\ HeartbeatGoesOn'
  BY DEF IInv, TypeOK, PlacesTyped, FlagsTyped, LifeOK, LinkOK, WsiExact,
         NotAbandoned, BreakerHolds, HeartbeatGoesOn, Up, Enqueue, Behind, Room,
         mainVars, linkVars, retryVars, pingVars
<1>2. QueueTyped'
  BY DEF IInv, TypeOK, QueueTyped, Enqueue, Behind, Room, mainVars, linkVars,
         retryVars, pingVars
<1>3. QueueOK'
  BY DEF IInv, TypeOK, QueueOK, QueueTyped, Enqueue, Behind, Room, mainVars, linkVars,
         retryVars, pingVars
<1>4. NoLostWakeup'
  BY NullAssumption DEF IInv, TypeOK, NoLostWakeup, PlacesTyped, QueueTyped,
         FlagsTyped, LifeOK, LinkOK, WsiExact, Announced, Up, Enqueue, Behind, Room,
         mainVars, linkVars, retryVars, pingVars
<1>5. LeaksOnlyLate'
  BY DEF IInv, TypeOK, LeaksOnlyLate, QueueTyped, PlacesTyped, LifeOK, QueueOK,
         Enqueue, Behind, Room, mainVars, linkVars, retryVars, pingVars
<1> QED BY <1>1, <1>2, <1>3, <1>4, <1>5 DEF IInv, TypeOK

LEMMA WakeInv == ASSUME IInv, NEW t \in Senders, Wake(t) PROVE IInv'
<1>1. /\ PlacesTyped' /\ LifeOK' /\ LinkOK' /\ QueueOK' /\ WsiExact'
      /\ NotAbandoned' /\ BreakerHolds' /\ HeartbeatGoesOn' /\ LeaksOnlyLate'
  BY DEF IInv, TypeOK, PlacesTyped, LifeOK, LinkOK, QueueOK, WsiExact,
         NotAbandoned, BreakerHolds, HeartbeatGoesOn, LeaksOnlyLate, Up, Wake,
         mainVars, linkVars, retryVars, pingVars
<1>2. QueueTyped'
  BY DEF IInv, TypeOK, QueueTyped, Wake, mainVars, linkVars, retryVars,
         pingVars
<1>3. FlagsTyped'
  BY FlagAssumption DEF IInv, TypeOK, FlagsTyped, Wake, mainVars, linkVars,
         retryVars, pingVars
<1>4. NoLostWakeup'
  BY NullAssumption DEF IInv, TypeOK, NoLostWakeup, PlacesTyped, QueueTyped,
         FlagsTyped, LifeOK, LinkOK, WsiExact, Announced, Up, Wake, mainVars,
         linkVars, retryVars, pingVars
<1> QED BY <1>1, <1>2, <1>3, <1>4 DEF IInv, TypeOK

LEMMA StartInv == ASSUME IInv, Start PROVE IInv'
<1>1. QueueTyped' /\ QueueOK' /\ WsiExact' /\ HeartbeatGoesOn'
  BY DEF IInv, TypeOK, QueueTyped, QueueOK, WsiExact, HeartbeatGoesOn, Up,
         Start, retryVars, pingVars, sendVars
<1>2. PlacesTyped'
  BY DelayAssumption DEF IInv, TypeOK, PlacesTyped, Start, retryVars, pingVars,
         sendVars
<1>3. FlagsTyped'
  BY FlagAssumption DEF IInv, TypeOK, FlagsTyped, Start, retryVars, pingVars,
         sendVars
<1>4. LifeOK'
  BY DEF IInv, TypeOK, LifeOK, PlacesTyped, Start, retryVars, pingVars,
         sendVars
<1>5. LinkOK'
  BY NullAssumption DEF IInv, TypeOK, LinkOK, PlacesTyped, LifeOK, WsiExact,
         NotAbandoned, BreakerHolds, Start, retryVars, pingVars, sendVars
<1>6. NotAbandoned'
  BY NullAssumption DEF IInv, TypeOK, NotAbandoned, PlacesTyped, LifeOK,
         LinkOK, WsiExact, Start, retryVars, pingVars, sendVars
<1>7. BreakerHolds'
  BY NullAssumption DEF IInv, TypeOK, BreakerHolds, PlacesTyped, LifeOK,
         LinkOK, WsiExact, Start, retryVars, pingVars, sendVars
<1>8. NoLostWakeup'
  BY NullAssumption DEF IInv, TypeOK, NoLostWakeup, PlacesTyped, QueueTyped,
         FlagsTyped, LifeOK, LinkOK, WsiExact, Announced, Up, Start, retryVars,
         pingVars, sendVars
<1>9. LeaksOnlyLate'
  BY DEF IInv, TypeOK, LeaksOnlyLate, QueueTyped, PlacesTyped, LifeOK, QueueOK,
         Start, retryVars, pingVars, sendVars
<1> QED BY <1>1, <1>2, <1>3, <1>4, <1>5, <1>6, <1>7, <1>8, <1>9 DEF IInv, TypeOK

LEMMA SpawnInv == ASSUME IInv, Spawn PROVE IInv'
<1>1. QueueTyped' /\ FlagsTyped' /\ QueueOK' /\ WsiExact' /\ HeartbeatGoesOn'
  BY DEF IInv, TypeOK, QueueTyped, FlagsTyped, QueueOK, WsiExact,
         HeartbeatGoesOn, Up, Spawn, linkVars, retryVars, pingVars, sendVars
<1>2. PlacesTyped'
  BY DelayAssumption DEF IInv, TypeOK, PlacesTyped, Spawn, linkVars, retryVars,
         pingVars, sendVars
<1>3. LifeOK'
  BY DEF IInv, TypeOK, LifeOK, PlacesTyped, Spawn, linkVars, retryVars,
         pingVars, sendVars
<1>4. LinkOK'
  BY NullAssumption DEF IInv, TypeOK, LinkOK, PlacesTyped, LifeOK, WsiExact,
         NotAbandoned, BreakerHolds, Spawn, linkVars, retryVars, pingVars,
         sendVars
<1>5. NotAbandoned'
  BY NullAssumption DEF IInv, TypeOK, NotAbandoned, PlacesTyped, LifeOK,
         LinkOK, WsiExact, Spawn, linkVars, retryVars, pingVars, sendVars
<1>6. BreakerHolds'
  BY NullAssumption DEF IInv, TypeOK, BreakerHolds, PlacesTyped, LifeOK,
         LinkOK, WsiExact, Spawn, linkVars, retryVars, pingVars, sendVars
<1>7. NoLostWakeup'
  BY NullAssumption DEF IInv, TypeOK, NoLostWakeup, PlacesTyped, QueueTyped,
         FlagsTyped, LifeOK, LinkOK, WsiExact, Announced, Up, Spawn, linkVars,
         retryVars, pingVars, sendVars
<1>8. LeaksOnlyLate'
  BY DEF IInv, TypeOK, LeaksOnlyLate, QueueTyped, PlacesTyped, LifeOK, QueueOK,
         Spawn, linkVars, retryVars, pingVars, sendVars
<1> QED BY <1>1, <1>2, <1>3, <1>4, <1>5, <1>6, <1>7, <1>8 DEF IInv, TypeOK

LEMMA SpawnFailsInv == ASSUME IInv, SpawnFails PROVE IInv'
<1>1. /\ QueueTyped' /\ QueueOK' /\ WsiExact'
      /\ NotAbandoned' /\ BreakerHolds' /\ HeartbeatGoesOn'
  BY DEF IInv, TypeOK, QueueTyped, QueueOK, WsiExact, NotAbandoned,
         BreakerHolds, HeartbeatGoesOn, Up, SpawnFails, linkVars, retryVars,
         pingVars, sendVars
<1>2. PlacesTyped'
  BY DelayAssumption DEF IInv, TypeOK, PlacesTyped, SpawnFails, linkVars,
         retryVars, pingVars, sendVars
<1>3. FlagsTyped'
  BY FlagAssumption DEF IInv, TypeOK, FlagsTyped, SpawnFails, linkVars,
         retryVars, pingVars, sendVars
<1>4. LifeOK'
  BY DEF IInv, TypeOK, LifeOK, PlacesTyped, SpawnFails, linkVars, retryVars,
         pingVars, sendVars
<1>5. LinkOK'
  BY NullAssumption DEF IInv, TypeOK, LinkOK, PlacesTyped, LifeOK, WsiExact,
         NotAbandoned, BreakerHolds, SpawnFails, linkVars, retryVars, pingVars,
         sendVars
<1>6. NoLostWakeup'
  BY NullAssumption DEF IInv, TypeOK, NoLostWakeup, PlacesTyped, QueueTyped,
         FlagsTyped, LifeOK, LinkOK, WsiExact, Announced, Up, SpawnFails,
         linkVars, retryVars, pingVars, sendVars
<1>7. LeaksOnlyLate'
  BY DEF IInv, TypeOK, LeaksOnlyLate, QueueTyped, PlacesTyped, LifeOK, QueueOK,
         SpawnFails, linkVars, retryVars, pingVars, sendVars
<1> QED BY <1>1, <1>2, <1>3, <1>4, <1>5, <1>6, <1>7 DEF IInv, TypeOK

LEMMA StopInv == ASSUME IInv, Stop PROVE IInv'
<1>1. QueueTyped' /\ QueueOK' /\ WsiExact' /\ BreakerHolds' /\ HeartbeatGoesOn'
  BY DEF IInv, TypeOK, QueueTyped, QueueOK, WsiExact, BreakerHolds,
         HeartbeatGoesOn, Up, Stop, linkVars, retryVars, pingVars, sendVars
<1>2. PlacesTyped'
  BY DelayAssumption DEF IInv, TypeOK, PlacesTyped, Stop, linkVars, retryVars,
         pingVars, sendVars
<1>3. FlagsTyped'
  BY FlagAssumption DEF IInv, TypeOK, FlagsTyped, Stop, linkVars, retryVars,
         pingVars, sendVars
<1>4. LifeOK'
  BY DEF IInv, TypeOK, LifeOK, PlacesTyped, Stop, linkVars, retryVars,
         pingVars, sendVars
<1>5. LinkOK'
  BY NullAssumption DEF IInv, TypeOK, LinkOK, PlacesTyped, LifeOK, WsiExact,
         NotAbandoned, BreakerHolds, Stop, linkVars, retryVars, pingVars,
         sendVars
<1>6. NotAbandoned'
  BY NullAssumption DEF IInv, TypeOK, NotAbandoned, PlacesTyped, LifeOK,
         LinkOK, WsiExact, Stop, linkVars, retryVars, pingVars, sendVars
<1>7. NoLostWakeup'
  BY NullAssumption DEF IInv, TypeOK, NoLostWakeup, PlacesTyped, QueueTyped,
         FlagsTyped, LifeOK, LinkOK, WsiExact, Announced, Up, Stop, linkVars,
         retryVars, pingVars, sendVars
<1>8. LeaksOnlyLate'
  BY DEF IInv, TypeOK, LeaksOnlyLate, QueueTyped, PlacesTyped, LifeOK, QueueOK,
         Stop, linkVars, retryVars, pingVars, sendVars
<1> QED BY <1>1, <1>2, <1>3, <1>4, <1>5, <1>6, <1>7, <1>8 DEF IInv, TypeOK

LEMMA StopWakeInv == ASSUME IInv, StopWake PROVE IInv'
<1>1. /\ QueueTyped' /\ QueueOK' /\ WsiExact'
      /\ NotAbandoned' /\ BreakerHolds' /\ HeartbeatGoesOn'
  BY DEF IInv, TypeOK, QueueTyped, QueueOK, WsiExact, NotAbandoned,
         BreakerHolds, HeartbeatGoesOn, Up, StopWake, linkVars, retryVars,
         pingVars, sendVars
<1>2. PlacesTyped'
  BY DelayAssumption DEF IInv, TypeOK, PlacesTyped, StopWake, linkVars,
         retryVars, pingVars, sendVars
<1>3. FlagsTyped'
  BY FlagAssumption DEF IInv, TypeOK, FlagsTyped, StopWake, linkVars,
         retryVars, pingVars, sendVars
<1>4. LifeOK'
  BY DEF IInv, TypeOK, LifeOK, PlacesTyped, StopWake, linkVars, retryVars,
         pingVars, sendVars
<1>5. LinkOK'
  BY NullAssumption DEF IInv, TypeOK, LinkOK, PlacesTyped, LifeOK, WsiExact,
         NotAbandoned, BreakerHolds, StopWake, linkVars, retryVars, pingVars,
         sendVars
<1>6. NoLostWakeup'
  BY NullAssumption DEF IInv, TypeOK, NoLostWakeup, PlacesTyped, QueueTyped,
         FlagsTyped, LifeOK, LinkOK, WsiExact, Announced, Up, StopWake,
         linkVars, retryVars, pingVars, sendVars
<1>7. LeaksOnlyLate'
  BY DEF IInv, TypeOK, LeaksOnlyLate, QueueTyped, PlacesTyped, LifeOK, QueueOK,
         StopWake, linkVars, retryVars, pingVars, sendVars
<1> QED BY <1>1, <1>2, <1>3, <1>4, <1>5, <1>6, <1>7 DEF IInv, TypeOK

LEMMA JoinInv == ASSUME IInv, Join PROVE IInv'
<1>1. QueueTyped' /\ FlagsTyped' /\ QueueOK' /\ WsiExact' /\ HeartbeatGoesOn'
  BY DEF IInv, TypeOK, QueueTyped, FlagsTyped, QueueOK, WsiExact,
         HeartbeatGoesOn, Up, Join, linkVars, retryVars, pingVars, sendVars
<1>2. PlacesTyped'
  BY DelayAssumption DEF IInv, TypeOK, PlacesTyped, Join, linkVars, retryVars,
         pingVars, sendVars
<1>3. LifeOK'
  BY DEF IInv, TypeOK, LifeOK, PlacesTyped, Join, linkVars, retryVars,
         pingVars, sendVars
<1>4. LinkOK'
  BY NullAssumption DEF IInv, TypeOK, LinkOK, PlacesTyped, LifeOK, WsiExact,
         NotAbandoned, BreakerHolds, Join, linkVars, retryVars, pingVars,
         sendVars
<1>5. NotAbandoned'
  BY NullAssumption DEF IInv, TypeOK, NotAbandoned, PlacesTyped, LifeOK,
         LinkOK, WsiExact, Join, linkVars, retryVars, pingVars, sendVars
<1>6. BreakerHolds'
  BY NullAssumption DEF IInv, TypeOK, BreakerHolds, PlacesTyped, LifeOK,
         LinkOK, WsiExact, Join, linkVars, retryVars, pingVars, sendVars
<1>7. NoLostWakeup'
  BY NullAssumption DEF IInv, TypeOK, NoLostWakeup, PlacesTyped, QueueTyped,
         FlagsTyped, LifeOK, LinkOK, WsiExact, Announced, Up, Join, linkVars,
         retryVars, pingVars, sendVars
<1>8. LeaksOnlyLate'
  BY DEF IInv, TypeOK, LeaksOnlyLate, QueueTyped, PlacesTyped, LifeOK, QueueOK,
         Join, linkVars, retryVars, pingVars, sendVars
<1> QED BY <1>1, <1>2, <1>3, <1>4, <1>5, <1>6, <1>7, <1>8 DEF IInv, TypeOK

LEMMA ContextDestroyInv == ASSUME IInv, ContextDestroy PROVE IInv'
<1>1. QueueTyped' /\ QueueOK'
  BY DEF IInv, TypeOK, QueueTyped, QueueOK, ContextDestroy, sendVars
<1>2. PlacesTyped'
  BY DelayAssumption DEF IInv, TypeOK, PlacesTyped, ContextDestroy, sendVars
<1>3. FlagsTyped'
  BY FlagAssumption DEF IInv, TypeOK, FlagsTyped, ContextDestroy, sendVars
<1>4. LifeOK'
  BY DEF IInv, TypeOK, LifeOK, PlacesTyped, ContextDestroy, sendVars
<1>5. LinkOK'
  BY NullAssumption DEF IInv, TypeOK, LinkOK, PlacesTyped, LifeOK, WsiExact,
         NotAbandoned, BreakerHolds, ContextDestroy, sendVars
<1>6. WsiExact'
  BY NullAssumption DEF IInv, TypeOK, WsiExact, PlacesTyped, LifeOK, LinkOK,
         ContextDestroy, sendVars
<1>7. NotAbandoned'
  BY NullAssumption DEF IInv, TypeOK, NotAbandoned, PlacesTyped, LifeOK,
         LinkOK, WsiExact, ContextDestroy, sendVars
<1>8. BreakerHolds'
  BY NullAssumption DEF IInv, TypeOK, BreakerHolds, PlacesTyped, LifeOK,
         LinkOK, WsiExact, ContextDestroy, sendVars
<1>9. NoLostWakeup'
  BY NullAssumption DEF IInv, TypeOK, NoLostWakeup, PlacesTyped, QueueTyped,
         FlagsTyped, LifeOK, LinkOK, WsiExact, Announced, Up, ContextDestroy,
         sendVars
<1>10. HeartbeatGoesOn'
  BY NullAssumption, FlagAssumption DEF IInv, TypeOK, HeartbeatGoesOn,
         PlacesTyped, FlagsTyped, LifeOK, LinkOK, WsiExact, Up, ContextDestroy,
         sendVars
<1>11. LeaksOnlyLate'
  BY DEF IInv, TypeOK, LeaksOnlyLate, QueueTyped, PlacesTyped, LifeOK, QueueOK,
         ContextDestroy, sendVars
<1> QED BY <1>1, <1>2, <1>3, <1>4, <1>5, <1>6, <1>7, <1>8, <1>9, <1>10, <1>11 DEF IInv, TypeOK

LEMMA DestroyInv == ASSUME IInv, Destroy PROVE IInv'
<1>1. /\ QueueTyped' /\ FlagsTyped' /\ QueueOK' /\ WsiExact'
      /\ NotAbandoned' /\ BreakerHolds' /\ NoLostWakeup' /\ HeartbeatGoesOn'
  BY DEF IInv, TypeOK, QueueTyped, FlagsTyped, QueueOK, WsiExact, NotAbandoned,
         BreakerHolds, NoLostWakeup, HeartbeatGoesOn, Announced, Up, Destroy,
         linkVars, retryVars, pingVars, sendVars
<1>2. PlacesTyped'
  BY DelayAssumption DEF IInv, TypeOK, PlacesTyped, Destroy, linkVars,
         retryVars, pingVars, sendVars
<1>3. LifeOK'
  BY DEF IInv, TypeOK, LifeOK, PlacesTyped, Destroy, linkVars, retryVars,
         pingVars, sendVars
<1>4. LinkOK'
  BY NullAssumption DEF IInv, TypeOK, LinkOK, PlacesTyped, LifeOK, WsiExact,
         NotAbandoned, BreakerHolds, Destroy, linkVars, retryVars, pingVars,
         sendVars
<1>5. LeaksOnlyLate'
  BY DEF IInv, TypeOK, LeaksOnlyLate, QueueTyped, PlacesTyped, LifeOK, QueueOK,
         Destroy, linkVars, retryVars, pingVars, sendVars
<1> QED BY <1>1, <1>2, <1>3, <1>4, <1>5 DEF IInv, TypeOK

LEMMA SulReconnectInv == ASSUME IInv, SulReconnect PROVE IInv'
<1>1. /\ QueueTyped' /\ QueueOK' /\ WsiExact'
      /\ HeartbeatGoesOn' /\ LeaksOnlyLate'
  BY DEF IInv, TypeOK, QueueTyped, QueueOK, WsiExact, HeartbeatGoesOn,
         LeaksOnlyLate, Up, SulReconnect, mainVars, linkVars, pingVars,
         sendVars
<1>2. PlacesTyped'
  BY DelayAssumption DEF IInv, TypeOK, PlacesTyped, SulReconnect, mainVars,
         linkVars, pingVars, sendVars
<1>3. FlagsTyped'
  BY FlagAssumption DEF IInv, TypeOK, FlagsTyped, SulReconnect, mainVars,
         linkVars, pingVars, sendVars
<1>4. LifeOK'
  BY DEF IInv, TypeOK, LifeOK, PlacesTyped, SulReconnect, mainVars, linkVars,
         pingVars, sendVars
<1>5. LinkOK'
  BY NullAssumption DEF IInv, TypeOK, LinkOK, PlacesTyped, LifeOK, WsiExact,
         NotAbandoned, BreakerHolds, SulReconnect, mainVars, linkVars,
         pingVars, sendVars
<1>6. NotAbandoned'
  BY NullAssumption DEF IInv, TypeOK, NotAbandoned, PlacesTyped, LifeOK,
         LinkOK, WsiExact, SulReconnect, mainVars, linkVars, pingVars, sendVars
<1>7. BreakerHolds'
  BY NullAssumption DEF IInv, TypeOK, BreakerHolds, PlacesTyped, LifeOK,
         LinkOK, WsiExact, SulReconnect, mainVars, linkVars, pingVars, sendVars
<1>8. NoLostWakeup'
  BY NullAssumption DEF IInv, TypeOK, NoLostWakeup, PlacesTyped, QueueTyped,
         FlagsTyped, LifeOK, LinkOK, WsiExact, Announced, Up, SulReconnect,
         mainVars, linkVars, pingVars, sendVars
<1> QED BY <1>1, <1>2, <1>3, <1>4, <1>5, <1>6, <1>7, <1>8 DEF IInv, TypeOK

LEMMA DoConnectInv == ASSUME IInv, NEW w \in Wsis, DoConnect(w) PROVE IInv'
<1>1. QueueTyped' /\ FlagsTyped' /\ QueueOK' /\ LeaksOnlyLate'
  BY DEF IInv, TypeOK, QueueTyped, FlagsTyped, QueueOK, LeaksOnlyLate,
         DoConnect, mainVars, retryVars, pingVars, sendVars
<1>2. PlacesTyped'
  BY DelayAssumption DEF IInv, TypeOK, PlacesTyped, DoConnect, mainVars,
         retryVars, pingVars, sendVars
<1>3. LifeOK'
  BY DEF IInv, TypeOK, LifeOK, PlacesTyped, DoConnect, mainVars, retryVars,
         pingVars, sendVars
<1>4. LinkOK'
  BY NullAssumption DEF IInv, TypeOK, LinkOK, PlacesTyped, LifeOK, WsiExact,
         NotAbandoned, BreakerHolds, DoConnect, mainVars, retryVars, pingVars,
         sendVars
<1>5. WsiExact'
  BY NullAssumption DEF IInv, TypeOK, WsiExact, PlacesTyped, LifeOK, LinkOK,
         DoConnect, mainVars, retryVars, pingVars, sendVars
<1>6. NotAbandoned'
  BY NullAssumption DEF IInv, TypeOK, NotAbandoned, PlacesTyped, LifeOK,
         LinkOK, WsiExact, DoConnect, mainVars, retryVars, pingVars, sendVars
<1>7. BreakerHolds'
  BY NullAssumption DEF IInv, TypeOK, BreakerHolds, PlacesTyped, LifeOK,
         LinkOK, WsiExact, DoConnect, mainVars, retryVars, pingVars, sendVars
<1>8. NoLostWakeup'
  BY NullAssumption DEF IInv, TypeOK, NoLostWakeup, PlacesTyped, QueueTyped,
         FlagsTyped, LifeOK, LinkOK, WsiExact, Announced, Up, DoConnect,
         mainVars, retryVars, pingVars, sendVars
<1>9. HeartbeatGoesOn'
  BY NullAssumption, FlagAssumption DEF IInv, TypeOK, HeartbeatGoesOn,
         PlacesTyped, FlagsTyped, LifeOK, LinkOK, WsiExact, Up, DoConnect,
         mainVars, retryVars, pingVars, sendVars
<1> QED BY <1>1, <1>2, <1>3, <1>4, <1>5, <1>6, <1>7, <1>8, <1>9 DEF IInv, TypeOK

LEMMA DoConnectFailsInv == ASSUME IInv, DoConnectFails PROVE IInv'
<1>1. QueueTyped' /\ QueueOK' /\ HeartbeatGoesOn' /\ LeaksOnlyLate'
  BY DEF IInv, TypeOK, QueueTyped, QueueOK, HeartbeatGoesOn, LeaksOnlyLate, Up,
         DoConnectFails, PlansAnew, ScheduleReconnect, GivesUp, NextDelay,
         mainVars, pingVars, sendVars
<1>2. PlacesTyped'
  BY DelayAssumption DEF IInv, TypeOK, PlacesTyped, DoConnectFails, PlansAnew,
         ScheduleReconnect, GivesUp, NextDelay, mainVars, pingVars, sendVars
<1>3. FlagsTyped'
  BY FlagAssumption DEF IInv, TypeOK, FlagsTyped, DoConnectFails, PlansAnew,
         ScheduleReconnect, GivesUp, NextDelay, mainVars, pingVars, sendVars
<1>4. LifeOK'
  BY DEF IInv, TypeOK, LifeOK, PlacesTyped, DoConnectFails, PlansAnew,
         ScheduleReconnect, GivesUp, NextDelay, mainVars, pingVars, sendVars
<1>5. LinkOK'
  BY NullAssumption DEF IInv, TypeOK, LinkOK, PlacesTyped, LifeOK, WsiExact,
         NotAbandoned, BreakerHolds, DoConnectFails, PlansAnew,
         ScheduleReconnect, GivesUp, NextDelay, mainVars, pingVars, sendVars
<1>6. WsiExact'
  BY NullAssumption DEF IInv, TypeOK, WsiExact, PlacesTyped, LifeOK, LinkOK,
         DoConnectFails, PlansAnew, ScheduleReconnect, GivesUp, NextDelay,
         mainVars, pingVars, sendVars
<1>7. NotAbandoned'
  BY NullAssumption DEF IInv, TypeOK, NotAbandoned, PlacesTyped, LifeOK,
         LinkOK, WsiExact, DoConnectFails, PlansAnew, ScheduleReconnect,
         GivesUp, NextDelay, mainVars, pingVars, sendVars
<1>8. BreakerHolds'
  BY NullAssumption DEF IInv, TypeOK, BreakerHolds, PlacesTyped, LifeOK,
         LinkOK, WsiExact, DoConnectFails, PlansAnew, ScheduleReconnect,
         GivesUp, NextDelay, mainVars, pingVars, sendVars
<1>9. NoLostWakeup'
  BY NullAssumption DEF IInv, TypeOK, NoLostWakeup, PlacesTyped, QueueTyped,
         FlagsTyped, LifeOK, LinkOK, WsiExact, Announced, Up, DoConnectFails,
         PlansAnew, ScheduleReconnect, GivesUp, NextDelay, mainVars, pingVars,
         sendVars
<1> QED BY <1>1, <1>2, <1>3, <1>4, <1>5, <1>6, <1>7, <1>8, <1>9 DEF IInv, TypeOK

LEMMA LeaveInv == ASSUME IInv, Leave PROVE IInv'
<1>1. /\ QueueTyped' /\ FlagsTyped' /\ QueueOK'
      /\ WsiExact' /\ HeartbeatGoesOn' /\ LeaksOnlyLate'
  BY DEF IInv, TypeOK, QueueTyped, FlagsTyped, QueueOK, WsiExact,
         HeartbeatGoesOn, LeaksOnlyLate, Up, Leave, mainVars, linkVars,
         retryVars, pingVars, sendVars
<1>2. PlacesTyped'
  BY DelayAssumption DEF IInv, TypeOK, PlacesTyped, Leave, mainVars, linkVars,
         retryVars, pingVars, sendVars
<1>3. LifeOK'
  BY DEF IInv, TypeOK, LifeOK, PlacesTyped, Leave, mainVars, linkVars,
         retryVars, pingVars, sendVars
<1>4. LinkOK'
  BY NullAssumption DEF IInv, TypeOK, LinkOK, PlacesTyped, LifeOK, WsiExact,
         NotAbandoned, BreakerHolds, Leave, mainVars, linkVars, retryVars,
         pingVars, sendVars
<1>5. NotAbandoned'
  BY NullAssumption DEF IInv, TypeOK, NotAbandoned, PlacesTyped, LifeOK,
         LinkOK, WsiExact, Leave, mainVars, linkVars, retryVars, pingVars,
         sendVars
<1>6. BreakerHolds'
  BY NullAssumption DEF IInv, TypeOK, BreakerHolds, PlacesTyped, LifeOK,
         LinkOK, WsiExact, Leave, mainVars, linkVars, retryVars, pingVars,
         sendVars
<1>7. NoLostWakeup'
  BY NullAssumption DEF IInv, TypeOK, NoLostWakeup, PlacesTyped, QueueTyped,
         FlagsTyped, LifeOK, LinkOK, WsiExact, Announced, Up, Leave, mainVars,
         linkVars, retryVars, pingVars, sendVars
<1> QED BY <1>1, <1>2, <1>3, <1>4, <1>5, <1>6, <1>7 DEF IInv, TypeOK

LEMMA FlushInv == ASSUME IInv, Flush PROVE IInv'
<1>1. FlagsTyped' /\ WsiExact' /\ HeartbeatGoesOn'
  BY DEF IInv, TypeOK, FlagsTyped, WsiExact, HeartbeatGoesOn, Up, Flush,
         FreesQueue, mainVars, linkVars, retryVars, pingVars, sendVars
<1>2. PlacesTyped'
  BY DelayAssumption DEF IInv, TypeOK, PlacesTyped, Flush, FreesQueue,
         mainVars, linkVars, retryVars, pingVars, sendVars
<1>3. QueueTyped'
  BY EmptySeq DEF IInv, TypeOK, QueueTyped, Flush, FreesQueue, mainVars,
         linkVars, retryVars, pingVars, sendVars
<1>4. LifeOK'
  BY DEF IInv, TypeOK, LifeOK, PlacesTyped, Flush, FreesQueue, mainVars,
         linkVars, retryVars, pingVars, sendVars
<1>5. LinkOK'
  BY NullAssumption DEF IInv, TypeOK, LinkOK, PlacesTyped, LifeOK, WsiExact,
         NotAbandoned, BreakerHolds, Flush, FreesQueue, mainVars, linkVars,
         retryVars, pingVars, sendVars
<1>6. QueueOK'
  BY DEF IInv, TypeOK, QueueOK, QueueTyped, Flush, FreesQueue, mainVars,
         linkVars, retryVars, pingVars, sendVars
<1>7. NotAbandoned'
  BY NullAssumption DEF IInv, TypeOK, NotAbandoned, PlacesTyped, LifeOK,
         LinkOK, WsiExact, Flush, FreesQueue, mainVars, linkVars, retryVars,
         pingVars, sendVars
<1>8. BreakerHolds'
  BY NullAssumption DEF IInv, TypeOK, BreakerHolds, PlacesTyped, LifeOK,
         LinkOK, WsiExact, Flush, FreesQueue, mainVars, linkVars, retryVars,
         pingVars, sendVars
<1>9. NoLostWakeup'
  BY NullAssumption DEF IInv, TypeOK, NoLostWakeup, PlacesTyped, QueueTyped,
         FlagsTyped, LifeOK, LinkOK, WsiExact, Announced, Up, Flush,
         FreesQueue, mainVars, linkVars, retryVars, pingVars, sendVars
<1>10. LeaksOnlyLate'
  BY DEF IInv, TypeOK, LeaksOnlyLate, QueueTyped, PlacesTyped, LifeOK, QueueOK,
         Flush, FreesQueue, mainVars, linkVars, retryVars, pingVars, sendVars
<1> QED BY <1>1, <1>2, <1>3, <1>4, <1>5, <1>6, <1>7, <1>8, <1>9, <1>10 DEF IInv, TypeOK

LEMMA EstablishedInv == ASSUME IInv, NEW w \in Wsis, Established(w) PROVE IInv'
<1>1. QueueTyped' /\ QueueOK' /\ LeaksOnlyLate'
  BY DEF IInv, TypeOK, QueueTyped, QueueOK, LeaksOnlyLate, Established,
         mainVars, sendVars
<1>2. PlacesTyped'
  BY DelayAssumption DEF IInv, TypeOK, PlacesTyped, Established, mainVars,
         sendVars
<1>3. FlagsTyped'
  BY FlagAssumption DEF IInv, TypeOK, FlagsTyped, Established, mainVars,
         sendVars
<1>4. LifeOK'
  BY DEF IInv, TypeOK, LifeOK, PlacesTyped, Established, mainVars, sendVars
<1>5. LinkOK'
  BY NullAssumption DEF IInv, TypeOK, LinkOK, PlacesTyped, LifeOK, WsiExact,
         NotAbandoned, BreakerHolds, Established, mainVars, sendVars
<1>6. WsiExact'
  BY NullAssumption DEF IInv, TypeOK, WsiExact, PlacesTyped, LifeOK, LinkOK,
         Established, mainVars, sendVars
<1>7. NotAbandoned'
  BY NullAssumption DEF IInv, TypeOK, NotAbandoned, PlacesTyped, LifeOK,
         LinkOK, WsiExact, Established, mainVars, sendVars
<1>8. BreakerHolds'
  BY NullAssumption DEF IInv, TypeOK, BreakerHolds, PlacesTyped, LifeOK,
         LinkOK, WsiExact, Established, mainVars, sendVars
<1>9. NoLostWakeup'
  BY NullAssumption DEF IInv, TypeOK, NoLostWakeup, PlacesTyped, QueueTyped,
         FlagsTyped, LifeOK, LinkOK, WsiExact, Announced, Up, Established,
         mainVars, sendVars
<1>10. HeartbeatGoesOn'
  BY NullAssumption, FlagAssumption DEF IInv, TypeOK, HeartbeatGoesOn,
         PlacesTyped, FlagsTyped, LifeOK, LinkOK, WsiExact, Up, Established,
         mainVars, sendVars
<1> QED BY <1>1, <1>2, <1>3, <1>4, <1>5, <1>6, <1>7, <1>8, <1>9, <1>10 DEF IInv, TypeOK

LEMMA ConnectionErrorInv == ASSUME IInv, NEW w \in Wsis, ConnectionError(w)
                            PROVE  IInv'
<1>1. QueueTyped' /\ QueueOK' /\ LeaksOnlyLate'
  BY DEF IInv, TypeOK, QueueTyped, QueueOK, LeaksOnlyLate, ConnectionError,
         Lost, Forget, ScheduleReconnect, GivesUp, NextDelay, mainVars,
         retryVars, sendVars
<1>2. PlacesTyped'
  BY DelayAssumption DEF IInv, TypeOK, PlacesTyped, ConnectionError, Lost,
         Forget, ScheduleReconnect, GivesUp, NextDelay, mainVars, retryVars,
         sendVars
<1>3. FlagsTyped'
  BY FlagAssumption DEF IInv, TypeOK, FlagsTyped, ConnectionError, Lost,
         Forget, ScheduleReconnect, GivesUp, NextDelay, mainVars, retryVars,
         sendVars
<1>4. LifeOK'
  BY DEF IInv, TypeOK, LifeOK, PlacesTyped, ConnectionError, Lost, Forget,
         ScheduleReconnect, GivesUp, NextDelay, mainVars, retryVars, sendVars
<1>5. LinkOK'
  BY NullAssumption DEF IInv, TypeOK, LinkOK, PlacesTyped, LifeOK, WsiExact,
         NotAbandoned, BreakerHolds, ConnectionError, Lost, Forget,
         ScheduleReconnect, GivesUp, NextDelay, mainVars, retryVars, sendVars
<1>6. WsiExact'
  BY NullAssumption DEF IInv, TypeOK, WsiExact, PlacesTyped, LifeOK, LinkOK,
         ConnectionError, Lost, Forget, ScheduleReconnect, GivesUp, NextDelay,
         mainVars, retryVars, sendVars
<1>7. NotAbandoned'
  BY NullAssumption DEF IInv, TypeOK, NotAbandoned, PlacesTyped, LifeOK,
         LinkOK, WsiExact, ConnectionError, Lost, Forget, ScheduleReconnect,
         GivesUp, NextDelay, mainVars, retryVars, sendVars
<1>8. BreakerHolds'
  BY NullAssumption DEF IInv, TypeOK, BreakerHolds, PlacesTyped, LifeOK,
         LinkOK, WsiExact, ConnectionError, Lost, Forget, ScheduleReconnect,
         GivesUp, NextDelay, mainVars, retryVars, sendVars
<1>9. NoLostWakeup'
  BY NullAssumption DEF IInv, TypeOK, NoLostWakeup, PlacesTyped, QueueTyped,
         FlagsTyped, LifeOK, LinkOK, WsiExact, Announced, Up, ConnectionError,
         Lost, Forget, ScheduleReconnect, GivesUp, NextDelay, mainVars,
         retryVars, sendVars
<1>10. HeartbeatGoesOn'
  BY NullAssumption, FlagAssumption DEF IInv, TypeOK, HeartbeatGoesOn,
         PlacesTyped, FlagsTyped, LifeOK, LinkOK, WsiExact, Up,
         ConnectionError, Lost, Forget, ScheduleReconnect, GivesUp, NextDelay,
         mainVars, retryVars, sendVars
<1> QED BY <1>1, <1>2, <1>3, <1>4, <1>5, <1>6, <1>7, <1>8, <1>9, <1>10 DEF IInv, TypeOK

LEMMA ClosedInv == ASSUME IInv, NEW w \in Wsis, Closed(w) PROVE IInv'
<1>1. QueueTyped' /\ QueueOK' /\ LeaksOnlyLate'
  BY DEF IInv, TypeOK, QueueTyped, QueueOK, LeaksOnlyLate, Closed, Lost,
         Forget, ScheduleReconnect, GivesUp, NextDelay, mainVars, retryVars,
         sendVars
<1>2. PlacesTyped'
  BY DelayAssumption DEF IInv, TypeOK, PlacesTyped, Closed, Lost, Forget,
         ScheduleReconnect, GivesUp, NextDelay, mainVars, retryVars, sendVars
<1>3. FlagsTyped'
  BY FlagAssumption DEF IInv, TypeOK, FlagsTyped, Closed, Lost, Forget,
         ScheduleReconnect, GivesUp, NextDelay, mainVars, retryVars, sendVars
<1>4. LifeOK'
  BY DEF IInv, TypeOK, LifeOK, PlacesTyped, Closed, Lost, Forget,
         ScheduleReconnect, GivesUp, NextDelay, mainVars, retryVars, sendVars
<1>5. LinkOK'
  BY NullAssumption DEF IInv, TypeOK, LinkOK, PlacesTyped, LifeOK, WsiExact,
         NotAbandoned, BreakerHolds, Closed, Lost, Forget, ScheduleReconnect,
         GivesUp, NextDelay, mainVars, retryVars, sendVars
<1>6. WsiExact'
  BY NullAssumption DEF IInv, TypeOK, WsiExact, PlacesTyped, LifeOK, LinkOK,
         Closed, Lost, Forget, ScheduleReconnect, GivesUp, NextDelay, mainVars,
         retryVars, sendVars
<1>7. NotAbandoned'
  BY NullAssumption DEF IInv, TypeOK, NotAbandoned, PlacesTyped, LifeOK,
         LinkOK, WsiExact, Closed, Lost, Forget, ScheduleReconnect, GivesUp,
         NextDelay, mainVars, retryVars, sendVars
<1>8. BreakerHolds'
  BY NullAssumption DEF IInv, TypeOK, BreakerHolds, PlacesTyped, LifeOK,
         LinkOK, WsiExact, Closed, Lost, Forget, ScheduleReconnect, GivesUp,
         NextDelay, mainVars, retryVars, sendVars
<1>9. NoLostWakeup'
  BY NullAssumption DEF IInv, TypeOK, NoLostWakeup, PlacesTyped, QueueTyped,
         FlagsTyped, LifeOK, LinkOK, WsiExact, Announced, Up, Closed, Lost,
         Forget, ScheduleReconnect, GivesUp, NextDelay, mainVars, retryVars,
         sendVars
<1>10. HeartbeatGoesOn'
  BY NullAssumption, FlagAssumption DEF IInv, TypeOK, HeartbeatGoesOn,
         PlacesTyped, FlagsTyped, LifeOK, LinkOK, WsiExact, Up, Closed, Lost,
         Forget, ScheduleReconnect, GivesUp, NextDelay, mainVars, retryVars,
         sendVars
<1> QED BY <1>1, <1>2, <1>3, <1>4, <1>5, <1>6, <1>7, <1>8, <1>9, <1>10 DEF IInv, TypeOK

LEMMA WaitCancelledInv == ASSUME IInv, WaitCancelled PROVE IInv'
<1>1. /\ PlacesTyped' /\ QueueTyped' /\ LifeOK' /\ LinkOK' /\ QueueOK'
      /\ WsiExact' /\ NotAbandoned' /\ BreakerHolds' /\ LeaksOnlyLate'
  BY DEF IInv, TypeOK, PlacesTyped, QueueTyped, LifeOK, LinkOK, QueueOK,
         WsiExact, NotAbandoned, BreakerHolds, LeaksOnlyLate, WaitCancelled,
         mainVars, linkVars, retryVars, pingVars, sendVars
<1>2. FlagsTyped'
  BY FlagAssumption DEF IInv, TypeOK, FlagsTyped, WaitCancelled, mainVars,
         linkVars, retryVars, pingVars, sendVars
<1>3. NoLostWakeup'
  BY NullAssumption DEF IInv, TypeOK, NoLostWakeup, PlacesTyped, QueueTyped,
         FlagsTyped, LifeOK, LinkOK, WsiExact, Announced, Up, WaitCancelled,
         mainVars, linkVars, retryVars, pingVars, sendVars
<1>4. HeartbeatGoesOn'
  BY NullAssumption, FlagAssumption DEF IInv, TypeOK, HeartbeatGoesOn,
         PlacesTyped, FlagsTyped, LifeOK, LinkOK, WsiExact, Up, WaitCancelled,
         mainVars, linkVars, retryVars, pingVars, sendVars
<1> QED BY <1>1, <1>2, <1>3, <1>4 DEF IInv, TypeOK

LEMMA WritePingInv == ASSUME IInv, WritePing PROVE IInv'
<1>1. QueueTyped' /\ QueueOK' /\ WsiExact' /\ LeaksOnlyLate'
  BY DEF IInv, TypeOK, QueueTyped, QueueOK, WsiExact, LeaksOnlyLate, WritePing,
         Up, mainVars, linkVars, retryVars, sendVars
<1>2. PlacesTyped'
  BY DelayAssumption DEF IInv, TypeOK, PlacesTyped, WritePing, Up, mainVars,
         linkVars, retryVars, sendVars
<1>3. FlagsTyped'
  BY FlagAssumption DEF IInv, TypeOK, FlagsTyped, WritePing, Up, mainVars,
         linkVars, retryVars, sendVars
<1>4. LifeOK'
  BY DEF IInv, TypeOK, LifeOK, PlacesTyped, WritePing, Up, mainVars, linkVars,
         retryVars, sendVars
<1>5. LinkOK'
  BY NullAssumption DEF IInv, TypeOK, LinkOK, PlacesTyped, LifeOK, WsiExact,
         NotAbandoned, BreakerHolds, WritePing, Up, mainVars, linkVars,
         retryVars, sendVars
<1>6. NotAbandoned'
  BY NullAssumption DEF IInv, TypeOK, NotAbandoned, PlacesTyped, LifeOK,
         LinkOK, WsiExact, WritePing, Up, mainVars, linkVars, retryVars,
         sendVars
<1>7. BreakerHolds'
  BY NullAssumption DEF IInv, TypeOK, BreakerHolds, PlacesTyped, LifeOK,
         LinkOK, WsiExact, WritePing, Up, mainVars, linkVars, retryVars,
         sendVars
<1>8. NoLostWakeup'
  BY NullAssumption DEF IInv, TypeOK, NoLostWakeup, PlacesTyped, QueueTyped,
         FlagsTyped, LifeOK, LinkOK, WsiExact, Announced, Up, WritePing,
         mainVars, linkVars, retryVars, sendVars
<1>9. HeartbeatGoesOn'
  BY NullAssumption, FlagAssumption DEF IInv, TypeOK, HeartbeatGoesOn,
         PlacesTyped, FlagsTyped, LifeOK, LinkOK, WsiExact, Up, WritePing,
         mainVars, linkVars, retryVars, sendVars
<1> QED BY <1>1, <1>2, <1>3, <1>4, <1>5, <1>6, <1>7, <1>8, <1>9 DEF IInv, TypeOK

LEMMA DequeueInv == ASSUME IInv, Dequeue PROVE IInv'
<1>1. WsiExact'
  BY DEF IInv, WsiExact, Dequeue, Up, mainVars, linkVars, retryVars, pingVars,
         sendVars
<1>2. PlacesTyped'
  BY DelayAssumption DEF IInv, TypeOK, PlacesTyped, Dequeue, Up, mainVars,
         linkVars, retryVars, pingVars, sendVars
<1>3. QueueTyped'
  BY HeadTailProperties DEF IInv, TypeOK, QueueTyped, Dequeue, Up, mainVars,
         linkVars, retryVars, pingVars, sendVars
<1>4. FlagsTyped'
  BY FlagAssumption DEF IInv, TypeOK, FlagsTyped, Dequeue, Up, mainVars,
         linkVars, retryVars, pingVars, sendVars
<1>5. LifeOK'
  BY DEF IInv, TypeOK, LifeOK, PlacesTyped, Dequeue, Up, mainVars, linkVars,
         retryVars, pingVars, sendVars
<1>6. LinkOK'
  BY NullAssumption DEF IInv, TypeOK, LinkOK, PlacesTyped, LifeOK, WsiExact,
         NotAbandoned, BreakerHolds, Dequeue, Up, mainVars, linkVars,
         retryVars, pingVars, sendVars
<1>7. QueueOK'
  <2>1. CASE queue = <<>>
    BY <2>1 DEF IInv, QueueOK, Dequeue, sendVars
  <2>2. CASE queue # <<>>
    <3>1. queue \in Seq(Nat) /\ queue' = Tail(queue) /\ flushed' = flushed /\ sent' = sent
      BY <2>2 DEF IInv, TypeOK, QueueTyped, Dequeue, sendVars
    <3>2. /\ Len(queue') = Len(queue) - 1
          /\ \A i \in 1..Len(queue') : i + 1 \in 1..Len(queue) /\ queue'[i] = queue[i + 1]
      BY <2>2, <3>1, HeadTailProperties
    <3> QED BY <3>1, <3>2 DEF IInv, QueueOK
  <2> QED BY <2>1, <2>2
<1>8. NotAbandoned'
  BY NullAssumption DEF IInv, TypeOK, NotAbandoned, PlacesTyped, LifeOK,
         LinkOK, WsiExact, Dequeue, Up, mainVars, linkVars, retryVars,
         pingVars, sendVars
<1>9. BreakerHolds'
  BY NullAssumption DEF IInv, TypeOK, BreakerHolds, PlacesTyped, LifeOK,
         LinkOK, WsiExact, Dequeue, Up, mainVars, linkVars, retryVars,
         pingVars, sendVars
<1>10. NoLostWakeup'
  BY NullAssumption DEF IInv, TypeOK, NoLostWakeup, PlacesTyped, QueueTyped,
         FlagsTyped, LifeOK, LinkOK, WsiExact, Announced, Up, Dequeue,
         mainVars, linkVars, retryVars, pingVars, sendVars
<1>11. HeartbeatGoesOn'
  BY NullAssumption, FlagAssumption DEF IInv, TypeOK, HeartbeatGoesOn,
         PlacesTyped, FlagsTyped, LifeOK, LinkOK, WsiExact, Up, Dequeue,
         mainVars, linkVars, retryVars, pingVars, sendVars
<1>12. LeaksOnlyLate'
  BY DEF IInv, TypeOK, LeaksOnlyLate, QueueTyped, PlacesTyped, LifeOK, QueueOK,
         Dequeue, Up, mainVars, linkVars, retryVars, pingVars, sendVars
<1> QED BY <1>1, <1>2, <1>3, <1>4, <1>5, <1>6, <1>7, <1>8, <1>9, <1>10, <1>11,
          <1>12 DEF IInv, TypeOK

LEMMA WriteInv == ASSUME IInv, Write PROVE IInv'
<1>1. /\ FlagsTyped' /\ QueueOK' /\ WsiExact'
      /\ HeartbeatGoesOn' /\ LeaksOnlyLate'
  BY DEF IInv, TypeOK, FlagsTyped, QueueOK, WsiExact, HeartbeatGoesOn,
         LeaksOnlyLate, Up, Write, mainVars, linkVars, retryVars, pingVars,
         sendVars
<1>2. PlacesTyped'
  BY DelayAssumption DEF IInv, TypeOK, PlacesTyped, Write, mainVars, linkVars,
         retryVars, pingVars, sendVars
<1>3. QueueTyped'
  BY DEF IInv, TypeOK, QueueTyped, Write, mainVars, linkVars, retryVars,
         pingVars, sendVars
<1>4. LifeOK'
  BY DEF IInv, TypeOK, LifeOK, PlacesTyped, Write, mainVars, linkVars,
         retryVars, pingVars, sendVars
<1>5. LinkOK'
  BY NullAssumption DEF IInv, TypeOK, LinkOK, PlacesTyped, LifeOK, WsiExact,
         NotAbandoned, BreakerHolds, Write, mainVars, linkVars, retryVars,
         pingVars, sendVars
<1>6. NotAbandoned'
  BY NullAssumption DEF IInv, TypeOK, NotAbandoned, PlacesTyped, LifeOK,
         LinkOK, WsiExact, Write, mainVars, linkVars, retryVars, pingVars,
         sendVars
<1>7. BreakerHolds'
  BY NullAssumption DEF IInv, TypeOK, BreakerHolds, PlacesTyped, LifeOK,
         LinkOK, WsiExact, Write, mainVars, linkVars, retryVars, pingVars,
         sendVars
<1>8. NoLostWakeup'
  BY NullAssumption DEF IInv, TypeOK, NoLostWakeup, PlacesTyped, QueueTyped,
         FlagsTyped, LifeOK, LinkOK, WsiExact, Announced, Up, Write, mainVars,
         linkVars, retryVars, pingVars, sendVars
<1> QED BY <1>1, <1>2, <1>3, <1>4, <1>5, <1>6, <1>7, <1>8 DEF IInv, TypeOK

LEMMA WriteFailsInv == ASSUME IInv, NEW w \in Wsis, WriteFails(w) PROVE IInv'
<1>1. QueueOK' /\ LeaksOnlyLate'
  BY DEF IInv, QueueOK, LeaksOnlyLate, WriteFails, Lost, Forget,
         ScheduleReconnect, GivesUp, NextDelay, mainVars, retryVars, sendVars
<1>2. PlacesTyped'
  BY DelayAssumption DEF IInv, TypeOK, PlacesTyped, WriteFails, Lost, Forget,
         ScheduleReconnect, GivesUp, NextDelay, mainVars, retryVars, sendVars
<1>3. QueueTyped'
  BY DEF IInv, TypeOK, QueueTyped, WriteFails, Lost, Forget, ScheduleReconnect,
         GivesUp, NextDelay, mainVars, retryVars, sendVars
<1>4. FlagsTyped'
  BY FlagAssumption DEF IInv, TypeOK, FlagsTyped, WriteFails, Lost, Forget,
         ScheduleReconnect, GivesUp, NextDelay, mainVars, retryVars, sendVars
<1>5. LifeOK'
  BY DEF IInv, TypeOK, LifeOK, PlacesTyped, WriteFails, Lost, Forget,
         ScheduleReconnect, GivesUp, NextDelay, mainVars, retryVars, sendVars
<1>6. LinkOK'
  BY NullAssumption DEF IInv, TypeOK, LinkOK, PlacesTyped, LifeOK, WsiExact,
         NotAbandoned, BreakerHolds, WriteFails, Lost, Forget,
         ScheduleReconnect, GivesUp, NextDelay, mainVars, retryVars, sendVars
<1>7. WsiExact'
  BY NullAssumption DEF IInv, TypeOK, WsiExact, PlacesTyped, LifeOK, LinkOK,
         WriteFails, Lost, Forget, ScheduleReconnect, GivesUp, NextDelay,
         mainVars, retryVars, sendVars
<1>8. NotAbandoned'
  BY NullAssumption DEF IInv, TypeOK, NotAbandoned, PlacesTyped, LifeOK,
         LinkOK, WsiExact, WriteFails, Lost, Forget, ScheduleReconnect,
         GivesUp, NextDelay, mainVars, retryVars, sendVars
<1>9. BreakerHolds'
  BY NullAssumption DEF IInv, TypeOK, BreakerHolds, PlacesTyped, LifeOK,
         LinkOK, WsiExact, WriteFails, Lost, Forget, ScheduleReconnect,
         GivesUp, NextDelay, mainVars, retryVars, sendVars
<1>10. NoLostWakeup'
  BY NullAssumption DEF IInv, TypeOK, NoLostWakeup, PlacesTyped, QueueTyped,
         FlagsTyped, LifeOK, LinkOK, WsiExact, Announced, Up, WriteFails, Lost,
         Forget, ScheduleReconnect, GivesUp, NextDelay, mainVars, retryVars,
         sendVars
<1>11. HeartbeatGoesOn'
  BY NullAssumption, FlagAssumption DEF IInv, TypeOK, HeartbeatGoesOn,
         PlacesTyped, FlagsTyped, LifeOK, LinkOK, WsiExact, Up, WriteFails,
         Lost, Forget, ScheduleReconnect, GivesUp, NextDelay, mainVars,
         retryVars, sendVars
<1> QED BY <1>1, <1>2, <1>3, <1>4, <1>5, <1>6, <1>7, <1>8, <1>9, <1>10, <1>11 DEF IInv, TypeOK

LEMMA LookAgainInv == ASSUME IInv, LookAgain PROVE IInv'
<1>1. QueueTyped' /\ QueueOK' /\ WsiExact' /\ LeaksOnlyLate'
  BY DEF IInv, TypeOK, QueueTyped, QueueOK, WsiExact, LeaksOnlyLate, LookAgain,
         HasData, mainVars, linkVars, retryVars, pingVars, sendVars
<1>2. PlacesTyped'
  BY DelayAssumption DEF IInv, TypeOK, PlacesTyped, LookAgain, HasData,
         mainVars, linkVars, retryVars, pingVars, sendVars
<1>3. FlagsTyped'
  BY FlagAssumption DEF IInv, TypeOK, FlagsTyped, LookAgain, HasData, mainVars,
         linkVars, retryVars, pingVars, sendVars
<1>4. LifeOK'
  BY DEF IInv, TypeOK, LifeOK, PlacesTyped, LookAgain, HasData, mainVars,
         linkVars, retryVars, pingVars, sendVars
<1>5. LinkOK'
  BY NullAssumption DEF IInv, TypeOK, LinkOK, PlacesTyped, LifeOK, WsiExact,
         NotAbandoned, BreakerHolds, LookAgain, HasData, mainVars, linkVars,
         retryVars, pingVars, sendVars
<1>6. NotAbandoned'
  BY NullAssumption DEF IInv, TypeOK, NotAbandoned, PlacesTyped, LifeOK,
         LinkOK, WsiExact, LookAgain, HasData, mainVars, linkVars, retryVars,
         pingVars, sendVars
<1>7. BreakerHolds'
  BY NullAssumption DEF IInv, TypeOK, BreakerHolds, PlacesTyped, LifeOK,
         LinkOK, WsiExact, LookAgain, HasData, mainVars, linkVars, retryVars,
         pingVars, sendVars
<1>8. NoLostWakeup'
  BY NullAssumption DEF IInv, TypeOK, NoLostWakeup, PlacesTyped, QueueTyped,
         FlagsTyped, LifeOK, LinkOK, WsiExact, Announced, Up, LookAgain,
         HasData, mainVars, linkVars, retryVars, pingVars, sendVars
<1>9. HeartbeatGoesOn'
  BY NullAssumption, FlagAssumption DEF IInv, TypeOK, HeartbeatGoesOn,
         PlacesTyped, FlagsTyped, LifeOK, LinkOK, WsiExact, Up, LookAgain,
         HasData, mainVars, linkVars, retryVars, pingVars, sendVars
<1> QED BY <1>1, <1>2, <1>3, <1>4, <1>5, <1>6, <1>7, <1>8, <1>9 DEF IInv, TypeOK

LEMMA OwnTickInv == ASSUME IInv, OwnTick PROVE IInv'
<1>1. /\ PlacesTyped' /\ QueueTyped' /\ LifeOK' /\ LinkOK' /\ QueueOK'
      /\ WsiExact' /\ NotAbandoned' /\ BreakerHolds' /\ NoLostWakeup' /\ LeaksOnlyLate'
  BY DEF IInv, TypeOK, PlacesTyped, QueueTyped, LifeOK, LinkOK, QueueOK,
         WsiExact, NotAbandoned, BreakerHolds, NoLostWakeup, LeaksOnlyLate,
         Announced, Up, OwnTick, mainVars, linkVars, retryVars, sendVars
<1>2. FlagsTyped'
  BY FlagAssumption DEF IInv, TypeOK, FlagsTyped, OwnTick, Up, mainVars,
         linkVars, retryVars, sendVars
<1>3. HeartbeatGoesOn'
  BY NullAssumption, FlagAssumption DEF IInv, TypeOK, HeartbeatGoesOn,
         PlacesTyped, FlagsTyped, LifeOK, LinkOK, WsiExact, Up, OwnTick,
         mainVars, linkVars, retryVars, sendVars
<1> QED BY <1>1, <1>2, <1>3 DEF IInv, TypeOK

LEMMA PongTimeoutInv == ASSUME IInv, NEW w \in Wsis, PongTimeout(w) PROVE IInv'
<1>1. QueueTyped' /\ QueueOK' /\ LeaksOnlyLate'
  BY DEF IInv, TypeOK, QueueTyped, QueueOK, LeaksOnlyLate, PongTimeout, Lost,
         Forget, ScheduleReconnect, GivesUp, NextDelay, mainVars, retryVars,
         sendVars
<1>2. PlacesTyped'
  BY DelayAssumption DEF IInv, TypeOK, PlacesTyped, PongTimeout, Lost, Forget,
         ScheduleReconnect, GivesUp, NextDelay, mainVars, retryVars, sendVars
<1>3. FlagsTyped'
  BY FlagAssumption DEF IInv, TypeOK, FlagsTyped, PongTimeout, Lost, Forget,
         ScheduleReconnect, GivesUp, NextDelay, mainVars, retryVars, sendVars
<1>4. LifeOK'
  BY DEF IInv, TypeOK, LifeOK, PlacesTyped, PongTimeout, Lost, Forget,
         ScheduleReconnect, GivesUp, NextDelay, mainVars, retryVars, sendVars
<1>5. LinkOK'
  BY NullAssumption DEF IInv, TypeOK, LinkOK, PlacesTyped, LifeOK, WsiExact,
         NotAbandoned, BreakerHolds, PongTimeout, Lost, Forget,
         ScheduleReconnect, GivesUp, NextDelay, mainVars, retryVars, sendVars
<1>6. WsiExact'
  BY NullAssumption DEF IInv, TypeOK, WsiExact, PlacesTyped, LifeOK, LinkOK,
         PongTimeout, Lost, Forget, ScheduleReconnect, GivesUp, NextDelay,
         mainVars, retryVars, sendVars
<1>7. NotAbandoned'
  BY NullAssumption DEF IInv, TypeOK, NotAbandoned, PlacesTyped, LifeOK,
         LinkOK, WsiExact, PongTimeout, Lost, Forget, ScheduleReconnect,
         GivesUp, NextDelay, mainVars, retryVars, sendVars
<1>8. BreakerHolds'
  BY NullAssumption DEF IInv, TypeOK, BreakerHolds, PlacesTyped, LifeOK,
         LinkOK, WsiExact, PongTimeout, Lost, Forget, ScheduleReconnect,
         GivesUp, NextDelay, mainVars, retryVars, sendVars
<1>9. NoLostWakeup'
  BY NullAssumption DEF IInv, TypeOK, NoLostWakeup, PlacesTyped, QueueTyped,
         FlagsTyped, LifeOK, LinkOK, WsiExact, Announced, Up, PongTimeout,
         Lost, Forget, ScheduleReconnect, GivesUp, NextDelay, mainVars,
         retryVars, sendVars
<1>10. HeartbeatGoesOn'
  BY NullAssumption, FlagAssumption DEF IInv, TypeOK, HeartbeatGoesOn,
         PlacesTyped, FlagsTyped, LifeOK, LinkOK, WsiExact, Up, PongTimeout,
         Lost, Forget, ScheduleReconnect, GivesUp, NextDelay, mainVars,
         retryVars, sendVars
<1> QED BY <1>1, <1>2, <1>3, <1>4, <1>5, <1>6, <1>7, <1>8, <1>9, <1>10 DEF IInv, TypeOK

LEMMA AskPingInv == ASSUME IInv, AskPing PROVE IInv'
<1>1. /\ PlacesTyped' /\ QueueTyped' /\ LifeOK' /\ LinkOK' /\ QueueOK'
      /\ WsiExact' /\ NotAbandoned' /\ BreakerHolds' /\ LeaksOnlyLate'
  BY DEF IInv, TypeOK, PlacesTyped, QueueTyped, LifeOK, LinkOK, QueueOK,
         WsiExact, NotAbandoned, BreakerHolds, LeaksOnlyLate, AskPing, Up,
         mainVars, linkVars, retryVars, sendVars
<1>2. FlagsTyped'
  BY FlagAssumption DEF IInv, TypeOK, FlagsTyped, AskPing, Up, mainVars,
         linkVars, retryVars, sendVars
<1>3. NoLostWakeup'
  BY NullAssumption DEF IInv, TypeOK, NoLostWakeup, PlacesTyped, QueueTyped,
         FlagsTyped, LifeOK, LinkOK, WsiExact, Announced, Up, AskPing,
         mainVars, linkVars, retryVars, sendVars
<1>4. HeartbeatGoesOn'
  BY NullAssumption, FlagAssumption DEF IInv, TypeOK, HeartbeatGoesOn,
         PlacesTyped, FlagsTyped, LifeOK, LinkOK, WsiExact, Up, AskPing,
         mainVars, linkVars, retryVars, sendVars
<1> QED BY <1>1, <1>2, <1>3, <1>4 DEF IInv, TypeOK

LEMMA PongInv == ASSUME IInv, Pong PROVE IInv'
<1>1. /\ PlacesTyped' /\ QueueTyped' /\ LifeOK' /\ LinkOK' /\ QueueOK'
      /\ WsiExact' /\ NotAbandoned' /\ BreakerHolds' /\ NoLostWakeup' /\ LeaksOnlyLate'
  BY DEF IInv, TypeOK, PlacesTyped, QueueTyped, LifeOK, LinkOK, QueueOK,
         WsiExact, NotAbandoned, BreakerHolds, NoLostWakeup, LeaksOnlyLate,
         Announced, Up, Pong, SetsTimer, mainVars, linkVars, retryVars,
         sendVars
<1>2. FlagsTyped'
  BY FlagAssumption DEF IInv, TypeOK, FlagsTyped, Pong, Up, SetsTimer,
         mainVars, linkVars, retryVars, sendVars
<1>3. HeartbeatGoesOn'
  BY NullAssumption, FlagAssumption DEF IInv, TypeOK, HeartbeatGoesOn,
         PlacesTyped, FlagsTyped, LifeOK, LinkOK, WsiExact, Up, Pong,
         SetsTimer, mainVars, linkVars, retryVars, sendVars
<1> QED BY <1>1, <1>2, <1>3 DEF IInv, TypeOK

LEMMA NextInv == ASSUME IInv, [Next]_vars PROVE IInv'
<1>1. CASE UNCHANGED vars
  BY <1>1 DEF vars, mainVars, linkVars, retryVars, pingVars, sendVars, IInv, TypeOK,
              PlacesTyped, QueueTyped, FlagsTyped, LifeOK, LinkOK, QueueOK, WsiExact,
              NotAbandoned, BreakerHolds, NoLostWakeup, Announced, HeartbeatGoesOn,
              LeaksOnlyLate, Up
<1>2. CASE SendStep
  BY <1>2, EnqueueInv, WakeInv DEF SendStep
<1>3. CASE MainStep
  BY <1>3, StartInv, SpawnInv, SpawnFailsInv, StopInv, StopWakeInv, JoinInv,
     ContextDestroyInv, DestroyInv DEF MainStep, StopStep
<1>4. CASE Leave \/ SulReconnect \/ DialStep \/ Flush
  BY <1>4, LeaveInv, SulReconnectInv, DoConnectInv, DoConnectFailsInv, FlushInv
     DEF DialStep
<1>5. CASE LinkStep \/ TickStep \/ Pong
  BY <1>5, EstablishedInv, ConnectionErrorInv, ClosedInv, OwnTickInv, PongTimeoutInv,
     AskPingInv, PongInv DEF LinkStep, TickStep
<1>6. CASE WaitCancelled \/ WritePing \/ Dequeue \/ WorkStep
  BY <1>6, WaitCancelledInv, WritePingInv, DequeueInv, WriteInv, LookAgainInv,
     WriteFailsInv DEF WorkStep
<1> QED BY <1>1, <1>2, <1>3, <1>4, <1>5, <1>6 DEF Next, ThreadStep

-----------------------------------------------------------------------------
\* The invariant is inductive and holds initially.
THEOREM V2Invariance == Spec => []IInv
BY InitInv, NextInv, PTL DEF Spec

\* Type correctness of the v2 client; reconnect_delay_ms is 0 or between init and max.
THEOREM V2TypeCorrect == Spec => []TypeOK
<1>1. IInv => TypeOK
  BY DEF IInv
<1> QED BY <1>1, V2Invariance, PTL

\* c->wsi is the connection lws has; a running client has one or a retry scheduled, unless the
\* hook gave up, and then nothing is left that could dial again.
THEOREM V2ConnectionKept == Spec => []ConnectionKept
<1>1. IInv => ConnectionKept
  BY DEF IInv, ConnectionKept
<1> QED BY <1>1, V2Invariance, PTL

\* A queue on an established connection is announced, although q_head is read
\* without the lock.
THEOREM V2WakeupNotLost == Spec => []NoLostWakeup
<1>1. IInv => NoLostWakeup
  BY DEF IInv
<1> QED BY <1>1, V2Invariance, PTL

\* The heartbeat of a connection only ever waits for the peer.
THEOREM V2HeartbeatGoesOn == Spec => []HeartbeatGoesOn
<1>1. IInv => HeartbeatGoesOn
  BY DEF IInv
<1> QED BY <1>1, V2Invariance, PTL

\* wsl_destroy leaks at most what was enqueued after the last flush.
THEOREM V2LeaksOnlyLate == Spec => []LeaksOnlyLate
<1>1. IInv => LeaksOnlyLate
  BY DEF IInv
<1> QED BY <1>1, V2Invariance, PTL
-----------------------------------------------------------------------------
(***************************************************************************)
(* The queue: the client implements WsBacklog, of which WsBacklogProofs    *)
(* shows that messages leave it in order, at most once and without a gap.  *)
(***************************************************************************)
\* A message is in flight only while it is written.
NodeOK == thread # "write" => node = 0

LEMMA NodeInv == ASSUME IInv, NodeOK, [Next]_vars PROVE NodeOK'
<1>1. CASE UNCHANGED vars
  BY <1>1 DEF vars, NodeOK
<1>2. CASE Dequeue
  BY <1>2 DEF Dequeue, NodeOK
<1>3. CASE Write \/ \E w \in Wsis : WriteFails(w)
  BY <1>3 DEF Write, WriteFails, NodeOK
<1>4. CASE SendStep \/ MainStep
  BY <1>4 DEF SendStep, Enqueue, Wake, MainStep, StopStep, Start, Spawn, SpawnFails, Stop,
              StopWake, Join, ContextDestroy, Destroy, NodeOK, IInv, LifeOK
<1>5. CASE Leave \/ SulReconnect \/ DialStep \/ Flush \/ LinkStep
  BY <1>5 DEF Leave, SulReconnect, DialStep, DoConnect, DoConnectFails, Flush, LinkStep,
              Established, ConnectionError, Closed, NodeOK
<1>6. CASE WaitCancelled \/ WritePing \/ LookAgain \/ TickStep \/ Pong
  BY <1>6 DEF WaitCancelled, WritePing, LookAgain, TickStep, OwnTick, AskPing, PongTimeout,
              Pong, NodeOK
<1> QED BY <1>1, <1>2, <1>3, <1>4, <1>5, <1>6 DEF Next, ThreadStep, WorkStep

LEMMA AcceptStep ==
  ASSUME NEW t \in Senders, Enqueue(t) PROVE Backlog!Accept
BY DEF Enqueue, Room, Behind, Backlog!Accept

LEMMA TakeStep ==
  ASSUME IInv, NodeOK, Dequeue PROVE [Backlog!Next]_(Backlog!backlogVars)
<1>1. node = 0
  BY DEF Dequeue, NodeOK
<1>2. CASE queue = <<>>
  BY <1>2 DEF Dequeue, sendVars, Backlog!backlogVars
<1>3. CASE queue # <<>>
  BY <1>1, <1>3 DEF Dequeue, sendVars, Backlog!Next, Backlog!Take
<1> QED BY <1>2, <1>3

LEMMA SettleStep ==
  ASSUME IInv, Write \/ \E w \in Wsis : WriteFails(w)
  PROVE  [Backlog!Next]_(Backlog!backlogVars)
<1>1. node' = 0 /\ UNCHANGED <<sent, queue>>
  BY DEF Write, WriteFails, sendVars
<1>2. CASE node = 0
  BY <1>1, <1>2 DEF Backlog!backlogVars
<1>3. CASE node # 0
  BY <1>1, <1>3 DEF Backlog!Next, Backlog!Settle
<1> QED BY <1>2, <1>3

LEMMA DropStep == ASSUME IInv, NodeOK, Flush PROVE Backlog!DropAll
BY DEF Flush, FreesQueue, NodeOK, sendVars, Backlog!DropAll

\* Everything else is invisible in the queue.
Hidden ==
  \/ Start \/ Spawn \/ SpawnFails \/ Stop \/ StopWake \/ Join
  \/ ContextDestroy \/ Destroy \/ Leave \/ SulReconnect \/ DoConnectFails
  \/ WaitCancelled \/ WritePing \/ LookAgain \/ OwnTick \/ AskPing \/ Pong
  \/ (\E t \in Senders : Wake(t))
  \/ (\E w \in Wsis : \/ DoConnect(w) \/ Established(w) \/ ConnectionError(w)
                     \/ Closed(w) \/ PongTimeout(w))

LEMMA HiddenStep == ASSUME Hidden PROVE UNCHANGED Backlog!backlogVars
BY DEF Hidden, Start, Spawn, SpawnFails, Stop, StopWake, Join, ContextDestroy, Destroy,
       Leave, SulReconnect, DoConnectFails, WaitCancelled, WritePing, LookAgain,
       OwnTick, AskPing, Pong, Wake, DoConnect, Established, ConnectionError, Closed,
       PongTimeout, Lost, sendVars, Backlog!backlogVars

\* Messages leave the queue in the order of their acceptance, over starts, stops and
\* reconnects: the client implements WsBacklog.
THEOREM V2Backlog == Spec => BacklogSpec
<1>1. Init => Backlog!Init
  BY DEF Init, Backlog!Init
<1>2. ASSUME IInv, NodeOK, [Next]_vars PROVE [Backlog!Next]_(Backlog!backlogVars)
  <2>1. CASE UNCHANGED vars
    BY <2>1 DEF vars, sendVars, Backlog!backlogVars
  <2>2. CASE \E t \in Senders : Enqueue(t)
    BY <2>2, AcceptStep DEF Backlog!Next
  <2>3. CASE Dequeue
    BY <1>2, <2>3, TakeStep
  <2>4. CASE Write \/ \E w \in Wsis : WriteFails(w)
    BY <1>2, <2>4, SettleStep
  <2>5. CASE Flush
    BY <1>2, <2>5, DropStep DEF Backlog!Next
  <2>6. CASE Hidden
    BY <2>6, HiddenStep
  <2> QED BY <1>2, <2>1, <2>2, <2>3, <2>4, <2>5, <2>6
          DEF Next, SendStep, MainStep, StopStep, ThreadStep, DialStep, LinkStep,
              TickStep, WorkStep, Hidden
<1>3. Init => NodeOK
  BY DEF Init, NodeOK
<1> QED BY <1>1, <1>2, <1>3, NodeInv, V2Invariance, PTL DEF Spec, BacklogSpec, Backlog!Spec

\* So what waits is what was accepted last, in order and without a gap, and no
\* message is taken twice or overtakes another.
Proved == INSTANCE WsBacklogProofs

THEOREM V2InOrder == Spec => []Backlog!Gapless /\ Backlog!InOrder
<1>1. Backlog!Init => Proved!Init
  BY DEF Backlog!Init, Proved!Init
<1>2. ASSUME [Backlog!Next]_(Backlog!backlogVars)
      PROVE  [Proved!Next]_(Proved!backlogVars)
  BY <1>2 DEF Backlog!backlogVars, Backlog!Next, Backlog!Accept, Backlog!Take,
              Backlog!Settle, Backlog!DropAll, Proved!backlogVars, Proved!Next,
              Proved!Accept, Proved!Take, Proved!Settle, Proved!DropAll
<1>3. Backlog!Spec => Proved!Spec
  BY <1>1, <1>2, PTL DEF Backlog!Spec, Proved!Spec
<1>4. Proved!Gapless => Backlog!Gapless
  BY DEF Proved!Gapless, Proved!Left, Backlog!Gapless, Backlog!Left
<1>5. ASSUME [/\ Proved!Left <= Proved!Left'
              /\ node' \notin {0, node} =>
                   node' = Proved!Left + 1 /\ Proved!Left' = Proved!Left + 1]_(Proved!backlogVars)
      PROVE  [/\ Backlog!Left <= Backlog!Left'
              /\ node' \notin {0, node} =>
                   node' = Backlog!Left + 1 /\ Backlog!Left' = Backlog!Left + 1]_(Backlog!backlogVars)
  BY <1>5 DEF Proved!Left, Proved!backlogVars, Backlog!Left, Backlog!backlogVars
<1>6. Proved!InOrder => Backlog!InOrder
  BY <1>5, PTL DEF Proved!InOrder, Backlog!InOrder
<1>7. Proved!Spec => []Proved!Gapless /\ Proved!InOrder
  BY Proved!BacklogOrder
<1> QED BY <1>3, <1>4, <1>6, <1>7, V2Backlog, PTL DEF BacklogSpec
=============================================================================
