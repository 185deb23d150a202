---------------------------- MODULE WsPoolProofs ----------------------------
(***************************************************************************)
(* The safety properties of WsPool hold for every set of clients, threads  *)
(* and addresses.  One lemma per action shows that it preserves IInv, with *)
(* one step per conjunct that speaks of a variable the action changes and  *)
(* a last step for the conjuncts it leaves alone.                          *)
(*                                                                         *)
(* What an action needs of the invariant is nearly always where the other  *)
(* threads are: that no stop but this one handles the client (StopOK),     *)
(* that the service thread has ended (MainOK), or that a client it is      *)
(* about to dial has no other driver (DriversOK).                          *)
(*                                                                         *)
(* A second, thin layer (LinkInv) is inductive on top of IInv.  With it    *)
(* the pool is shown to implement WsLink, the interface that WsSendPath    *)
(* is built on, for each of its clients.                                   *)
(***************************************************************************)
EXTENDS WsPoolInv, TLAPS

USE MainAssumption, NilAssumption
    DEF vars, poolVars, clientVars, lwsVars, appVars, mainVars, svcVars,
        Live, Dialling, Stops, Ended, Busy, States, AppPcs, MainPcs,
        DestroyPcs, SvcPcs

\* Nothing is registered, dialled or waited for at first.
LEMMA InitInv == Init => IInv
<1> SUFFICES ASSUME Init PROVE IInv
  OBVIOUS
<1>1. TypeOK
  BY DEF Init, TypeOK
<1>2. HandsOK /\ DriversOK /\ MainOK /\ StopOK
  BY DEF Init, HandsOK, DriversOK, MainOK, StopOK
<1>3. /\ OneConnection /\ NoDanglingWsi /\ NotAbandoned /\ PendingNotLost
      /\ StopRequestNotLost /\ SignalMeansDown /\ ReleasedUntouched
  BY DEF Init, OneConnection, NoDanglingWsi, NotAbandoned, PendingNotLost,
         StopRequestNotLost, SignalMeansDown, ReleasedUntouched
<1> QED BY <1>1, <1>2, <1>3 DEF IInv

-----------------------------------------------------------------------------
\* The application's calls.

\* wsp_pool_add registers a client that had no driver before.
LEMMA AddInv ==
  ASSUME IInv, NEW t \in Threads, NEW c \in Clients, Add(t, c)
  PROVE  IInv'
<1>1. TypeOK'
  BY DEF Add, MayCall, NotPooled, RoomInPool, ContextReady, IInv, TypeOK
<1>2. DriversOK'
  BY DEF Add, MayCall, NotPooled, RoomInPool, ContextReady, IInv, TypeOK,
         DriversOK
<1>3. MainOK'
  BY DEF Add, MayCall, NotPooled, RoomInPool, ContextReady, IInv, TypeOK,
         MainOK
<1>4. StopOK'
  BY DEF Add, MayCall, NotPooled, RoomInPool, ContextReady, IInv, TypeOK,
         StopOK
<1>5. NotAbandoned'
  BY DEF Add, MayCall, NotPooled, RoomInPool, ContextReady, IInv, TypeOK,
         NotAbandoned
<1>6. PendingNotLost'
  BY DEF Add, MayCall, NotPooled, RoomInPool, ContextReady, IInv, TypeOK,
         HandsOK, DriversOK, MainOK, StopOK, OneConnection, NoDanglingWsi,
         PendingNotLost
<1>7. StopRequestNotLost'
  BY DEF Add, MayCall, NotPooled, RoomInPool, ContextReady, IInv, TypeOK,
         StopRequestNotLost
<1>8. SignalMeansDown'
  BY DEF Add, MayCall, NotPooled, RoomInPool, ContextReady, IInv, TypeOK,
         SignalMeansDown
<1>9. ReleasedUntouched'
  BY DEF Add, MayCall, NotPooled, RoomInPool, ContextReady, IInv, TypeOK,
         ReleasedUntouched
<1>10. /\ HandsOK' /\ OneConnection' /\ NoDanglingWsi'
  BY DEF Add, IInv, HandsOK, OneConnection, NoDanglingWsi
<1> QED BY <1>1, <1>2, <1>3, <1>4, <1>5, <1>6, <1>7, <1>8, <1>9, <1>10 DEF IInv

\* Its request accounts for the client the call left pending.
LEMMA AddWakeInv ==
  ASSUME IInv, NEW t \in Threads, AddWake(t)
  PROVE  IInv'
<1>1. TypeOK'
  BY DEF AddWake, IInv, TypeOK
<1>2. StopOK'
  BY DEF AddWake, IInv, TypeOK, StopOK
<1>3. PendingNotLost'
  BY DEF AddWake, IInv, TypeOK, HandsOK, DriversOK, MainOK, StopOK,
         OneConnection, NoDanglingWsi, PendingNotLost
<1>4. StopRequestNotLost'
  BY DEF AddWake, IInv, TypeOK, StopRequestNotLost
<1>5. SignalMeansDown'
  BY DEF AddWake, IInv, TypeOK, SignalMeansDown
<1>6. /\ HandsOK' /\ DriversOK' /\ MainOK' /\ OneConnection' /\ NoDanglingWsi'
      /\ NotAbandoned' /\ ReleasedUntouched'
  BY DEF AddWake, IInv, HandsOK, DriversOK, MainOK, OneConnection,
         NoDanglingWsi, NotAbandoned, ReleasedUntouched
<1> QED BY <1>1, <1>2, <1>3, <1>4, <1>5, <1>6 DEF IInv

\* A client outside the pool can be released: nothing leads to it.
LEMMA DiscardInv ==
  ASSUME IInv, NEW t \in Threads, NEW c \in Clients, Discard(t, c)
  PROVE  IInv'
<1>1. TypeOK'
  BY DEF Discard, MayCall, IInv, TypeOK
<1>2. MainOK'
  BY DEF Discard, MayCall, IInv, TypeOK, MainOK
<1>3. ReleasedUntouched'
  BY DEF Discard, MayCall, IInv, TypeOK, HandsOK, DriversOK, MainOK, StopOK,
         OneConnection, NoDanglingWsi, ReleasedUntouched
<1>4. /\ HandsOK' /\ DriversOK' /\ StopOK' /\ OneConnection' /\ NoDanglingWsi'
      /\ NotAbandoned' /\ PendingNotLost' /\ StopRequestNotLost'
      /\ SignalMeansDown'
  BY DEF Discard, IInv, HandsOK, DriversOK, StopOK, OneConnection,
         NoDanglingWsi, NotAbandoned, PendingNotLost, StopRequestNotLost,
         SignalMeansDown
<1> QED BY <1>1, <1>2, <1>3, <1>4 DEF IInv

\* The first caller of wsp_client_stop becomes the only one inside it.
LEMMA StopInv ==
  ASSUME IInv, NEW t \in Threads, NEW c \in Clients, Stop(t, c)
  PROVE  IInv'
<1>1. TypeOK'
  <2>1. CASE stopping[c] \/ stopped[c]
    BY <2>1 DEF Stop, BeginStop, IInv, TypeOK
  <2>2. CASE ~(stopping[c] \/ stopped[c])
    <3>1. /\ stopping' = [stopping EXCEPT ![c] = TRUE]
          /\ apc' = [apc EXCEPT ![t] = "stopSul"]
          /\ arg' = [arg EXCEPT ![t] = c]
      BY <2>2 DEF Stop, BeginStop
    <3>2. stopping' \in [Clients -> BOOLEAN]
      BY <3>1 DEF IInv, TypeOK
    <3>3. apc' \in [Threads -> AppPcs] /\ arg' \in [Threads -> Clients \cup {Nil}]
      BY <3>1 DEF IInv, TypeOK
    <3>4. \A u \in Threads :
            apc'[u] \notin {"idle", "addWake"} => arg'[u] \in Clients
      BY <3>1 DEF IInv, TypeOK
    <3> QED BY <3>2, <3>3, <3>4 DEF Stop, IInv, TypeOK
  <2> QED BY <2>1, <2>2
<1>2. StopOK'
  BY DEF Stop, MayCall, BeginStop, IInv, TypeOK, StopOK
<1>3. NotAbandoned'
  BY DEF Stop, MayCall, BeginStop, IInv, TypeOK, NotAbandoned
<1>4. PendingNotLost'
  BY DEF Stop, MayCall, BeginStop, IInv, TypeOK, PendingNotLost
<1>5. StopRequestNotLost'
  BY DEF Stop, MayCall, BeginStop, IInv, TypeOK, StopRequestNotLost
<1>6. SignalMeansDown'
  BY DEF Stop, MayCall, BeginStop, IInv, TypeOK, SignalMeansDown
<1>7. /\ HandsOK' /\ DriversOK' /\ MainOK' /\ OneConnection' /\ NoDanglingWsi'
      /\ ReleasedUntouched'
  BY DEF Stop, IInv, HandsOK, DriversOK, MainOK, OneConnection, NoDanglingWsi,
         ReleasedUntouched
<1> QED BY <1>1, <1>2, <1>3, <1>4, <1>5, <1>6, <1>7 DEF IInv

\* Taking the timer away abandons nobody: stopping is already set.
LEMMA StopSulInv ==
  ASSUME IInv, NEW t \in Threads, StopSul(t)
  PROVE  IInv'
<1>1. TypeOK'
  BY DEF StopSul, IInv, TypeOK
<1>2. DriversOK'
  BY DEF StopSul, IInv, TypeOK, DriversOK
<1>3. MainOK'
  BY DEF StopSul, IInv, TypeOK, MainOK
<1>4. StopOK'
  BY DEF StopSul, IInv, TypeOK, StopOK
<1>5. NotAbandoned'
  BY DEF StopSul, IInv, TypeOK, HandsOK, DriversOK, MainOK, StopOK,
         OneConnection, NoDanglingWsi, NotAbandoned
<1>6. PendingNotLost'
  BY DEF StopSul, IInv, TypeOK, PendingNotLost
<1>7. StopRequestNotLost'
  BY DEF StopSul, IInv, TypeOK, StopRequestNotLost
<1>8. SignalMeansDown'
  BY DEF StopSul, IInv, TypeOK, SignalMeansDown
<1>9. ReleasedUntouched'
  BY DEF StopSul, IInv, TypeOK, ReleasedUntouched
<1>10. /\ HandsOK' /\ OneConnection' /\ NoDanglingWsi'
  BY DEF StopSul, IInv, HandsOK, OneConnection, NoDanglingWsi
<1> QED BY <1>1, <1>2, <1>3, <1>4, <1>5, <1>6, <1>7, <1>8, <1>9, <1>10 DEF IInv

\* A stop that finds a connection requests its closing before it waits.
LEMMA StopLookInv ==
  ASSUME IInv, NEW t \in Threads, StopLook(t)
  PROVE  IInv'
<1>1. TypeOK'
  <2>1. stopped' = stopped \/ stopped' = [stopped EXCEPT ![arg[t]] = TRUE]
    BY DEF StopLook
  <2>2. stopped' \in [Clients -> BOOLEAN]
    BY <2>1 DEF IInv, TypeOK
  <2>3. cancel' \in BOOLEAN
    BY DEF StopLook, StopWakes, IInv, TypeOK
  <2>4. apc' \in [Threads -> AppPcs]
    BY DEF StopLook, IInv, TypeOK
  <2>5. \A u \in Threads :
          apc'[u] \notin {"idle", "addWake"} => arg'[u] \in Clients
    BY DEF StopLook, IInv, TypeOK
  <2> QED BY <2>2, <2>3, <2>4, <2>5 DEF StopLook, IInv, TypeOK
<1>2. StopOK'
  BY DEF StopLook, StopWakes, IInv, TypeOK, HandsOK, DriversOK, MainOK,
         StopOK, OneConnection, NoDanglingWsi
<1>3. PendingNotLost'
  BY DEF StopLook, StopWakes, IInv, TypeOK, PendingNotLost
<1>4. StopRequestNotLost'
  BY DEF StopLook, StopWakes, IInv, TypeOK, StopRequestNotLost
<1>5. SignalMeansDown'
  BY DEF StopLook, StopWakes, IInv, TypeOK, HandsOK, DriversOK, MainOK,
         StopOK, OneConnection, NoDanglingWsi, SignalMeansDown
<1>6. /\ HandsOK' /\ DriversOK' /\ MainOK' /\ OneConnection' /\ NoDanglingWsi'
      /\ NotAbandoned' /\ ReleasedUntouched'
  BY DEF StopLook, IInv, HandsOK, DriversOK, MainOK, OneConnection,
         NoDanglingWsi, NotAbandoned, ReleasedUntouched
<1> QED BY <1>1, <1>2, <1>3, <1>4, <1>5, <1>6 DEF IInv

\* The wait may end by the signal or by the timeout.
LEMMA StopWaitInv ==
  ASSUME IInv, NEW t \in Threads, StopWait(t)
  PROVE  IInv'
<1>1. TypeOK'
  BY DEF StopWait, SignalOrTimeout, IInv, TypeOK
<1>2. StopOK'
  BY DEF StopWait, SignalOrTimeout, IInv, TypeOK, StopOK
<1>3. PendingNotLost'
  BY DEF StopWait, SignalOrTimeout, IInv, TypeOK, PendingNotLost
<1>4. StopRequestNotLost'
  BY DEF StopWait, SignalOrTimeout, IInv, TypeOK, StopRequestNotLost
<1>5. SignalMeansDown'
  BY DEF StopWait, SignalOrTimeout, IInv, TypeOK, SignalMeansDown
<1>6. /\ HandsOK' /\ DriversOK' /\ MainOK' /\ OneConnection' /\ NoDanglingWsi'
      /\ NotAbandoned' /\ ReleasedUntouched'
  BY DEF StopWait, IInv, HandsOK, DriversOK, MainOK, OneConnection,
         NoDanglingWsi, NotAbandoned, ReleasedUntouched
<1> QED BY <1>1, <1>2, <1>3, <1>4, <1>5, <1>6 DEF IInv

\* The call returns; stopping stays set.
LEMMA StopFlushInv ==
  ASSUME IInv, NEW t \in Threads, StopFlush(t)
  PROVE  IInv'
<1>1. TypeOK'
  BY DEF StopFlush, IInv, TypeOK
<1>2. StopOK'
  BY DEF StopFlush, IInv, TypeOK, StopOK
<1>3. PendingNotLost'
  BY DEF StopFlush, IInv, TypeOK, PendingNotLost
<1>4. StopRequestNotLost'
  BY DEF StopFlush, IInv, TypeOK, StopRequestNotLost
<1>5. SignalMeansDown'
  BY DEF StopFlush, IInv, TypeOK, SignalMeansDown
<1>6. /\ HandsOK' /\ DriversOK' /\ MainOK' /\ OneConnection' /\ NoDanglingWsi'
      /\ NotAbandoned' /\ ReleasedUntouched'
  BY DEF StopFlush, IInv, HandsOK, DriversOK, MainOK, OneConnection,
         NoDanglingWsi, NotAbandoned, ReleasedUntouched
<1> QED BY <1>1, <1>2, <1>3, <1>4, <1>5, <1>6 DEF IInv

-----------------------------------------------------------------------------
\* wsp_pool_start.

\* The context exists before the service thread does.
LEMMA StartContextInv ==
  ASSUME IInv, StartContext
  PROVE  IInv'
<1>1. TypeOK'
  BY DEF StartContext, IInv, TypeOK
<1>2. MainOK'
  BY DEF StartContext, IInv, TypeOK, MainOK
<1>3. StopOK'
  BY DEF StartContext, IInv, TypeOK, StopOK
<1>4. PendingNotLost'
  BY DEF StartContext, IInv, TypeOK, PendingNotLost
<1>5. /\ HandsOK' /\ DriversOK' /\ OneConnection' /\ NoDanglingWsi'
      /\ NotAbandoned' /\ StopRequestNotLost' /\ SignalMeansDown'
      /\ ReleasedUntouched'
  BY DEF StartContext, IInv, HandsOK, DriversOK, OneConnection, NoDanglingWsi,
         NotAbandoned, StopRequestNotLost, SignalMeansDown, ReleasedUntouched
<1> QED BY <1>1, <1>2, <1>3, <1>4, <1>5 DEF IInv

\* The thread starts with empty hands, and Main still has to look at pending[].
LEMMA StartThreadInv ==
  ASSUME IInv, StartThread
  PROVE  IInv'
<1>1. TypeOK'
  BY DEF StartThread, IInv, TypeOK
<1>2. HandsOK'
  BY DEF StartThread, IInv, TypeOK, HandsOK, DriversOK, MainOK, StopOK,
         OneConnection, NoDanglingWsi
<1>3. DriversOK'
  BY DEF StartThread, IInv, TypeOK, DriversOK
<1>4. MainOK'
  BY DEF StartThread, IInv, TypeOK, MainOK
<1>5. StopOK'
  BY DEF StartThread, IInv, TypeOK, StopOK
<1>6. PendingNotLost'
  BY DEF StartThread, IInv, TypeOK, PendingNotLost
<1>7. StopRequestNotLost'
  BY DEF StartThread, IInv, TypeOK, HandsOK, DriversOK, MainOK, StopOK,
         OneConnection, NoDanglingWsi, StopRequestNotLost
<1>8. ReleasedUntouched'
  BY DEF StartThread, IInv, TypeOK, HandsOK, DriversOK, MainOK, StopOK,
         OneConnection, NoDanglingWsi, ReleasedUntouched
<1>9. /\ OneConnection' /\ NoDanglingWsi' /\ NotAbandoned' /\ SignalMeansDown'
  BY DEF StartThread, IInv, OneConnection, NoDanglingWsi, NotAbandoned,
         SignalMeansDown
<1> QED BY <1>1, <1>2, <1>3, <1>4, <1>5, <1>6, <1>7, <1>8, <1>9 DEF IInv

\* Nothing was dialled in a context no thread has served.
LEMMA StartFailsInv ==
  ASSUME IInv, StartFails
  PROVE  IInv'
<1>1. TypeOK'
  BY DEF StartFails, IInv, TypeOK
<1>2. MainOK'
  BY DEF StartFails, IInv, TypeOK, MainOK
<1>3. StopOK'
  BY DEF StartFails, IInv, TypeOK, StopOK
<1>4. PendingNotLost'
  BY DEF StartFails, IInv, TypeOK, HandsOK, DriversOK, MainOK, StopOK,
         OneConnection, NoDanglingWsi, PendingNotLost
<1>5. StopRequestNotLost'
  BY DEF StartFails, IInv, TypeOK, HandsOK, DriversOK, MainOK, StopOK,
         OneConnection, NoDanglingWsi, StopRequestNotLost
<1>6. /\ HandsOK' /\ DriversOK' /\ OneConnection' /\ NoDanglingWsi'
      /\ NotAbandoned' /\ SignalMeansDown' /\ ReleasedUntouched'
  BY DEF StartFails, IInv, HandsOK, DriversOK, OneConnection, NoDanglingWsi,
         NotAbandoned, SignalMeansDown, ReleasedUntouched
<1> QED BY <1>1, <1>2, <1>3, <1>4, <1>5, <1>6 DEF IInv

\* Main finds pending clients, or the later wsp_pool_add sees the context.
LEMMA StartLookInv ==
  ASSUME IInv, StartLook
  PROVE  IInv'
<1>1. TypeOK'
  BY DEF StartLook, IInv, TypeOK
<1>2. MainOK'
  BY DEF StartLook, IInv, TypeOK, MainOK
<1>3. StopOK'
  BY DEF StartLook, IInv, TypeOK, StopOK
<1>4. PendingNotLost'
  BY DEF StartLook, IInv, TypeOK, PendingNotLost
<1>5. /\ HandsOK' /\ DriversOK' /\ OneConnection' /\ NoDanglingWsi'
      /\ NotAbandoned' /\ StopRequestNotLost' /\ SignalMeansDown'
      /\ ReleasedUntouched'
  BY DEF StartLook, IInv, HandsOK, DriversOK, OneConnection, NoDanglingWsi,
         NotAbandoned, StopRequestNotLost, SignalMeansDown, ReleasedUntouched
<1> QED BY <1>1, <1>2, <1>3, <1>4, <1>5 DEF IInv

\* The request for the clients that were pending at the start.
LEMMA StartWakeInv ==
  ASSUME IInv, StartWake
  PROVE  IInv'
<1>1. TypeOK'
  BY DEF StartWake, IInv, TypeOK
<1>2. MainOK'
  BY DEF StartWake, IInv, TypeOK, MainOK
<1>3. StopOK'
  BY DEF StartWake, IInv, TypeOK, StopOK
<1>4. PendingNotLost'
  BY DEF StartWake, IInv, TypeOK, PendingNotLost
<1>5. StopRequestNotLost'
  BY DEF StartWake, IInv, TypeOK, StopRequestNotLost
<1>6. /\ HandsOK' /\ DriversOK' /\ OneConnection' /\ NoDanglingWsi'
      /\ NotAbandoned' /\ SignalMeansDown' /\ ReleasedUntouched'
  BY DEF StartWake, IInv, HandsOK, DriversOK, OneConnection, NoDanglingWsi,
         NotAbandoned, SignalMeansDown, ReleasedUntouched
<1> QED BY <1>1, <1>2, <1>3, <1>4, <1>5, <1>6 DEF IInv

-----------------------------------------------------------------------------
\* wsp_pool_destroy.

\* No other thread is in a call from here on.
LEMMA DestroyBeginInv ==
  ASSUME IInv, DestroyBegin
  PROVE  IInv'
<1>1. TypeOK'
  BY DEF DestroyBegin, IInv, TypeOK
<1>2. MainOK'
  BY DEF DestroyBegin, IInv, TypeOK, MainOK
<1>3. StopOK'
  BY DEF DestroyBegin, IInv, TypeOK, StopOK
<1>4. PendingNotLost'
  BY DEF DestroyBegin, IInv, TypeOK, PendingNotLost
<1>5. /\ HandsOK' /\ DriversOK' /\ OneConnection' /\ NoDanglingWsi'
      /\ NotAbandoned' /\ StopRequestNotLost' /\ SignalMeansDown'
      /\ ReleasedUntouched'
  BY DEF DestroyBegin, IInv, HandsOK, DriversOK, OneConnection, NoDanglingWsi,
         NotAbandoned, StopRequestNotLost, SignalMeansDown, ReleasedUntouched
<1> QED BY <1>1, <1>2, <1>3, <1>4, <1>5 DEF IInv

\* Main stops the clients of its snapshot one by one.
LEMMA DestroyStopInv ==
  ASSUME IInv, NEW c \in Clients, DestroyStop(c)
  PROVE  IInv'
<1>1. TypeOK'
  <2>1. CASE stopping[c] \/ stopped[c]
    BY <2>1 DEF DestroyStop, BeginStop, IInv, TypeOK
  <2>2. CASE ~(stopping[c] \/ stopped[c])
    <3>1. /\ stopping' = [stopping EXCEPT ![c] = TRUE]
          /\ apc' = [apc EXCEPT ![Main] = "stopSul"]
          /\ arg' = [arg EXCEPT ![Main] = c]
      BY <2>2 DEF DestroyStop, BeginStop
    <3>2. stopping' \in [Clients -> BOOLEAN]
      BY <3>1 DEF IInv, TypeOK
    <3>3. apc' \in [Threads -> AppPcs] /\ arg' \in [Threads -> Clients \cup {Nil}]
      BY <3>1 DEF IInv, TypeOK
    <3>4. \A u \in Threads :
            apc'[u] \notin {"idle", "addWake"} => arg'[u] \in Clients
      BY <3>1 DEF IInv, TypeOK
    <3> QED BY <3>2, <3>3, <3>4 DEF DestroyStop, IInv, TypeOK
  <2> QED BY <2>1, <2>2
<1>2. StopOK'
  BY DEF DestroyStop, BeginStop, IInv, TypeOK, StopOK
<1>3. NotAbandoned'
  BY DEF DestroyStop, BeginStop, IInv, TypeOK, NotAbandoned
<1>4. PendingNotLost'
  BY DEF DestroyStop, BeginStop, IInv, TypeOK, PendingNotLost
<1>5. StopRequestNotLost'
  BY DEF DestroyStop, BeginStop, IInv, TypeOK, StopRequestNotLost
<1>6. SignalMeansDown'
  BY DEF DestroyStop, BeginStop, IInv, TypeOK, SignalMeansDown
<1>7. /\ HandsOK' /\ DriversOK' /\ MainOK' /\ OneConnection' /\ NoDanglingWsi'
      /\ ReleasedUntouched'
  BY DEF DestroyStop, IInv, HandsOK, DriversOK, MainOK, OneConnection,
         NoDanglingWsi, ReleasedUntouched
<1> QED BY <1>1, <1>2, <1>3, <1>4, <1>5, <1>6, <1>7 DEF IInv

\* All clients have been stopped when the thread is told to end.
LEMMA DestroyQuitInv ==
  ASSUME IInv, DestroyQuit
  PROVE  IInv'
<1>1. TypeOK'
  BY DEF DestroyQuit, ThreadStarted, IInv, TypeOK
<1>2. MainOK'
  BY DEF DestroyQuit, ThreadStarted, IInv, TypeOK, MainOK
<1>3. StopOK'
  BY DEF DestroyQuit, ThreadStarted, IInv, TypeOK, StopOK
<1>4. PendingNotLost'
  BY DEF DestroyQuit, ThreadStarted, IInv, TypeOK, PendingNotLost
<1>5. /\ HandsOK' /\ DriversOK' /\ OneConnection' /\ NoDanglingWsi'
      /\ NotAbandoned' /\ StopRequestNotLost' /\ SignalMeansDown'
      /\ ReleasedUntouched'
  BY DEF DestroyQuit, IInv, HandsOK, DriversOK, OneConnection, NoDanglingWsi,
         NotAbandoned, StopRequestNotLost, SignalMeansDown, ReleasedUntouched
<1> QED BY <1>1, <1>2, <1>3, <1>4, <1>5 DEF IInv

\* The thread is woken to see it.
LEMMA DestroyWakeInv ==
  ASSUME IInv, DestroyWake
  PROVE  IInv'
<1>1. TypeOK'
  BY DEF DestroyWake, IInv, TypeOK
<1>2. MainOK'
  BY DEF DestroyWake, IInv, TypeOK, MainOK
<1>3. StopOK'
  BY DEF DestroyWake, IInv, TypeOK, StopOK
<1>4. PendingNotLost'
  BY DEF DestroyWake, IInv, TypeOK, PendingNotLost
<1>5. StopRequestNotLost'
  BY DEF DestroyWake, IInv, TypeOK, StopRequestNotLost
<1>6. /\ HandsOK' /\ DriversOK' /\ OneConnection' /\ NoDanglingWsi'
      /\ NotAbandoned' /\ SignalMeansDown' /\ ReleasedUntouched'
  BY DEF DestroyWake, IInv, HandsOK, DriversOK, OneConnection, NoDanglingWsi,
         NotAbandoned, SignalMeansDown, ReleasedUntouched
<1> QED BY <1>1, <1>2, <1>3, <1>4, <1>5, <1>6 DEF IInv

\* After the join the service thread does nothing more.
LEMMA DestroyJoinInv ==
  ASSUME IInv, DestroyJoin
  PROVE  IInv'
<1>1. TypeOK'
  BY DEF DestroyJoin, ThreadExited, IInv, TypeOK
<1>2. MainOK'
  BY DEF DestroyJoin, ThreadExited, IInv, TypeOK, MainOK
<1>3. StopOK'
  BY DEF DestroyJoin, ThreadExited, IInv, TypeOK, StopOK
<1>4. PendingNotLost'
  BY DEF DestroyJoin, ThreadExited, IInv, TypeOK, PendingNotLost
<1>5. /\ HandsOK' /\ DriversOK' /\ OneConnection' /\ NoDanglingWsi'
      /\ NotAbandoned' /\ StopRequestNotLost' /\ SignalMeansDown'
      /\ ReleasedUntouched'
  BY DEF DestroyJoin, IInv, HandsOK, DriversOK, OneConnection, NoDanglingWsi,
         NotAbandoned, StopRequestNotLost, SignalMeansDown, ReleasedUntouched
<1> QED BY <1>1, <1>2, <1>3, <1>4, <1>5 DEF IInv

\* No connection and no timer survives the context.
LEMMA DestroyContextInv ==
  ASSUME IInv, DestroyContext
  PROVE  IInv'
<1>1. TypeOK'
  <2>1. state' \in [Clients -> States]
    <3>1. CASE ctx
      <4>1. PICK closed \in SUBSET {c \in Clients : Live(c)} :
              state' = [c \in Clients |->
                          IF c \in closed THEN "idle" ELSE state[c]]
        BY <3>1 DEF DestroyContext
      <4> QED BY <4>1 DEF IInv, TypeOK
    <3> QED BY <3>1 DEF DestroyContext, IInv, TypeOK
  <2>2. wsi' \in [Clients -> Wsis \cup {Nil}]
    BY DEF DestroyContext, WsiDestroyed, IInv, TypeOK
  <2>3. stopped' \in [Clients -> BOOLEAN]
    BY DEF DestroyContext, IInv, TypeOK
  <2>4. sul' = [c \in Clients |-> FALSE] \/ sul' = sul
    BY DEF DestroyContext
  <2>5. sul' \in [Clients -> BOOLEAN]
    BY <2>4 DEF IInv, TypeOK
  <2>6. owner' \in [Wsis -> Clients \cup {Nil}]
    BY DEF DestroyContext, IInv, TypeOK
  <2>7. up' \subseteq Wsis /\ asked' \subseteq Wsis /\ cancel' \in BOOLEAN
    BY DEF DestroyContext, IInv, TypeOK
  <2> QED BY <2>1, <2>2, <2>3, <2>5, <2>6, <2>7 DEF DestroyContext, IInv, TypeOK
<1>2. HandsOK'
  BY DEF DestroyContext, WsiDestroyed, IInv, TypeOK, HandsOK, DriversOK,
         MainOK, StopOK, OneConnection, NoDanglingWsi
<1>3. DriversOK'
  BY DEF DestroyContext, WsiDestroyed, IInv, TypeOK, DriversOK
<1>4. MainOK'
  BY DEF DestroyContext, WsiDestroyed, IInv, TypeOK, MainOK
<1>5. StopOK'
  BY DEF DestroyContext, WsiDestroyed, IInv, TypeOK, HandsOK, DriversOK,
         MainOK, StopOK, OneConnection, NoDanglingWsi
<1>6. OneConnection'
  BY DEF DestroyContext, WsiDestroyed, IInv, TypeOK, OneConnection
<1>7. NoDanglingWsi'
  BY DEF DestroyContext, WsiDestroyed, IInv, TypeOK, NoDanglingWsi
<1>8. NotAbandoned'
  BY DEF DestroyContext, WsiDestroyed, IInv, TypeOK, HandsOK, DriversOK,
         MainOK, StopOK, OneConnection, NoDanglingWsi, NotAbandoned
<1>9. PendingNotLost'
  BY DEF DestroyContext, WsiDestroyed, IInv, TypeOK, HandsOK, DriversOK,
         MainOK, StopOK, OneConnection, NoDanglingWsi, PendingNotLost
<1>10. StopRequestNotLost'
  BY DEF DestroyContext, WsiDestroyed, IInv, TypeOK, HandsOK, DriversOK,
         MainOK, StopOK, OneConnection, NoDanglingWsi, StopRequestNotLost
<1>11. SignalMeansDown'
  BY DEF DestroyContext, WsiDestroyed, IInv, TypeOK, SignalMeansDown
<1>12. ReleasedUntouched'
  BY DEF DestroyContext, WsiDestroyed, IInv, TypeOK, ReleasedUntouched
<1> QED BY <1>1, <1>2, <1>3, <1>4, <1>5, <1>6, <1>7, <1>8, <1>9, <1>10, <1>11,
           <1>12 DEF IInv

\* What is released has no connection, no timer and no service thread.
LEMMA DestroyClientInv ==
  ASSUME IInv, NEW c \in Clients, DestroyClient(c)
  PROVE  IInv'
<1>1. TypeOK'
  BY DEF DestroyClient, IInv, TypeOK
<1>2. MainOK'
  BY DEF DestroyClient, IInv, TypeOK, MainOK
<1>3. StopOK'
  BY DEF DestroyClient, IInv, TypeOK, StopOK
<1>4. ReleasedUntouched'
  BY DEF DestroyClient, IInv, TypeOK, HandsOK, DriversOK, MainOK, StopOK,
         OneConnection, NoDanglingWsi, ReleasedUntouched
<1>5. /\ HandsOK' /\ DriversOK' /\ OneConnection' /\ NoDanglingWsi'
      /\ NotAbandoned' /\ PendingNotLost' /\ StopRequestNotLost'
      /\ SignalMeansDown'
  BY DEF DestroyClient, IInv, HandsOK, DriversOK, OneConnection,
         NoDanglingWsi, NotAbandoned, PendingNotLost, StopRequestNotLost,
         SignalMeansDown
<1> QED BY <1>1, <1>2, <1>3, <1>4, <1>5 DEF IInv

\* The rest of pending[] is released under the same conditions.
LEMMA DestroyPendingInv ==
  ASSUME IInv, DestroyPending
  PROVE  IInv'
<1>1. TypeOK'
  BY DEF DestroyPending, IInv, TypeOK
<1>2. MainOK'
  BY DEF DestroyPending, IInv, TypeOK, MainOK
<1>3. StopOK'
  BY DEF DestroyPending, IInv, TypeOK, StopOK
<1>4. PendingNotLost'
  BY DEF DestroyPending, IInv, TypeOK, PendingNotLost
<1>5. /\ HandsOK' /\ DriversOK' /\ OneConnection' /\ NoDanglingWsi'
      /\ NotAbandoned' /\ StopRequestNotLost' /\ SignalMeansDown'
      /\ ReleasedUntouched'
  BY DEF DestroyPending, IInv, HandsOK, DriversOK, OneConnection,
         NoDanglingWsi, NotAbandoned, StopRequestNotLost, SignalMeansDown,
         ReleasedUntouched
<1> QED BY <1>1, <1>2, <1>3, <1>4, <1>5 DEF IInv

\* The pool is gone.
LEMMA DestroyEndInv ==
  ASSUME IInv, DestroyEnd
  PROVE  IInv'
<1>1. TypeOK'
  BY DEF DestroyEnd, IInv, TypeOK
<1>2. DriversOK'
  BY DEF DestroyEnd, IInv, TypeOK, DriversOK
<1>3. MainOK'
  BY DEF DestroyEnd, IInv, TypeOK, MainOK
<1>4. StopOK'
  BY DEF DestroyEnd, IInv, TypeOK, StopOK
<1>5. NotAbandoned'
  BY DEF DestroyEnd, IInv, TypeOK, HandsOK, DriversOK, MainOK, StopOK,
         OneConnection, NoDanglingWsi, NotAbandoned
<1>6. PendingNotLost'
  BY DEF DestroyEnd, IInv, TypeOK, PendingNotLost
<1>7. ReleasedUntouched'
  BY DEF DestroyEnd, IInv, TypeOK, ReleasedUntouched
<1>8. /\ HandsOK' /\ OneConnection' /\ NoDanglingWsi' /\ StopRequestNotLost'
      /\ SignalMeansDown'
  BY DEF DestroyEnd, IInv, HandsOK, OneConnection, NoDanglingWsi,
         StopRequestNotLost, SignalMeansDown
<1> QED BY <1>1, <1>2, <1>3, <1>4, <1>5, <1>6, <1>7, <1>8 DEF IInv

-----------------------------------------------------------------------------
\* The service thread: its loop and WAIT_CANCELLED.

\* The thread ends only between two calls of lws_service.
LEMMA SvcLoopInv ==
  ASSUME IInv, SvcLoop
  PROVE  IInv'
<1>1. TypeOK'
  BY DEF SvcLoop, LoopEnds, IInv, TypeOK
<1>2. HandsOK'
  BY DEF SvcLoop, LoopEnds, IInv, TypeOK, HandsOK
<1>3. DriversOK'
  BY DEF SvcLoop, LoopEnds, IInv, TypeOK, DriversOK
<1>4. MainOK'
  BY DEF SvcLoop, LoopEnds, IInv, TypeOK, MainOK
<1>5. StopOK'
  BY DEF SvcLoop, LoopEnds, IInv, TypeOK, StopOK
<1>6. PendingNotLost'
  BY DEF SvcLoop, LoopEnds, IInv, TypeOK, PendingNotLost
<1>7. StopRequestNotLost'
  BY DEF SvcLoop, LoopEnds, IInv, TypeOK, StopRequestNotLost
<1>8. ReleasedUntouched'
  BY DEF SvcLoop, LoopEnds, IInv, TypeOK, ReleasedUntouched
<1>9. /\ OneConnection' /\ NoDanglingWsi' /\ NotAbandoned' /\ SignalMeansDown'
  BY DEF SvcLoop, IInv, OneConnection, NoDanglingWsi, NotAbandoned,
         SignalMeansDown
<1> QED BY <1>1, <1>2, <1>3, <1>4, <1>5, <1>6, <1>7, <1>8, <1>9 DEF IInv

\* lws_service returns with empty hands.
LEMMA SvcReturnInv ==
  ASSUME IInv, SvcReturn
  PROVE  IInv'
<1>1. TypeOK'
  BY DEF SvcReturn, IInv, TypeOK
<1>2. HandsOK'
  BY DEF SvcReturn, IInv, TypeOK, HandsOK
<1>3. DriversOK'
  BY DEF SvcReturn, IInv, TypeOK, DriversOK
<1>4. MainOK'
  BY DEF SvcReturn, IInv, TypeOK, MainOK
<1>5. StopOK'
  BY DEF SvcReturn, IInv, TypeOK, StopOK
<1>6. PendingNotLost'
  BY DEF SvcReturn, IInv, TypeOK, PendingNotLost
<1>7. StopRequestNotLost'
  BY DEF SvcReturn, IInv, TypeOK, StopRequestNotLost
<1>8. ReleasedUntouched'
  BY DEF SvcReturn, IInv, TypeOK, ReleasedUntouched
<1>9. /\ OneConnection' /\ NoDanglingWsi' /\ NotAbandoned' /\ SignalMeansDown'
  BY DEF SvcReturn, IInv, OneConnection, NoDanglingWsi, NotAbandoned,
         SignalMeansDown
<1> QED BY <1>1, <1>2, <1>3, <1>4, <1>5, <1>6, <1>7, <1>8, <1>9 DEF IInv

\* A drained request is followed by the look at pending[] and at clients[].
LEMMA WaitCancelledInv ==
  ASSUME IInv, WaitCancelled
  PROVE  IInv'
<1>1. TypeOK'
  BY DEF WaitCancelled, IInv, TypeOK
<1>2. HandsOK'
  BY DEF WaitCancelled, IInv, TypeOK, HandsOK
<1>3. DriversOK'
  BY DEF WaitCancelled, IInv, TypeOK, DriversOK
<1>4. MainOK'
  BY DEF WaitCancelled, IInv, TypeOK, MainOK
<1>5. StopOK'
  BY DEF WaitCancelled, IInv, TypeOK, StopOK
<1>6. PendingNotLost'
  BY DEF WaitCancelled, IInv, TypeOK, PendingNotLost
<1>7. StopRequestNotLost'
  BY DEF WaitCancelled, IInv, TypeOK, StopRequestNotLost
<1>8. ReleasedUntouched'
  BY DEF WaitCancelled, IInv, TypeOK, ReleasedUntouched
<1>9. /\ OneConnection' /\ NoDanglingWsi' /\ NotAbandoned' /\ SignalMeansDown'
  BY DEF WaitCancelled, IInv, OneConnection, NoDanglingWsi, NotAbandoned,
         SignalMeansDown
<1> QED BY <1>1, <1>2, <1>3, <1>4, <1>5, <1>6, <1>7, <1>8, <1>9 DEF IInv

\* The clients taken from pending[] stay in exactly one place.
LEMMA TakePendingInv ==
  ASSUME IInv, TakePending
  PROVE  IInv'
<1>1. TypeOK'
  BY DEF TakePending, IInv, TypeOK
<1>2. HandsOK'
  BY DEF TakePending, IInv, TypeOK, HandsOK
<1>3. DriversOK'
  BY DEF TakePending, IInv, TypeOK, DriversOK
<1>4. MainOK'
  BY DEF TakePending, IInv, TypeOK, MainOK
<1>5. StopOK'
  BY DEF TakePending, IInv, TypeOK, StopOK
<1>6. NotAbandoned'
  BY DEF TakePending, IInv, TypeOK, HandsOK, DriversOK, MainOK, StopOK,
         OneConnection, NoDanglingWsi, NotAbandoned
<1>7. PendingNotLost'
  BY DEF TakePending, IInv, TypeOK, PendingNotLost
<1>8. StopRequestNotLost'
  BY DEF TakePending, IInv, TypeOK, StopRequestNotLost
<1>9. ReleasedUntouched'
  BY DEF TakePending, IInv, TypeOK, ReleasedUntouched
<1>10. /\ OneConnection' /\ NoDanglingWsi' /\ SignalMeansDown'
  BY DEF TakePending, IInv, OneConnection, NoDanglingWsi, SignalMeansDown
<1> QED BY <1>1, <1>2, <1>3, <1>4, <1>5, <1>6, <1>7, <1>8, <1>9, <1>10 DEF IInv

\* A client taken from pending[] has no connection and no timer.
LEMMA ConnectNextInv ==
  ASSUME IInv, NEW c \in Clients, ConnectNext(c)
  PROVE  IInv'
<1>1. TypeOK'
  BY DEF ConnectNext, EnterConnect, IInv, TypeOK
<1>2. HandsOK'
  BY DEF ConnectNext, EnterConnect, IInv, TypeOK, HandsOK, DriversOK, MainOK,
         StopOK, OneConnection, NoDanglingWsi
<1>3. DriversOK'
  BY DEF ConnectNext, EnterConnect, IInv, TypeOK, HandsOK, DriversOK, MainOK,
         StopOK, OneConnection, NoDanglingWsi
<1>4. MainOK'
  BY DEF ConnectNext, EnterConnect, IInv, TypeOK, MainOK
<1>5. StopOK'
  BY DEF ConnectNext, EnterConnect, IInv, TypeOK, StopOK
<1>6. NotAbandoned'
  BY DEF ConnectNext, EnterConnect, IInv, TypeOK, HandsOK, DriversOK, MainOK,
         StopOK, OneConnection, NoDanglingWsi, NotAbandoned
<1>7. PendingNotLost'
  BY DEF ConnectNext, EnterConnect, IInv, TypeOK, PendingNotLost
<1>8. StopRequestNotLost'
  BY DEF ConnectNext, EnterConnect, IInv, TypeOK, StopRequestNotLost
<1>9. ReleasedUntouched'
  BY DEF ConnectNext, EnterConnect, IInv, TypeOK, ReleasedUntouched
<1>10. /\ OneConnection' /\ NoDanglingWsi' /\ SignalMeansDown'
  BY DEF ConnectNext, IInv, OneConnection, NoDanglingWsi, SignalMeansDown
<1> QED BY <1>1, <1>2, <1>3, <1>4, <1>5, <1>6, <1>7, <1>8, <1>9, <1>10 DEF IInv

\* A waiting stop's client is in the snapshot.
LEMMA SnapshotInv ==
  ASSUME IInv, Snapshot
  PROVE  IInv'
<1>1. TypeOK'
  BY DEF Snapshot, IInv, TypeOK
<1>2. HandsOK'
  BY DEF Snapshot, IInv, TypeOK, HandsOK
<1>3. DriversOK'
  BY DEF Snapshot, IInv, TypeOK, DriversOK
<1>4. MainOK'
  BY DEF Snapshot, IInv, TypeOK, MainOK
<1>5. StopOK'
  BY DEF Snapshot, IInv, TypeOK, StopOK
<1>6. PendingNotLost'
  BY DEF Snapshot, IInv, TypeOK, PendingNotLost
<1>7. StopRequestNotLost'
  BY DEF Snapshot, IInv, TypeOK, HandsOK, DriversOK, MainOK, StopOK,
         OneConnection, NoDanglingWsi, StopRequestNotLost
<1>8. ReleasedUntouched'
  BY DEF Snapshot, IInv, TypeOK, ReleasedUntouched
<1>9. /\ OneConnection' /\ NoDanglingWsi' /\ NotAbandoned' /\ SignalMeansDown'
  BY DEF Snapshot, IInv, OneConnection, NoDanglingWsi, NotAbandoned,
         SignalMeansDown
<1> QED BY <1>1, <1>2, <1>3, <1>4, <1>5, <1>6, <1>7, <1>8, <1>9 DEF IInv

\* The loop passes a stopped client only after asking it to close.
LEMMA ScanNextInv ==
  ASSUME IInv, NEW c \in Clients, ScanNext(c)
  PROVE  IInv'
<1>1. TypeOK'
  BY DEF ScanNext, IInv, TypeOK
<1>2. HandsOK'
  BY DEF ScanNext, IInv, TypeOK, HandsOK
<1>3. DriversOK'
  BY DEF ScanNext, IInv, TypeOK, DriversOK
<1>4. StopRequestNotLost'
  BY DEF ScanNext, IInv, TypeOK, HandsOK, DriversOK, MainOK, StopOK,
         OneConnection, NoDanglingWsi, StopRequestNotLost
<1>5. ReleasedUntouched'
  BY DEF ScanNext, IInv, TypeOK, ReleasedUntouched
<1>6. /\ MainOK' /\ StopOK' /\ OneConnection' /\ NoDanglingWsi'
      /\ NotAbandoned' /\ PendingNotLost' /\ SignalMeansDown'
  BY DEF ScanNext, IInv, MainOK, StopOK, OneConnection, NoDanglingWsi,
         NotAbandoned, PendingNotLost, SignalMeansDown
<1> QED BY <1>1, <1>2, <1>3, <1>4, <1>5, <1>6 DEF IInv

\* Nothing is left to visit.
LEMMA ScanEndInv ==
  ASSUME IInv, ScanEnd
  PROVE  IInv'
<1>1. TypeOK'
  BY DEF ScanEnd, IInv, TypeOK
<1>2. HandsOK'
  BY DEF ScanEnd, IInv, TypeOK, HandsOK
<1>3. DriversOK'
  BY DEF ScanEnd, IInv, TypeOK, DriversOK
<1>4. MainOK'
  BY DEF ScanEnd, IInv, TypeOK, MainOK
<1>5. StopOK'
  BY DEF ScanEnd, IInv, TypeOK, StopOK
<1>6. PendingNotLost'
  BY DEF ScanEnd, IInv, TypeOK, PendingNotLost
<1>7. StopRequestNotLost'
  BY DEF ScanEnd, IInv, TypeOK, StopRequestNotLost
<1>8. ReleasedUntouched'
  BY DEF ScanEnd, IInv, TypeOK, ReleasedUntouched
<1>9. /\ OneConnection' /\ NoDanglingWsi' /\ NotAbandoned' /\ SignalMeansDown'
  BY DEF ScanEnd, IInv, OneConnection, NoDanglingWsi, NotAbandoned,
         SignalMeansDown
<1> QED BY <1>1, <1>2, <1>3, <1>4, <1>5, <1>6, <1>7, <1>8, <1>9 DEF IInv

-----------------------------------------------------------------------------
\* The service thread: the timer and do_connect.

\* A timer that fires belongs to a client without a connection.
LEMMA SulFiresInv ==
  ASSUME IInv, NEW c \in Clients, SulFires(c)
  PROVE  IInv'
<1>1. TypeOK'
  BY DEF SulFires, EnterConnect, FiresFor, IInv, TypeOK
<1>2. HandsOK'
  BY DEF SulFires, EnterConnect, FiresFor, IInv, TypeOK, HandsOK, DriversOK,
         MainOK, StopOK, OneConnection, NoDanglingWsi
<1>3. DriversOK'
  BY DEF SulFires, EnterConnect, FiresFor, IInv, TypeOK, HandsOK, DriversOK,
         MainOK, StopOK, OneConnection, NoDanglingWsi
<1>4. MainOK'
  BY DEF SulFires, EnterConnect, FiresFor, IInv, TypeOK, MainOK
<1>5. StopOK'
  BY DEF SulFires, EnterConnect, FiresFor, IInv, TypeOK, StopOK
<1>6. NotAbandoned'
  BY DEF SulFires, EnterConnect, FiresFor, IInv, TypeOK, HandsOK, DriversOK,
         MainOK, StopOK, OneConnection, NoDanglingWsi, NotAbandoned
<1>7. PendingNotLost'
  BY DEF SulFires, EnterConnect, FiresFor, IInv, TypeOK, PendingNotLost
<1>8. StopRequestNotLost'
  BY DEF SulFires, EnterConnect, FiresFor, IInv, TypeOK, HandsOK, DriversOK,
         MainOK, StopOK, OneConnection, NoDanglingWsi, StopRequestNotLost
<1>9. ReleasedUntouched'
  BY DEF SulFires, EnterConnect, FiresFor, IInv, TypeOK, ReleasedUntouched
<1>10. /\ OneConnection' /\ NoDanglingWsi' /\ SignalMeansDown'
  BY DEF SulFires, IInv, OneConnection, NoDanglingWsi, SignalMeansDown
<1> QED BY <1>1, <1>2, <1>3, <1>4, <1>5, <1>6, <1>7, <1>8, <1>9, <1>10 DEF IInv

\* The new connection is its client's only one.
LEMMA ConnectOpensInv ==
  ASSUME IInv, NEW w \in Wsis, ConnectOpens(w)
  PROVE  IInv'
<1>1. TypeOK'
  BY DEF ConnectOpens, LeaveConnect, FreeWsis, IInv, TypeOK
<1>2. HandsOK'
  BY DEF ConnectOpens, LeaveConnect, FreeWsis, IInv, TypeOK, HandsOK
<1>3. DriversOK'
  BY DEF ConnectOpens, LeaveConnect, FreeWsis, IInv, TypeOK, DriversOK
<1>4. MainOK'
  BY DEF ConnectOpens, LeaveConnect, FreeWsis, IInv, TypeOK, MainOK
<1>5. StopOK'
  BY DEF ConnectOpens, LeaveConnect, FreeWsis, IInv, TypeOK, StopOK
<1>6. OneConnection'
  BY DEF ConnectOpens, LeaveConnect, FreeWsis, IInv, TypeOK, HandsOK,
         DriversOK, MainOK, StopOK, OneConnection, NoDanglingWsi
<1>7. NoDanglingWsi'
  BY DEF ConnectOpens, LeaveConnect, FreeWsis, IInv, TypeOK, NoDanglingWsi
<1>8. NotAbandoned'
  BY DEF ConnectOpens, LeaveConnect, FreeWsis, IInv, TypeOK, NotAbandoned
<1>9. PendingNotLost'
  BY DEF ConnectOpens, LeaveConnect, FreeWsis, IInv, TypeOK, PendingNotLost
<1>10. StopRequestNotLost'
  BY DEF ConnectOpens, LeaveConnect, FreeWsis, IInv, TypeOK, HandsOK,
         DriversOK, MainOK, StopOK, OneConnection, NoDanglingWsi,
         StopRequestNotLost
<1>11. SignalMeansDown'
  BY DEF ConnectOpens, LeaveConnect, FreeWsis, IInv, TypeOK, HandsOK,
         DriversOK, MainOK, StopOK, OneConnection, NoDanglingWsi,
         SignalMeansDown
<1>12. ReleasedUntouched'
  BY DEF ConnectOpens, LeaveConnect, FreeWsis, IInv, TypeOK, ReleasedUntouched
<1> QED BY <1>1, <1>2, <1>3, <1>4, <1>5, <1>6, <1>7, <1>8, <1>9, <1>10, <1>11,
           <1>12 DEF IInv

\* A failed dial goes on to schedule_reconnect.
LEMMA ConnectNullInv ==
  ASSUME IInv, ConnectNull
  PROVE  IInv'
<1>1. TypeOK'
  BY DEF ConnectNull, NullRetries, IInv, TypeOK
<1>2. HandsOK'
  BY DEF ConnectNull, NullRetries, IInv, TypeOK, HandsOK
<1>3. DriversOK'
  BY DEF ConnectNull, NullRetries, IInv, TypeOK, DriversOK
<1>4. MainOK'
  BY DEF ConnectNull, NullRetries, IInv, TypeOK, MainOK
<1>5. StopOK'
  BY DEF ConnectNull, NullRetries, IInv, TypeOK, StopOK
<1>6. NoDanglingWsi'
  BY DEF ConnectNull, NullRetries, IInv, TypeOK, NoDanglingWsi
<1>7. NotAbandoned'
  BY DEF ConnectNull, NullRetries, IInv, TypeOK, NotAbandoned
<1>8. PendingNotLost'
  BY DEF ConnectNull, NullRetries, IInv, TypeOK, PendingNotLost
<1>9. StopRequestNotLost'
  BY DEF ConnectNull, NullRetries, IInv, TypeOK, StopRequestNotLost
<1>10. SignalMeansDown'
  BY DEF ConnectNull, NullRetries, IInv, TypeOK, SignalMeansDown
<1>11. ReleasedUntouched'
  BY DEF ConnectNull, NullRetries, IInv, TypeOK, ReleasedUntouched
<1>12. /\ OneConnection'
  BY DEF ConnectNull, IInv, OneConnection
<1> QED BY <1>1, <1>2, <1>3, <1>4, <1>5, <1>6, <1>7, <1>8, <1>9, <1>10, <1>11,
           <1>12 DEF IInv

\* The nested CONNECTION_ERROR clears what do_connect did not yet store.
LEMMA ConnectFailsInv ==
  ASSUME IInv, NEW w \in Wsis, ConnectFails(w)
  PROVE  IInv'
<1>1. TypeOK'
  BY DEF ConnectFails, LoseConnection, FreeWsis, IInv, TypeOK
<1>2. HandsOK'
  BY DEF ConnectFails, LoseConnection, FreeWsis, IInv, TypeOK, HandsOK
<1>3. DriversOK'
  BY DEF ConnectFails, LoseConnection, FreeWsis, IInv, TypeOK, DriversOK
<1>4. MainOK'
  BY DEF ConnectFails, LoseConnection, FreeWsis, IInv, TypeOK, MainOK
<1>5. StopOK'
  BY DEF ConnectFails, LoseConnection, FreeWsis, IInv, TypeOK, HandsOK,
         DriversOK, MainOK, StopOK, OneConnection, NoDanglingWsi
<1>6. OneConnection'
  BY DEF ConnectFails, LoseConnection, FreeWsis, IInv, TypeOK, HandsOK,
         DriversOK, MainOK, StopOK, OneConnection, NoDanglingWsi
<1>7. NoDanglingWsi'
  BY DEF ConnectFails, LoseConnection, FreeWsis, IInv, TypeOK, NoDanglingWsi
<1>8. NotAbandoned'
  BY DEF ConnectFails, LoseConnection, FreeWsis, IInv, TypeOK, NotAbandoned
<1>9. PendingNotLost'
  BY DEF ConnectFails, LoseConnection, FreeWsis, IInv, TypeOK, PendingNotLost
<1>10. StopRequestNotLost'
  BY DEF ConnectFails, LoseConnection, FreeWsis, IInv, TypeOK,
         StopRequestNotLost
<1>11. SignalMeansDown'
  BY DEF ConnectFails, LoseConnection, FreeWsis, IInv, TypeOK, HandsOK,
         DriversOK, MainOK, StopOK, OneConnection, NoDanglingWsi,
         SignalMeansDown
<1>12. ReleasedUntouched'
  BY DEF ConnectFails, LoseConnection, FreeWsis, IInv, TypeOK,
         ReleasedUntouched
<1> QED BY <1>1, <1>2, <1>3, <1>4, <1>5, <1>6, <1>7, <1>8, <1>9, <1>10, <1>11,
           <1>12 DEF IInv

-----------------------------------------------------------------------------
\* The service thread: events of a connection, schedule_reconnect, WSI_DESTROY.

\* Only the state of the client changes.
LEMMA EstablishedInv ==
  ASSUME IInv, NEW w \in Wsis, Established(w)
  PROVE  IInv'
<1>1. TypeOK'
  BY DEF Established, IInv, TypeOK
<1>2. HandsOK'
  BY DEF Established, IInv, TypeOK, HandsOK
<1>3. StopOK'
  BY DEF Established, IInv, TypeOK, StopOK
<1>4. NotAbandoned'
  BY DEF Established, IInv, TypeOK, NotAbandoned
<1>5. /\ DriversOK' /\ MainOK' /\ OneConnection' /\ NoDanglingWsi'
      /\ PendingNotLost' /\ StopRequestNotLost' /\ SignalMeansDown'
      /\ ReleasedUntouched'
  BY DEF Established, IInv, DriversOK, MainOK, OneConnection, NoDanglingWsi,
         PendingNotLost, StopRequestNotLost, SignalMeansDown,
         ReleasedUntouched
<1> QED BY <1>1, <1>2, <1>3, <1>4, <1>5 DEF IInv

\* The lost connection was its client's only one.
LEMMA ConnectionErrorInv ==
  ASSUME IInv, NEW w \in Wsis, ConnectionError(w)
  PROVE  IInv'
<1>1. TypeOK'
  BY DEF ConnectionError, LoseConnection, IInv, TypeOK
<1>2. HandsOK'
  BY DEF ConnectionError, LoseConnection, IInv, TypeOK, HandsOK
<1>3. DriversOK'
  BY DEF ConnectionError, LoseConnection, IInv, TypeOK, HandsOK, DriversOK,
         MainOK, StopOK, OneConnection, NoDanglingWsi
<1>4. MainOK'
  BY DEF ConnectionError, LoseConnection, IInv, TypeOK, MainOK
<1>5. StopOK'
  BY DEF ConnectionError, LoseConnection, IInv, TypeOK, HandsOK, DriversOK,
         MainOK, StopOK, OneConnection, NoDanglingWsi
<1>6. NoDanglingWsi'
  BY DEF ConnectionError, LoseConnection, IInv, TypeOK, NoDanglingWsi
<1>7. NotAbandoned'
  BY DEF ConnectionError, LoseConnection, IInv, TypeOK, HandsOK, DriversOK,
         MainOK, StopOK, OneConnection, NoDanglingWsi, NotAbandoned
<1>8. PendingNotLost'
  BY DEF ConnectionError, LoseConnection, IInv, TypeOK, PendingNotLost
<1>9. StopRequestNotLost'
  BY DEF ConnectionError, LoseConnection, IInv, TypeOK, HandsOK, DriversOK,
         MainOK, StopOK, OneConnection, NoDanglingWsi, StopRequestNotLost
<1>10. SignalMeansDown'
  BY DEF ConnectionError, LoseConnection, IInv, TypeOK, HandsOK, DriversOK,
         MainOK, StopOK, OneConnection, NoDanglingWsi, SignalMeansDown
<1>11. ReleasedUntouched'
  BY DEF ConnectionError, LoseConnection, IInv, TypeOK, ReleasedUntouched
<1>12. /\ OneConnection'
  BY DEF ConnectionError, IInv, OneConnection
<1> QED BY <1>1, <1>2, <1>3, <1>4, <1>5, <1>6, <1>7, <1>8, <1>9, <1>10, <1>11,
           <1>12 DEF IInv

\* The lost connection was its client's only one.
LEMMA ClosedInv ==
  ASSUME IInv, NEW w \in Wsis, Closed(w)
  PROVE  IInv'
<1>1. TypeOK'
  BY DEF Closed, LoseConnection, IInv, TypeOK, HandsOK, DriversOK, MainOK,
         StopOK, OneConnection, NoDanglingWsi
<1>2. HandsOK'
  BY DEF Closed, LoseConnection, IInv, TypeOK, HandsOK
<1>3. DriversOK'
  BY DEF Closed, LoseConnection, IInv, TypeOK, HandsOK, DriversOK, MainOK,
         StopOK, OneConnection, NoDanglingWsi
<1>4. MainOK'
  BY DEF Closed, LoseConnection, IInv, TypeOK, MainOK
<1>5. StopOK'
  BY DEF Closed, LoseConnection, IInv, TypeOK, HandsOK, DriversOK, MainOK,
         StopOK, OneConnection, NoDanglingWsi
<1>6. NoDanglingWsi'
  BY DEF Closed, LoseConnection, IInv, TypeOK, NoDanglingWsi
<1>7. NotAbandoned'
  BY DEF Closed, LoseConnection, IInv, TypeOK, HandsOK, DriversOK, MainOK,
         StopOK, OneConnection, NoDanglingWsi, NotAbandoned
<1>8. PendingNotLost'
  BY DEF Closed, LoseConnection, IInv, TypeOK, PendingNotLost
<1>9. StopRequestNotLost'
  BY DEF Closed, LoseConnection, IInv, TypeOK, HandsOK, DriversOK, MainOK,
         StopOK, OneConnection, NoDanglingWsi, StopRequestNotLost
<1>10. SignalMeansDown'
  BY DEF Closed, LoseConnection, IInv, TypeOK, HandsOK, DriversOK, MainOK,
         StopOK, OneConnection, NoDanglingWsi, SignalMeansDown
<1>11. ReleasedUntouched'
  BY DEF Closed, LoseConnection, IInv, TypeOK, ReleasedUntouched
<1>12. /\ OneConnection'
  BY DEF Closed, IInv, OneConnection
<1> QED BY <1>1, <1>2, <1>3, <1>4, <1>5, <1>6, <1>7, <1>8, <1>9, <1>10, <1>11,
           <1>12 DEF IInv

\* Returning early leaves a client that is being stopped.
LEMMA ScheduleCheckInv ==
  ASSUME IInv, ScheduleCheck
  PROVE  IInv'
<1>1. TypeOK'
  BY DEF ScheduleCheck, LeaveSchedule, LeaveConnect, IInv, TypeOK
<1>2. HandsOK'
  BY DEF ScheduleCheck, LeaveSchedule, LeaveConnect, IInv, TypeOK, HandsOK
<1>3. DriversOK'
  BY DEF ScheduleCheck, LeaveSchedule, LeaveConnect, IInv, TypeOK, DriversOK
<1>4. MainOK'
  BY DEF ScheduleCheck, LeaveSchedule, LeaveConnect, IInv, TypeOK, MainOK
<1>5. StopOK'
  BY DEF ScheduleCheck, LeaveSchedule, LeaveConnect, IInv, TypeOK, StopOK
<1>6. NotAbandoned'
  BY DEF ScheduleCheck, LeaveSchedule, LeaveConnect, IInv, TypeOK,
         NotAbandoned
<1>7. PendingNotLost'
  BY DEF ScheduleCheck, LeaveSchedule, LeaveConnect, IInv, TypeOK,
         PendingNotLost
<1>8. StopRequestNotLost'
  BY DEF ScheduleCheck, LeaveSchedule, LeaveConnect, IInv, TypeOK,
         StopRequestNotLost
<1>9. ReleasedUntouched'
  BY DEF ScheduleCheck, LeaveSchedule, LeaveConnect, IInv, TypeOK,
         ReleasedUntouched
<1>10. /\ OneConnection' /\ NoDanglingWsi' /\ SignalMeansDown'
  BY DEF ScheduleCheck, IInv, OneConnection, NoDanglingWsi, SignalMeansDown
<1> QED BY <1>1, <1>2, <1>3, <1>4, <1>5, <1>6, <1>7, <1>8, <1>9, <1>10 DEF IInv

\* The timer is set, or the hook has stopped the client.
LEMMA ScheduleArmInv ==
  ASSUME IInv, ScheduleArm
  PROVE  IInv'
<1>1. TypeOK'
  <2>1. sul' = [sul EXCEPT ![cur] = TRUE] \/ sul' = sul
    BY DEF ScheduleArm
  <2>2. sul' \in [Clients -> BOOLEAN]
    BY <2>1 DEF IInv, TypeOK
  <2>3. \E s \in {"reconnect_wait", "stopped"} : state' = [state EXCEPT ![cur] = s]
    BY DEF ScheduleArm
  <2>4. state' \in [Clients -> States]
    BY <2>3 DEF IInv, TypeOK
  <2>5. /\ spc' \in {"wsiDestroy", "batch", "service"}
        /\ mode' \in {mode, "event"} /\ cur' \in {cur, Nil}
        /\ spc' = "wsiDestroy" => cur' = cur /\ curw # Nil
    BY DEF ScheduleArm, LeaveSchedule, LeaveConnect
  <2> QED BY <2>2, <2>4, <2>5 DEF ScheduleArm, IInv, TypeOK
<1>2. HandsOK'
  BY DEF ScheduleArm, LeaveSchedule, LeaveConnect, IInv, TypeOK, HandsOK
<1>3. DriversOK'
  BY DEF ScheduleArm, LeaveSchedule, LeaveConnect, IInv, TypeOK, HandsOK,
         DriversOK, MainOK, StopOK, OneConnection, NoDanglingWsi
<1>4. MainOK'
  BY DEF ScheduleArm, LeaveSchedule, LeaveConnect, IInv, TypeOK, MainOK
<1>5. StopOK'
  BY DEF ScheduleArm, LeaveSchedule, LeaveConnect, IInv, TypeOK, StopOK
<1>6. NotAbandoned'
  BY DEF ScheduleArm, LeaveSchedule, LeaveConnect, IInv, TypeOK, NotAbandoned
<1>7. PendingNotLost'
  BY DEF ScheduleArm, LeaveSchedule, LeaveConnect, IInv, TypeOK,
         PendingNotLost
<1>8. StopRequestNotLost'
  BY DEF ScheduleArm, LeaveSchedule, LeaveConnect, IInv, TypeOK,
         StopRequestNotLost
<1>9. ReleasedUntouched'
  BY DEF ScheduleArm, LeaveSchedule, LeaveConnect, IInv, TypeOK,
         ReleasedUntouched
<1>10. /\ OneConnection' /\ NoDanglingWsi' /\ SignalMeansDown'
  BY DEF ScheduleArm, IInv, OneConnection, NoDanglingWsi, SignalMeansDown
<1> QED BY <1>1, <1>2, <1>3, <1>4, <1>5, <1>6, <1>7, <1>8, <1>9, <1>10 DEF IInv

\* The dying wsi was the last thing that tied lws to the client.
LEMMA WsiDestroyInv ==
  ASSUME IInv, WsiDestroy
  PROVE  IInv'
<1>1. TypeOK'
  BY DEF WsiDestroy, ResumesConnect, IInv, TypeOK
<1>2. HandsOK'
  BY DEF WsiDestroy, ResumesConnect, IInv, TypeOK, HandsOK, DriversOK, MainOK,
         StopOK, OneConnection, NoDanglingWsi
<1>3. DriversOK'
  BY DEF WsiDestroy, ResumesConnect, IInv, TypeOK, HandsOK, DriversOK, MainOK,
         StopOK, OneConnection, NoDanglingWsi
<1>4. MainOK'
  BY DEF WsiDestroy, ResumesConnect, IInv, TypeOK, MainOK
<1>5. StopOK'
  BY DEF WsiDestroy, ResumesConnect, IInv, TypeOK, HandsOK, DriversOK, MainOK,
         StopOK, OneConnection, NoDanglingWsi
<1>6. OneConnection'
  BY DEF WsiDestroy, ResumesConnect, IInv, TypeOK, OneConnection
<1>7. NoDanglingWsi'
  BY DEF WsiDestroy, ResumesConnect, IInv, TypeOK, HandsOK, DriversOK, MainOK,
         StopOK, OneConnection, NoDanglingWsi
<1>8. NotAbandoned'
  BY DEF WsiDestroy, ResumesConnect, IInv, TypeOK, HandsOK, DriversOK, MainOK,
         StopOK, OneConnection, NoDanglingWsi, NotAbandoned
<1>9. PendingNotLost'
  BY DEF WsiDestroy, ResumesConnect, IInv, TypeOK, PendingNotLost
<1>10. StopRequestNotLost'
  BY DEF WsiDestroy, ResumesConnect, IInv, TypeOK, HandsOK, DriversOK, MainOK,
         StopOK, OneConnection, NoDanglingWsi, StopRequestNotLost
<1>11. SignalMeansDown'
  BY DEF WsiDestroy, ResumesConnect, IInv, TypeOK, HandsOK, DriversOK, MainOK,
         StopOK, OneConnection, NoDanglingWsi, SignalMeansDown
<1>12. ReleasedUntouched'
  BY DEF WsiDestroy, ResumesConnect, IInv, TypeOK, ReleasedUntouched
<1> QED BY <1>1, <1>2, <1>3, <1>4, <1>5, <1>6, <1>7, <1>8, <1>9, <1>10, <1>11,
           <1>12 DEF IInv

-----------------------------------------------------------------------------
\* Every step, or none, preserves the invariant.
LEMMA NextInv == IInv /\ [Next]_vars => IInv'
<1> SUFFICES ASSUME IInv, [Next]_vars PROVE IInv'
  OBVIOUS
<1>1. ASSUME NEW t \in Threads, AppStep(t) PROVE IInv'
  BY <1>1, AddInv, AddWakeInv, DiscardInv, StopInv, StopSulInv, StopLookInv,
     StopWaitInv, StopFlushInv DEF AppStep, AddStep, StopStep
<1>2. CASE MainStep
  <2>1. CASE StartStep
    BY <2>1, StartContextInv, StartThreadInv, StartFailsInv, StartLookInv,
       StartWakeInv DEF StartStep
  <2>2. CASE DestroyBegin
    BY <2>2, DestroyBeginInv
  <2>3. CASE DestroyStep
    BY <2>3, DestroyStopInv, DestroyQuitInv, DestroyWakeInv, DestroyJoinInv,
       DestroyContextInv, DestroyClientInv, DestroyPendingInv, DestroyEndInv
       DEF DestroyStep
  <2> QED BY <1>2, <2>1, <2>2, <2>3 DEF MainStep
<1>3. CASE ServiceStep
  <2>1. CASE CancelledStep
    BY <2>1, WaitCancelledInv, TakePendingInv, SnapshotInv, ScanEndInv,
       ConnectNextInv, ScanNextInv DEF CancelledStep
  <2>2. CASE ConnectStep
    BY <2>2, ConnectNullInv, ConnectOpensInv, ConnectFailsInv DEF ConnectStep
  <2>3. CASE EventStep
    BY <2>3, SulFiresInv, EstablishedInv, ConnectionErrorInv, ClosedInv
       DEF EventStep
  <2> QED BY <1>3, <2>1, <2>2, <2>3, SvcLoopInv, SvcReturnInv,
             ScheduleCheckInv, ScheduleArmInv, WsiDestroyInv DEF ServiceStep
<1>4. CASE UNCHANGED vars
  BY <1>4 DEF IInv, TypeOK, HandsOK, DriversOK, MainOK, StopOK, OneConnection,
     NoDanglingWsi, NotAbandoned, PendingNotLost, StopRequestNotLost,
     SignalMeansDown, ReleasedUntouched
<1> QED BY <1>1, <1>2, <1>3, <1>4 DEF Next, Finished

\* The inductive invariant holds in every reachable state of the pool.
THEOREM Invariance == Spec => []IInv
<1>1. Init => IInv
  BY InitInv
<1>2. IInv /\ [Next]_vars => IInv'
  BY NextInv
<1> QED BY <1>1, <1>2, PTL DEF Spec

\* Every variable of the pool keeps its type.
THEOREM TypeCorrect == Spec => []TypeOK
<1>1. IInv => TypeOK
  BY DEF IInv
<1> QED BY <1>1, Invariance, PTL

\* No client ever owns two live connections (do_connect, ws_pool.c:189).
THEOREM SingleConnection == Spec => []OneConnection
<1>1. IInv => OneConnection
  BY DEF IInv
<1> QED BY <1>1, Invariance, PTL

\* c->wsi is NULL or points to a live connection of its client, wherever stop,
\* WAIT_CANCELLED or WSI_DESTROY read it.
THEOREM WsiNeverDangles == Spec => []NoDanglingWsi
<1>1. IInv => NoDanglingWsi
  BY DEF IInv
<1> QED BY <1>1, Invariance, PTL

\* No registered client is left without anything that will connect it, though
\* schedule_reconnect and do_connect are skipped, repeated and nested.
THEOREM NoneAbandoned == Spec => []NotAbandoned
<1>1. IInv => NotAbandoned
  BY DEF IInv
<1> QED BY <1>1, Invariance, PTL

\* pool_add and pool_start never leave a pending client without a wakeup.
THEOREM AddWakeup == Spec => []PendingNotLost
<1>1. IInv => PendingNotLost
  BY DEF IInv
<1> QED BY <1>1, Invariance, PTL

\* A stop that waits has its request delivered to the service thread.
THEOREM StopWakeup == Spec => []StopRequestNotLost
<1>1. IInv => StopRequestNotLost
  BY DEF IInv
<1> QED BY <1>1, Invariance, PTL

\* The signal on stop_cond is given only when the connection is gone.
THEOREM SignalSound == Spec => []SignalMeansDown
<1>1. IInv => SignalMeansDown
  BY DEF IInv
<1> QED BY <1>1, Invariance, PTL

\* The service thread holds no pointer to a client that was destroyed.
THEOREM ReleaseSafe == Spec => []ReleasedUntouched
<1>1. IInv => ReleasedUntouched
  BY DEF IInv
<1> QED BY <1>1, Invariance, PTL

-----------------------------------------------------------------------------
\* Only the loop over pend[] and the timer's callback begin to dial: the first
\* dials a client it took, the second checks stopping.
LEMMA DialStep == IInv /\ [Next]_vars => [NoRedial]_vars
<1> SUFFICES ASSUME IInv, Next PROVE NoRedial
  BY DEF NoRedial
<1>1. CASE cur' = cur /\ mode' = mode
  BY <1>1 DEF NoRedial
<1>2. CASE cur' = Nil \/ mode' = "event"
  BY <1>2 DEF NoRedial
<1>3. ASSUME NEW c \in Clients, ConnectNext(c) PROVE NoRedial
  BY <1>3 DEF ConnectNext, EnterConnect, NoRedial
<1>4. ASSUME NEW c \in Clients, SulFires(c) PROVE NoRedial
  BY <1>4, <1>1 DEF SulFires, EnterConnect, FiresFor, NoRedial
<1>5. ASSUME NEW t \in Threads, AppStep(t) PROVE cur' = cur /\ mode' = mode
  BY <1>5 DEF AppStep, AddStep, StopStep, Add, AddWake, Discard, Stop, StopSul,
     StopLook, StopWait, StopFlush
<1>6. CASE MainStep
  <2>1. cur' = cur /\ mode' = mode
    BY <1>6 DEF MainStep, StartStep, DestroyStep, StartContext, StartThread,
       StartFails, StartLook, StartWake, DestroyBegin, DestroyStop, DestroyQuit,
       DestroyWake, DestroyJoin, DestroyContext, DestroyClient, DestroyPending,
       DestroyEnd
  <2> QED BY <2>1, <1>1
<1>7. CASE ServiceStep
  <2>1. CASE \/ SvcLoop \/ SvcReturn \/ WaitCancelled \/ TakePending
             \/ Snapshot \/ ScanEnd \/ \E c \in Clients : ScanNext(c)
    BY <2>1, <1>1 DEF SvcLoop, SvcReturn, WaitCancelled, TakePending, Snapshot,
       ScanEnd, ScanNext
  <2>2. CASE ConnectStep
    BY <2>2, <1>1, <1>2 DEF ConnectStep, ConnectNull, NullRetries, ConnectOpens,
       ConnectFails, LoseConnection, LeaveConnect
  <2>3. CASE \E w \in Wsis : Established(w) \/ ConnectionError(w) \/ Closed(w)
    BY <2>3, <1>1, <1>2 DEF Established, ConnectionError, Closed
  <2>4. CASE ScheduleCheck \/ ScheduleArm \/ WsiDestroy
    BY <2>4, <1>1, <1>2 DEF ScheduleCheck, ScheduleArm, WsiDestroy,
       LeaveSchedule, LeaveConnect, ResumesConnect
  <2> QED BY <1>3, <1>4, <1>7, <2>1, <2>2, <2>3, <2>4
             DEF ServiceStep, CancelledStep, EventStep
<1>8. CASE Finished
  BY <1>8, <1>1 DEF Finished
<1> QED BY <1>1, <1>5, <1>6, <1>7, <1>8 DEF Next

\* No timer, armed before or after, makes the service thread dial a client that
\* is being stopped and was not about to be dialled.
THEOREM StoppedStaysUndialled == Spec => StoppedNotRedialled
<1>1. IInv /\ [Next]_vars => [NoRedial]_vars
  BY DialStep
<1> QED BY <1>1, Invariance, PTL DEF Spec, StoppedNotRedialled
-----------------------------------------------------------------------------
\* The second layer.

\* c->wsi is set and cleared exactly where a connection comes and goes.
LEMMA WsiStep ==
  ASSUME IInv, WsiExact, Next
  PROVE  WsiExact'
<1> USE DEF IInv, TypeOK, WsiExact
<1>1. CASE UNCHANGED <<wsi, owner, curw>>
  BY <1>1
<1>2. ASSUME NEW w \in Wsis, ConnectOpens(w) PROVE WsiExact'
  BY <1>2 DEF ConnectOpens, FreeWsis, HandsOK
<1>3. CASE ConnectNull
  BY <1>3 DEF ConnectNull, HandsOK
<1>4. ASSUME NEW w \in Wsis, ConnectFails(w) PROVE WsiExact'
  BY <1>4 DEF ConnectFails, LoseConnection, FreeWsis, HandsOK
<1>5. ASSUME NEW w \in Wsis, ConnectionError(w) \/ Closed(w) PROVE WsiExact'
  BY <1>5 DEF ConnectionError, Closed, LoseConnection, HandsOK, OneConnection
<1>6. CASE WsiDestroy
  BY <1>6 DEF WsiDestroy, HandsOK
<1>7. CASE DestroyContext
  BY <1>7 DEF DestroyContext, WsiDestroyed
<1>8. ASSUME NEW t \in Threads, AppStep(t) PROVE UNCHANGED <<wsi, owner, curw>>
  BY <1>8 DEF AppStep, AddStep, StopStep, Add, AddWake, Discard, Stop, StopSul,
     StopLook, StopWait, StopFlush
<1>9. ASSUME MainStep, ~DestroyContext PROVE UNCHANGED <<wsi, owner, curw>>
  BY <1>9 DEF MainStep, StartStep, DestroyStep, StartContext, StartThread,
     StartFails, StartLook, StartWake, DestroyBegin, DestroyStop, DestroyQuit,
     DestroyWake, DestroyJoin, DestroyClient, DestroyPending, DestroyEnd
<1>10. ASSUME \/ SvcLoop \/ SvcReturn \/ CancelledStep \/ ScheduleCheck
              \/ ScheduleArm
       PROVE  UNCHANGED <<wsi, owner, curw>>
  BY <1>10 DEF SvcLoop, SvcReturn, CancelledStep, WaitCancelled, TakePending,
     Snapshot, ScanEnd, ConnectNext, ScanNext, ScheduleCheck, ScheduleArm
<1>11. ASSUME \/ \E c \in Clients : SulFires(c)
              \/ \E w \in Wsis : Established(w)
       PROVE  UNCHANGED <<wsi, owner, curw>>
  BY <1>11 DEF SulFires, Established
<1> QED BY <1>1, <1>2, <1>3, <1>4, <1>5, <1>6, <1>7, <1>8, <1>9, <1>10, <1>11
           DEF Next, ServiceStep, ConnectStep, EventStep, Finished

\* Only wsp_pool_start makes a context, and only it and wsp_pool_destroy end one.
LEMMA CtxStep ==
  ASSUME IInv, CtxOK, Next
  PROVE  CtxOK'
<1> USE DEF IInv, TypeOK, CtxOK
<1>1. CASE UNCHANGED <<ctx, mpc>>
  BY <1>1
<1>2. ASSUME NEW t \in Threads, AppStep(t) PROVE UNCHANGED <<ctx, mpc>>
  BY <1>2 DEF AppStep, AddStep, StopStep, Add, AddWake, Discard, Stop, StopSul,
     StopLook, StopWait, StopFlush
<1>3. CASE MainStep
  BY <1>3 DEF MainStep, StartStep, DestroyStep, StartContext, StartThread,
     StartFails, StartLook, StartWake, DestroyBegin, DestroyStop, DestroyQuit,
     DestroyWake, DestroyJoin, DestroyContext, DestroyClient, DestroyPending,
     DestroyEnd
<1>4. CASE ServiceStep
  <2>1. UNCHANGED <<ctx, mpc>>
    BY <1>4 DEF ServiceStep, SvcLoop, SvcReturn, CancelledStep, WaitCancelled,
       TakePending, Snapshot, ScanEnd, ConnectNext, ScanNext, ConnectStep,
       ConnectNull, ConnectOpens, ConnectFails, EventStep, SulFires,
       Established, ConnectionError, Closed, ScheduleCheck, ScheduleArm,
       WsiDestroy
  <2> QED BY <2>1, <1>1
<1> QED BY <1>1, <1>2, <1>3, <1>4 DEF Next, Finished

\* Both layers together are inductive.
LEMMA LinkInvStep == IInv /\ LinkInv /\ [Next]_vars => LinkInv'
<1>1. CASE UNCHANGED vars
  BY <1>1 DEF LinkInv, WsiExact, CtxOK
<1>2. CASE Next
  BY <1>2, WsiStep, CtxStep DEF LinkInv
<1> QED BY <1>1, <1>2

\* The two layers hold in every reachable state of the pool.
THEOREM LinkInvariance == Spec => [](IInv /\ LinkInv)
<1>1. Init => LinkInv
  BY DEF Init, LinkInv, WsiExact, CtxOK
<1> QED BY <1>1, Invariance, LinkInvStep, PTL DEF Spec

\* What the pool knows of its connections is right: a client has at most one,
\* c->wsi names it from lws_client_connect_via_info to its last callbacks, and a
\* client without one has something else that will move it.
THEOREM ConnectionsKept == Spec => []ConnectionKept
<1>1. IInv /\ LinkInv => ConnectionKept
  BY DEF IInv, LinkInv, ConnectionKept
<1> QED BY <1>1, LinkInvariance, PTL

\* Neither wsp_pool_add nor wsp_client_stop loses its request for the service
\* thread, though requests coalesce and pool_start may be anywhere.
THEOREM RequestsNotLost == Spec => []RequestsKept
<1>1. IInv => RequestsKept
  BY DEF IInv, RequestsKept
<1> QED BY <1>1, Invariance, PTL

-----------------------------------------------------------------------------
(***************************************************************************)
(* The pool implements WsLink for each of its clients.  First what leaves  *)
(* the two derived variables alone, then one lemma per action that does    *)
(* not, and last the step as a whole.                                      *)
(***************************************************************************)
LinkStep(c) == [Link(c)!Next]_(Link(c)!linkage)

LEMMA LinkQuiet ==
  ASSUME NEW c \in Clients, UNCHANGED <<ctx, cancel>>,
         UpOf(c)' = UpOf(c), StopOf(c)' = StopOf(c)
  PROVE  LinkStep(c)
BY DEF LinkStep, Link!linkage

LEMMA SameUp ==
  ASSUME NEW c \in Clients, UNCHANGED <<owner, up, curw>>
  PROVE  UpOf(c)' = UpOf(c)
BY DEF UpOf

LEMMA SameStop ==
  ASSUME NEW c \in Clients, UNCHANGED <<stopping, apc, arg>>
  PROVE  StopOf(c)' = StopOf(c)
BY DEF StopOf, InCall

\* A stop is in progress for the client of the thread that makes it, and for no
\* other thread's.
LEMMA StopAt ==
  ASSUME IInv, NEW t \in Threads, Stops(t)
  PROVE  StopOf(arg[t]) = IF apc[t] \in {"stopSul", "stopLook"} THEN "begun"
                                                                ELSE "waiting"
<1>1. stopping[arg[t]]
  BY DEF IInv, StopOK
<1>2. \A u \in Threads : Stops(u) /\ arg[u] = arg[t] => u = t
  BY DEF IInv, StopOK
<1>3. CASE apc[t] \in {"stopSul", "stopLook"}
  BY <1>1, <1>3 DEF StopOf, InCall
<1>4. CASE apc[t] \notin {"stopSul", "stopLook"}
  <2>1. apc[t] \in {"stopWait", "stopFlush"}
    BY <1>4 DEF IInv, TypeOK
  <2> QED BY <1>1, <1>2, <1>4, <2>1 DEF StopOf, InCall
<1> QED BY <1>3, <1>4

\* A call that moves only itself leaves the stops of other clients where they are.
LEMMA OtherStop ==
  ASSUME IInv, NEW t \in Threads, NEW c \in Clients, NEW pc \in AppPcs,
         apc' = [apc EXCEPT ![t] = pc], UNCHANGED <<stopping, arg>>,
         Stops(t) => arg[t] # c, pc \in {"idle", "addWake"} \/ arg[t] # c
  PROVE  StopOf(c)' = StopOf(c)
<1>1. \A u \in Threads : u # t => apc'[u] = apc[u]
  BY DEF IInv, TypeOK
<1>2. apc'[t] = pc
  BY DEF IInv, TypeOK
<1>3. InCall(c, {"stopSul", "stopLook"})' <=> InCall(c, {"stopSul", "stopLook"})
  BY <1>1, <1>2 DEF InCall
<1>4. InCall(c, {"stopWait", "stopFlush"})' <=> InCall(c, {"stopWait", "stopFlush"})
  BY <1>1, <1>2 DEF InCall
<1> QED BY <1>3, <1>4 DEF StopOf

\* The only thread that is in a stop of its client leaves it with the next state of it.
LEMMA OwnStop ==
  ASSUME IInv, NEW t \in Threads, Stops(t), NEW pc \in AppPcs,
         apc' = [apc EXCEPT ![t] = pc], UNCHANGED <<stopping, arg>>
  PROVE  StopOf(arg[t])' = IF pc \in {"stopSul", "stopLook"} THEN "begun"
                           ELSE IF pc \in {"stopWait", "stopFlush"} THEN "waiting"
                           ELSE "done"
<1>1. stopping'[arg[t]] /\ arg'[t] = arg[t] /\ apc'[t] = pc
  BY DEF IInv, TypeOK, StopOK
<1>2. \A u \in Threads : u # t =>
        /\ apc'[u] = apc[u] /\ arg'[u] = arg[u]
        /\ ~(Stops(u) /\ arg[u] = arg[t])
  BY DEF IInv, TypeOK, StopOK
<1>3. InCall(arg[t], {"stopSul", "stopLook"})' <=> pc \in {"stopSul", "stopLook"}
  BY <1>1, <1>2 DEF InCall
<1>4. InCall(arg[t], {"stopWait", "stopFlush"})' <=> pc \in {"stopWait", "stopFlush"}
  BY <1>1, <1>2 DEF InCall
<1> QED BY <1>1, <1>3, <1>4 DEF StopOf

\* The first call of wsp_client_stop, from the application or the destroyer.
LEMMA BeginLink ==
  ASSUME IInv, NEW t \in Threads, apc[t] = "idle", NEW d \in Clients,
         BeginStop(t, d), UNCHANGED <<ctx, cancel, owner, up, curw>>,
         NEW c \in Clients
  PROVE  LinkStep(c)
<1>1. UpOf(c)' = UpOf(c)
  BY SameUp
<1>2. CASE stopping[d] \/ stopped[d]
  BY <1>1, <1>2, SameStop, LinkQuiet DEF BeginStop
<1>3. CASE ~(stopping[d] \/ stopped[d])
  <2>1. /\ stopping' = [stopping EXCEPT ![d] = TRUE]
        /\ apc' = [apc EXCEPT ![t] = "stopSul"]
        /\ arg' = [arg EXCEPT ![t] = d]
    BY <1>3 DEF BeginStop
  <2>2. \A u \in Threads : u # t => apc'[u] = apc[u] /\ arg'[u] = arg[u]
    BY <2>1 DEF IInv, TypeOK
  <2>3. apc'[t] = "stopSul" /\ arg'[t] = d
    BY <2>1 DEF IInv, TypeOK
  <2>4. CASE c = d
    <3>1. StopOf(c) = "no"
      BY <2>4, <1>3 DEF StopOf
    <3>2. stopping'[c]
      BY <2>1, <2>4 DEF IInv, TypeOK
    <3>3. StopOf(c)' = "begun"
      BY <3>2, <2>3, <2>4 DEF StopOf, InCall
    <3> QED BY <1>1, <3>1, <3>3 DEF LinkStep, Link!Next, Link!StopBegins
  <2>5. CASE c # d
    <3>1. stopping'[c] = stopping[c]
      BY <2>1, <2>5 DEF IInv, TypeOK
    <3>2. InCall(c, {"stopSul", "stopLook"})' <=> InCall(c, {"stopSul", "stopLook"})
      BY <2>2, <2>3, <2>5 DEF InCall
    <3>3. InCall(c, {"stopWait", "stopFlush"})' <=> InCall(c, {"stopWait", "stopFlush"})
      BY <2>2, <2>3, <2>5 DEF InCall
    <3> QED BY <1>1, <3>1, <3>2, <3>3, LinkQuiet DEF StopOf
  <2> QED BY <2>4, <2>5
<1> QED BY <1>2, <1>3

\* The look at c->wsi: with a connection that is up the request is made.
LEMMA StopLookLink ==
  ASSUME IInv, LinkInv, NEW t \in Threads, StopLook(t), NEW c \in Clients
  PROVE  LinkStep(c)
<1>1. UpOf(c)' = UpOf(c)
  BY SameUp DEF StopLook
<1>2. PICK pc \in {"stopWait", "stopFlush"} : apc' = [apc EXCEPT ![t] = pc]
  BY DEF StopLook
<1>3. Stops(t) /\ pc \in AppPcs /\ UNCHANGED <<stopping, arg, ctx>>
  BY DEF StopLook
<1>4. CASE c = arg[t]
  <2>1. StopOf(c) = "begun"
    BY <1>3, <1>4, StopAt DEF StopLook
  <2>2. StopOf(c)' = "waiting"
    BY <1>2, <1>3, <1>4, OwnStop
  <2>3. UpOf(c) => wsi[c] # Nil /\ c \in clients /\ ctx
    BY <1>3, <1>4 DEF UpOf, LinkInv, WsiExact, IInv, TypeOK, StopOK, MainOK
  <2>4. cancel' \in {cancel, TRUE} /\ (UpOf(c) => cancel')
    BY <2>3, <1>4 DEF StopLook, StopWakes
  <2> QED BY <1>1, <1>3, <2>1, <2>2, <2>4 DEF LinkStep, Link!Next, Link!StopLooks
<1>5. CASE c # arg[t]
  <2>1. StopOf(c)' = StopOf(c)
    BY <1>2, <1>3, <1>5, OtherStop
  <2>2. cancel' = cancel \/ (cancel' = TRUE /\ ctx)
    BY DEF StopLook, StopWakes
  <2>3. CASE cancel' = cancel
    BY <1>1, <1>3, <2>1, <2>3, LinkQuiet
  <2>4. CASE cancel' = TRUE /\ ctx
    BY <1>1, <1>3, <2>1, <2>4 DEF LinkStep, Link!Next, Link!Wake
  <2> QED BY <2>2, <2>3, <2>4
<1> QED BY <1>4, <1>5

\* The rest of the call: the return is the end of the stop.
LEMMA StopRestLink ==
  ASSUME IInv, NEW t \in Threads, StopSul(t) \/ StopWait(t) \/ StopFlush(t),
         NEW c \in Clients
  PROVE  LinkStep(c)
<1>1. UpOf(c)' = UpOf(c)
  BY SameUp DEF StopSul, StopWait, StopFlush
<1>2. Stops(t) /\ UNCHANGED <<stopping, arg, ctx, cancel>>
  BY DEF StopSul, StopWait, StopFlush
<1>3. ASSUME c # arg[t], NEW pc \in AppPcs, apc' = [apc EXCEPT ![t] = pc]
      PROVE  LinkStep(c)
  BY <1>1, <1>2, <1>3, OtherStop, LinkQuiet
<1>4. CASE StopSul(t)
  <2>1. apc' = [apc EXCEPT ![t] = "stopLook"] /\ apc[t] = "stopSul"
    BY <1>4 DEF StopSul
  <2>2. c = arg[t] => StopOf(c)' = StopOf(c)
    BY <2>1, <1>2, StopAt, OwnStop
  <2> QED BY <1>1, <1>2, <1>3, <2>1, <2>2, LinkQuiet
<1>5. CASE StopWait(t)
  <2>1. apc' = [apc EXCEPT ![t] = "stopFlush"] /\ apc[t] = "stopWait"
    BY <1>5 DEF StopWait
  <2>2. c = arg[t] => StopOf(c)' = StopOf(c)
    BY <2>1, <1>2, StopAt, OwnStop
  <2> QED BY <1>1, <1>2, <1>3, <2>1, <2>2, LinkQuiet
<1>6. CASE StopFlush(t)
  <2>1. apc' = [apc EXCEPT ![t] = "idle"] /\ apc[t] = "stopFlush"
    BY <1>6 DEF StopFlush
  <2>2. CASE c = arg[t]
    <3>1. StopOf(c) = "waiting" /\ StopOf(c)' = "done"
      BY <2>1, <2>2, <1>2, StopAt, OwnStop
    <3> QED BY <1>1, <1>2, <3>1 DEF LinkStep, Link!Next, Link!StopReturns
  <2> QED BY <2>1, <2>2, <1>3
<1> QED BY <1>4, <1>5, <1>6

\* Calls of the application other than a stop.
LEMMA AddLink ==
  ASSUME IInv, NEW t \in Threads, NEW c \in Clients,
         \/ \E d \in Clients : Add(t, d) \/ Discard(t, d)
         \/ AddWake(t)
  PROVE  LinkStep(c)
<1>1. UpOf(c)' = UpOf(c)
  BY SameUp DEF Add, Discard, AddWake
<1>2. StopOf(c)' = StopOf(c)
  <2>1. CASE \E d \in Clients : Discard(t, d)
    BY <2>1, SameStop DEF Discard
  <2>2. \/ ~Stops(t) /\ UNCHANGED <<stopping, arg>>
        \/ \E d \in Clients : Discard(t, d)
    BY DEF Add, MayCall, AddWake
  <2>3. \/ \E pc \in {"idle", "addWake"} : apc' = [apc EXCEPT ![t] = pc]
        \/ \E d \in Clients : Discard(t, d)
    BY DEF Add, AddWake
  <2> QED BY <2>1, <2>2, <2>3, OtherStop
<1>3. CASE AddWake(t)
  BY <1>1, <1>2, <1>3 DEF AddWake, LinkStep, Link!Next, Link!Wake
<1>4. CASE \E d \in Clients : Add(t, d) \/ Discard(t, d)
  BY <1>1, <1>2, <1>4, LinkQuiet DEF Add, Discard
<1> QED BY <1>3, <1>4

\* wsp_pool_start: the context comes, and goes again if there is no thread.
LEMMA StartLink ==
  ASSUME IInv, LinkInv, StartStep, NEW c \in Clients
  PROVE  LinkStep(c)
<1>1. UpOf(c)' = UpOf(c)
  BY SameUp DEF StartStep, StartContext, StartThread, StartFails, StartLook, StartWake
<1>2. StopOf(c)' = StopOf(c)
  BY SameStop DEF StartStep, StartContext, StartThread, StartFails, StartLook, StartWake
<1>3. CASE StartContext
  BY <1>1, <1>2, <1>3 DEF StartContext, LinkInv, CtxOK, LinkStep, Link!Next, Link!Open
<1>4. CASE StartThread \/ StartLook
  BY <1>1, <1>2, <1>4, LinkQuiet DEF StartThread, StartLook
<1>5. CASE StartFails
  <2>1. ctx
    BY <1>5 DEF StartFails, IInv, MainOK
  <2>2. UpOf(c) = FALSE
    BY <1>5 DEF StartFails, UpOf, IInv, TypeOK, MainOK
  <2> QED BY <1>1, <1>2, <1>5, <2>1, <2>2 DEF StartFails, LinkStep, Link!Next, Link!Close
<1>6. CASE StartWake
  BY <1>1, <1>2, <1>6 DEF StartWake, LinkInv, CtxOK, LinkStep, Link!Next, Link!Wake
<1> QED BY <1>3, <1>4, <1>5, <1>6 DEF StartStep

\* lws_context_destroy takes the connections along; whoever has one was stopped.
LEMMA DestroyContextLink ==
  ASSUME IInv, DestroyContext, NEW c \in Clients
  PROVE  LinkStep(c)
<1>1. StopOf(c)' = StopOf(c)
  BY SameStop DEF DestroyContext
<1>2. CASE ctx
  <2>1. up' = {} /\ ctx' = FALSE /\ cancel' = FALSE
    BY <1>2 DEF DestroyContext
  <2>2. UpOf(c)' = FALSE
    BY <2>1 DEF UpOf
  <2>3. \A t \in Threads : apc[t] = "idle"
    BY DEF DestroyContext, IInv, StopOK
  <2>4. UpOf(c) => stopping[c]
    BY DEF DestroyContext, UpOf, IInv, TypeOK, DriversOK, StopOK
  <2>5. UpOf(c) => StopOf(c) = "done"
    BY <2>3, <2>4 DEF StopOf, InCall
  <2> QED BY <1>1, <1>2, <2>1, <2>2, <2>5 DEF LinkStep, Link!Next, Link!Close
<1>3. CASE ~ctx
  <2>1. UNCHANGED <<ctx, cancel, owner, up, curw>>
    BY <1>3 DEF DestroyContext, IInv, TypeOK
  <2> QED BY <1>1, <2>1, SameUp, LinkQuiet
<1> QED BY <1>2, <1>3

\* wsp_pool_destroy.
LEMMA DestroyLink ==
  ASSUME IInv, DestroyBegin \/ DestroyStep, NEW c \in Clients
  PROVE  LinkStep(c)
<1>1. ASSUME NEW d \in Clients, DestroyStop(d) PROVE LinkStep(c)
  BY <1>1, BeginLink DEF DestroyStop
<1>2. CASE DestroyWake
  <2>1. UpOf(c)' = UpOf(c) /\ StopOf(c)' = StopOf(c)
    BY <1>2, SameUp, SameStop DEF DestroyWake
  <2> QED BY <1>2, <2>1 DEF DestroyWake, LinkStep, Link!Next, Link!Wake
<1>3. CASE DestroyContext
  BY <1>3, DestroyContextLink
<1>4. CASE \/ DestroyBegin \/ DestroyQuit \/ DestroyJoin \/ DestroyPending
           \/ DestroyEnd \/ \E d \in Clients : DestroyClient(d)
  <2>1. UNCHANGED <<ctx, cancel, owner, up, curw, stopping, apc, arg>>
    BY <1>4 DEF DestroyBegin, DestroyQuit, DestroyJoin, DestroyPending,
       DestroyEnd, DestroyClient
  <2> QED BY <2>1, SameUp, SameStop, LinkQuiet
<1> QED BY <1>1, <1>2, <1>3, <1>4 DEF DestroyStep

\* The handshake is done: the connection is the client's only one.
LEMMA EstablishedLink ==
  ASSUME IInv, NEW w \in Wsis, Established(w), NEW c \in Clients
  PROVE  LinkStep(c)
<1>1. StopOf(c)' = StopOf(c)
  BY SameStop DEF Established
<1>2. curw = Nil /\ ctx /\ UNCHANGED <<ctx, cancel, owner, curw>>
  BY DEF Established, IInv, HandsOK, MainOK
<1>3. up' = up \cup {w} /\ w \notin up /\ owner[w] # Nil
  BY DEF Established
<1>4. CASE c = owner[w]
  <2>1. ~UpOf(c)
    BY <1>3, <1>4 DEF UpOf, IInv, TypeOK, OneConnection
  <2>2. UpOf(c)' = TRUE
    BY <1>2, <1>3, <1>4 DEF UpOf
  <2> QED BY <1>1, <1>2, <2>1, <2>2 DEF LinkStep, Link!Next, Link!Up
<1>5. CASE c # owner[w]
  <2>1. UpOf(c)' = UpOf(c)
    BY <1>2, <1>3, <1>5 DEF UpOf
  <2> QED BY <1>1, <1>2, <2>1, LinkQuiet
<1> QED BY <1>4, <1>5

\* CLOSED: the client has no other connection.
LEMMA ClosedLink ==
  ASSUME IInv, NEW w \in Wsis, Closed(w), NEW c \in Clients
  PROVE  LinkStep(c)
<1>1. StopOf(c)' = StopOf(c)
  BY SameStop DEF Closed
<1>2. curw = Nil /\ w \in up /\ owner[w] # Nil
  BY DEF Closed, IInv, HandsOK
<1>3. curw' = w /\ UNCHANGED <<ctx, cancel, owner, up>>
  BY DEF Closed, LoseConnection
<1>4. CASE c = owner[w]
  <2>1. UpOf(c) = TRUE
    BY <1>2, <1>4 DEF UpOf
  <2>2. UpOf(c)' = FALSE
    BY <1>2, <1>3, <1>4 DEF UpOf, IInv, TypeOK, OneConnection
  <2> QED BY <1>1, <1>3, <2>1, <2>2 DEF LinkStep, Link!Next, Link!Down
<1>5. CASE c # owner[w]
  <2>1. up \subseteq Wsis
    BY DEF IInv, TypeOK
  <2>2. \A v \in up : owner[v] = c => v # w /\ v # curw
    BY <2>1, <1>2, <1>5
  <2>3. UpOf(c)' = UpOf(c)
    BY <2>2, <1>3 DEF UpOf
  <2> QED BY <1>1, <1>3, <2>3, LinkQuiet
<1> QED BY <1>4, <1>5

\* A connection that never was up comes or goes, and a dying one is forgotten.
LEMMA ConnectLink ==
  ASSUME IInv, NEW c \in Clients,
         \/ ConnectStep \/ WsiDestroy
         \/ \E w \in Wsis : ConnectionError(w)
  PROVE  LinkStep(c)
<1>1. StopOf(c)' = StopOf(c)
  BY SameStop DEF ConnectStep, ConnectNull, ConnectOpens, ConnectFails,
     WsiDestroy, ConnectionError
<1>2. UNCHANGED <<ctx, cancel>>
  BY DEF ConnectStep, ConnectNull, ConnectOpens, ConnectFails, WsiDestroy,
     ConnectionError
<1>3. UpOf(c)' = UpOf(c)
  <2> USE DEF IInv, TypeOK, HandsOK, UpOf
  <2>1. CASE ConnectNull
    BY <2>1 DEF ConnectNull
  <2>2. ASSUME NEW w \in Wsis, ConnectOpens(w) PROVE UpOf(c)' = UpOf(c)
    BY <2>2 DEF ConnectOpens, FreeWsis
  <2>3. ASSUME NEW w \in Wsis, ConnectFails(w) PROVE UpOf(c)' = UpOf(c)
    BY <2>3 DEF ConnectFails, LoseConnection, FreeWsis
  <2>4. ASSUME NEW w \in Wsis, ConnectionError(w) PROVE UpOf(c)' = UpOf(c)
    BY <2>4 DEF ConnectionError, LoseConnection
  <2>5. CASE WsiDestroy
    <3>1. curw \in Wsis /\ c # Nil
      BY <2>5 DEF WsiDestroy
    <3>2. /\ owner' = [owner EXCEPT ![curw] = Nil]
          /\ up' = up \ {curw} /\ curw' = Nil
      BY <2>5 DEF WsiDestroy
    <3>3. \A w \in Wsis : w # curw => owner'[w] = owner[w] /\ (w \in up' <=> w \in up)
      BY <3>1, <3>2
    <3>4. curw \notin up' /\ up' \subseteq Wsis
      BY <3>1, <3>2
    <3> QED BY <3>1, <3>2, <3>3, <3>4
  <2> QED BY <2>1, <2>2, <2>3, <2>4, <2>5 DEF ConnectStep
<1> QED BY <1>1, <1>2, <1>3, LinkQuiet

\* The rest of the service thread: WAIT_CANCELLED takes the request, the timers and
\* the loops move nothing that the send path sees.
LEMMA ServiceLink ==
  ASSUME IInv, ServiceStep, NEW c \in Clients
  PROVE  LinkStep(c)
<1>1. CASE \/ SvcLoop \/ SvcReturn \/ TakePending \/ Snapshot \/ ScanEnd
           \/ ScheduleCheck \/ ScheduleArm
           \/ \E d \in Clients : ConnectNext(d) \/ ScanNext(d) \/ SulFires(d)
  <2>1. UNCHANGED <<ctx, cancel, owner, up, curw, stopping, apc, arg>>
    BY <1>1 DEF SvcLoop, SvcReturn, TakePending, Snapshot, ScanEnd,
       ScheduleCheck, ScheduleArm, ConnectNext, ScanNext, SulFires
  <2> QED BY <2>1, SameUp, SameStop, LinkQuiet
<1>2. CASE WaitCancelled
  <2>1. UpOf(c)' = UpOf(c) /\ StopOf(c)' = StopOf(c)
    BY <1>2, SameUp, SameStop DEF WaitCancelled
  <2> QED BY <1>2, <2>1 DEF WaitCancelled, LinkStep, Link!Next, Link!Serve
<1> QED BY <1>1, <1>2, EstablishedLink, ClosedLink, ConnectLink
           DEF ServiceStep, CancelledStep, EventStep

\* Every step of the pool is one of WsLink, or none, for each client.
LEMMA LinkNext ==
  ASSUME IInv, LinkInv, [Next]_vars, NEW c \in Clients
  PROVE  LinkStep(c)
<1>1. ASSUME NEW t \in Threads, AppStep(t) PROVE LinkStep(c)
  <2>1. ASSUME NEW d \in Clients, Stop(t, d) PROVE LinkStep(c)
    BY <2>1, BeginLink DEF Stop, MayCall
  <2> QED BY <1>1, <2>1, AddLink, StopLookLink, StopRestLink
             DEF AppStep, AddStep, StopStep
<1>2. CASE MainStep
  BY <1>2, StartLink, DestroyLink DEF MainStep
<1>3. CASE ServiceStep
  BY <1>3, ServiceLink
<1>4. CASE UNCHANGED vars
  <2>1. UpOf(c)' = UpOf(c) /\ StopOf(c)' = StopOf(c) /\ UNCHANGED <<ctx, cancel>>
    BY <1>4, SameUp, SameStop
  <2> QED BY <2>1, LinkQuiet
<1> QED BY <1>1, <1>2, <1>3, <1>4 DEF Next, Finished

LEMMA LinkInit ==
  ASSUME Init, NEW c \in Clients
  PROVE  Link(c)!Init
BY DEF Init, Link!Init, UpOf, StopOf

\* The pool implements, for one client, the interface its send path is built on:
\* what WsSendPath assumes of its surroundings is what WsPool does.
THEOREM LinkOfClient ==
  ASSUME NEW c \in Clients
  PROVE  Spec => Link(c)!Spec
<1>1. Init => Link(c)!Init
  BY LinkInit
<1>2. IInv /\ LinkInv /\ [Next]_vars => [Link(c)!Next]_(Link(c)!linkage)
  BY LinkNext DEF LinkStep
<1> QED BY <1>1, <1>2, LinkInvariance, PTL DEF Spec, Link!Spec

\* The same for all clients at once, in the form the run checks.
THEOREM LinksKept == Spec => LinkSpec
<1>1. Init => \A c \in Clients : Link(c)!Init
  BY LinkInit
<1>2. IInv /\ LinkInv /\ [Next]_vars =>
        [\A c \in Clients : [Link(c)!Next]_(Link(c)!linkage)]_vars
  BY LinkNext DEF LinkStep
<1> QED BY <1>1, <1>2, LinkInvariance, PTL DEF Spec, LinkSpec
=============================================================================
