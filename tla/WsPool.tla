------------------------------- MODULE WsPool -------------------------------
(***************************************************************************)
(* The connection pool of src/ws_pool.c: its life cycle, and the connect,  *)
(* reconnect and stop protocol between the application's threads and the   *)
(* one service thread.                                                     *)
(*                                                                         *)
(* A step is what a thread does in one critical section (pool_lock or      *)
(* stop_mu), or one access to a field it reads without the lock, unless no *)
(* other thread can write that field.  A lock is never held across two     *)
(* steps: the wait of wsp_client_stop releases stop_mu.  libwebsockets is  *)
(* external: a context, the flag behind lws_cancel_service (requests       *)
(* coalesce), one sorted timer per client, and the connections (wsi) it    *)
(* owns, which may fail or close at any time.                              *)
(*                                                                         *)
(* The send queue and the back-off delays do not influence this protocol   *)
(* and are left out; so is what the application's hooks do, except for the *)
(* answer of on_reconnect_decision.                                        *)
(***************************************************************************)
EXTENDS Naturals, FiniteSets

CONSTANTS
  Clients,      \* the wsp_client_t objects the application creates
  Threads,      \* the application's threads
  Main,         \* the thread that starts and destroys the pool
  Wsis,         \* the addresses lws hands out for connections
  MaxClients,   \* WSP_MAX_CLIENTS
  Hooked,       \* clients whose on_reconnect_decision may answer "stop"
  Nil           \* the NULL pointer

ASSUME MainAssumption == Main \in Threads
ASSUME NilAssumption  == Nil \notin Clients \cup Wsis
ASSUME SizeAssumption == IsFiniteSet(Clients) /\ MaxClients \in Nat

VARIABLES
  \* wsp_pool_t
  ctx,          \* pool->ctx is not NULL
  clients,      \* pool->clients[]; c->pool is set exactly for these
  pending,      \* pool->pending[]
  destroying,   \* pool->destroying
  \* wsp_client_t
  state,        \* c->state
  wsi,          \* c->wsi
  stopping,     \* c->stopping
  stopped,      \* c->stopped
  sul,          \* c->sul is scheduled
  released,     \* how often wsp_client_destroy(c) ran
  \* libwebsockets
  owner,        \* lws_wsi_user of a live wsi, Nil for a free address
  up,           \* the wsi whose handshake is done
  asked,        \* the wsi lws_close_reason was called on
  cancel,       \* lws_cancel_service was called and not yet reported
  \* application threads
  apc, arg,     \* where a thread is in its call, and the client of the call
  mpc, todo,    \* where Main is in pool_start/pool_destroy; its loop's rest
  \* the service thread
  spc,          \* where it is
  mode,         \* the lws callback it is in: an event, sul or WAIT_CANCELLED
  cur, curw,    \* the client it handles; the wsi that is going away
  batch,        \* pend[]: taken from pending, not yet connected
  scan          \* snap[]: not yet visited by the second loop

poolVars   == <<ctx, clients, pending, destroying>>
clientVars == <<state, wsi, stopping, stopped, sul, released>>
lwsVars    == <<owner, up, asked, cancel>>
appVars    == <<apc, arg>>
mainVars   == <<mpc, todo>>
svcVars    == <<spc, mode, cur, curw, batch, scan>>
vars == <<poolVars, clientVars, lwsVars, appVars, mainVars, svcVars>>

States    == {"idle", "connecting", "connected", "reconnect_wait", "stopped"}
AppPcs    == {"idle", "addWake", "stopSul", "stopLook", "stopWait", "stopFlush"}
DestroyPcs == {"stopping", "quit", "join", "teardown", "free", "freePending", "gone"}
MainPcs   == {"new", "context", "started", "waking", "running"} \cup DestroyPcs
SvcPcs    == {"off", "loop", "service", "take", "batch", "scan", "connect",
              "null", "sched", "arm", "wsiDestroy", "done"}

TypeOK ==
  /\ ctx \in BOOLEAN /\ destroying \in BOOLEAN /\ cancel \in BOOLEAN
  /\ clients \subseteq Clients /\ pending \subseteq Clients
  /\ state \in [Clients -> States]
  /\ wsi \in [Clients -> Wsis \cup {Nil}]
  /\ stopping \in [Clients -> BOOLEAN] /\ stopped \in [Clients -> BOOLEAN]
  /\ sul \in [Clients -> BOOLEAN]
  /\ released \in [Clients -> Nat]
  /\ owner \in [Wsis -> Clients \cup {Nil}]
  /\ up \subseteq Wsis /\ asked \subseteq Wsis
  /\ apc \in [Threads -> AppPcs]
  /\ arg \in [Threads -> Clients \cup {Nil}]
  /\ \A t \in Threads : apc[t] \notin {"idle", "addWake"} => arg[t] \in Clients
  /\ mpc \in MainPcs /\ todo \subseteq Clients
  /\ spc \in SvcPcs /\ mode \in {"event", "timer", "cancelled"}
  /\ cur \in Clients \cup {Nil} /\ curw \in Wsis \cup {Nil}
  /\ batch \subseteq Clients /\ scan \subseteq Clients
  /\ spc \in {"connect", "null", "sched", "arm", "wsiDestroy"} => cur \in Clients
  /\ spc = "wsiDestroy" => curw \in Wsis

\* The clients that own a live wsi, and the addresses lws may hand out next.
Live(c)  == \E w \in Wsis : owner[w] = c
FreeWsis == {w \in Wsis : owner[w] = Nil}

\* wsp_pool_create and wsp_client_create: nothing is registered.
Init ==
  /\ ctx = FALSE /\ destroying = FALSE /\ cancel = FALSE
  /\ clients = {} /\ pending = {}
  /\ state = [c \in Clients |-> "idle"]
  /\ wsi = [c \in Clients |-> Nil]
  /\ stopping = [c \in Clients |-> FALSE]
  /\ stopped = [c \in Clients |-> FALSE]
  /\ sul = [c \in Clients |-> FALSE]
  /\ released = [c \in Clients |-> 0]
  /\ owner = [w \in Wsis |-> Nil] /\ up = {} /\ asked = {}
  /\ apc = [t \in Threads |-> "idle"] /\ arg = [t \in Threads |-> Nil]
  /\ mpc = "new" /\ todo = {}
  /\ spc = "off" /\ mode = "event" /\ cur = Nil /\ curw = Nil
  /\ batch = {} /\ scan = {}

-----------------------------------------------------------------------------
(***************************************************************************)
(* Calls of the application.  A thread makes one call at a time.  It calls *)
(* nothing once wsp_pool_destroy has begun, and stops only clients that it *)
(* gave to the pool.  No two calls of wsp_pool_add for the same client     *)
(* overlap.                                                                *)
(***************************************************************************)
MayCall(t) ==
  /\ apc[t] = "idle"
  /\ mpc \notin DestroyPcs
  /\ t = Main => mpc \in {"new", "running"}

\* A client belongs to a pool for ever: c->pool is never reset.  wsp_pool_add reads it
\* before it takes pool_lock.  Only another wsp_pool_add of the same client could write it
\* in between, so test and registration are one step here; two that overlap would both
\* pass the test and register the client twice, which the application has to prevent.
AddAnyClient(c) == TRUE
NotPooled(c)    == c \notin clients

RoomInPool    == Cardinality(clients) + Cardinality(pending) < MaxClients

NeverReady   == FALSE
ContextReady == ctx

\* wsp_pool_add, to the release of pool_lock.
Add(t, c) ==
  /\ MayCall(t)
  /\ released[c] = 0
  /\ NotPooled(c)
  /\ RoomInPool
  /\ clients' = clients \cup {c}
  /\ pending' = pending \cup {c}
  /\ apc' = [apc EXCEPT ![t] = IF ContextReady THEN "addWake" ELSE "idle"]
  /\ UNCHANGED <<ctx, destroying, clientVars, lwsVars, arg, mainVars, svcVars>>

\* wsp_pool_add: lws_cancel_service, which ignores a NULL context.
AddWake(t) ==
  /\ apc[t] = "addWake"
  /\ cancel' = (cancel \/ ctx)
  /\ apc' = [apc EXCEPT ![t] = "idle"]
  /\ UNCHANGED <<poolVars, clientVars, owner, up, asked, arg, mainVars, svcVars>>

\* wsp_client_destroy of a client that never entered the pool.
Discard(t, c) ==
  /\ MayCall(t)
  /\ c \notin clients
  /\ released[c] = 0
  /\ released' = [released EXCEPT ![c] = 1]
  /\ UNCHANGED <<poolVars, state, wsi, stopping, stopped, sul, lwsVars,
                 appVars, mainVars, svcVars>>

\* wsp_client_stop, first critical section: only the first call goes on.
BeginStop(t, c) ==
  IF stopping[c] \/ stopped[c]
    THEN UNCHANGED <<stopping, appVars>>
    ELSE /\ stopping' = [stopping EXCEPT ![c] = TRUE]
         /\ apc' = [apc EXCEPT ![t] = "stopSul"]
         /\ arg' = [arg EXCEPT ![t] = c]

Stop(t, c) ==
  /\ MayCall(t)
  /\ c \in clients
  /\ released[c] = 0
  /\ BeginStop(t, c)
  /\ UNCHANGED <<poolVars, state, wsi, stopped, sul, released, lwsVars,
                 mainVars, svcVars>>

\* lws_sul_cancel, from the application's thread.
StopSul(t) ==
  /\ apc[t] = "stopSul"
  /\ sul' = IF arg[t] \in clients /\ ctx
              THEN [sul EXCEPT ![arg[t]] = FALSE] ELSE sul
  /\ apc' = [apc EXCEPT ![t] = "stopLook"]
  /\ UNCHANGED <<poolVars, state, wsi, stopping, stopped, released, lwsVars,
                 arg, mainVars, svcVars>>

\* Second critical section, to the wait on stop_cond: with a connection the
\* service thread is asked to close it, without one the stop is complete.
StopForgetsWake == cancel
StopWakes       == TRUE
StopLook(t) ==
  /\ apc[t] = "stopLook"
  /\ IF wsi[arg[t]] # Nil /\ arg[t] \in clients /\ ctx
       THEN /\ cancel' = StopWakes
            /\ apc' = [apc EXCEPT ![t] = "stopWait"]
            /\ UNCHANGED stopped
       ELSE /\ stopped' = [stopped EXCEPT ![arg[t]] = TRUE]
            /\ apc' = [apc EXCEPT ![t] = "stopFlush"]
            /\ UNCHANGED cancel
  /\ UNCHANGED <<poolVars, state, wsi, stopping, sul, released,
                 owner, up, asked, arg, mainVars, svcVars>>

\* The wait ends because stop_cond was signalled, or after WSP_STOP_TIMEOUT_SEC.
WaitsForSignal(t)  == stopped[arg[t]]
SignalOrTimeout(t) == TRUE
StopWait(t) ==
  /\ apc[t] = "stopWait"
  /\ SignalOrTimeout(t)
  /\ apc' = [apc EXCEPT ![t] = "stopFlush"]
  /\ UNCHANGED <<poolVars, clientVars, lwsVars, arg, mainVars, svcVars>>

\* The queue is emptied under q_lock and the call returns.
StopFlush(t) ==
  /\ apc[t] = "stopFlush"
  /\ apc' = [apc EXCEPT ![t] = "idle"]
  /\ UNCHANGED <<poolVars, clientVars, lwsVars, arg, mainVars, svcVars>>
-----------------------------------------------------------------------------
(***************************************************************************)
(* wsp_pool_start and wsp_pool_destroy, on Main.                           *)
(***************************************************************************)
StartContext ==
  /\ mpc = "new" /\ apc[Main] = "idle"
  /\ ctx' = TRUE
  /\ destroying' = FALSE
  /\ mpc' = "context"
  /\ UNCHANGED <<clients, pending, clientVars, lwsVars, appVars, todo, svcVars>>

StartThread ==
  /\ mpc = "context"
  /\ spc' = "loop"
  /\ mpc' = "started"
  /\ UNCHANGED <<poolVars, clientVars, lwsVars, appVars, todo,
                 mode, cur, curw, batch, scan>>

\* pthread_create failed: the context is destroyed and start may be retried.  Between
\* lws_context_destroy and the reset of pool->ctx a wsp_pool_add of another thread would
\* cancel on a context that is gone: undefined, and without a state here.
StartFails ==
  /\ mpc = "context"
  /\ ctx' = FALSE
  /\ cancel' = FALSE
  /\ mpc' = "new"
  /\ UNCHANGED <<clients, pending, destroying, clientVars, owner, up, asked,
                 appVars, todo, svcVars>>

\* n_pending is read under pool_lock, after pool->ctx was set.
StartLook ==
  /\ mpc = "started"
  /\ mpc' = IF pending # {} THEN "waking" ELSE "running"
  /\ UNCHANGED <<poolVars, clientVars, lwsVars, appVars, todo, svcVars>>

StartWake ==
  /\ mpc = "waking"
  /\ cancel' = TRUE
  /\ mpc' = "running"
  /\ UNCHANGED <<poolVars, clientVars, owner, up, asked, appVars, todo, svcVars>>

\* wsp_pool_destroy: the snapshot of clients[].  No call is in progress.
DestroyBegin ==
  /\ mpc \in {"new", "running"}
  /\ \A t \in Threads : apc[t] = "idle"
  /\ todo' = clients
  /\ mpc' = "stopping"
  /\ UNCHANGED <<poolVars, clientVars, lwsVars, appVars, svcVars>>

DestroyStop(c) ==
  /\ mpc = "stopping" /\ apc[Main] = "idle"
  /\ c \in todo
  /\ todo' = todo \ {c}
  /\ BeginStop(Main, c)
  /\ UNCHANGED <<poolVars, state, wsi, stopped, sul, released, lwsVars, mpc,
                 svcVars>>

ThreadStarted == spc # "off"
DestroyQuit ==
  /\ mpc = "stopping" /\ apc[Main] = "idle"
  /\ todo = {}
  /\ IF ThreadStarted THEN destroying' = TRUE /\ mpc' = "quit"
                      ELSE mpc' = "teardown" /\ UNCHANGED destroying
  /\ UNCHANGED <<ctx, clients, pending, clientVars, lwsVars, appVars, todo,
                 svcVars>>

DestroyWake ==
  /\ mpc = "quit"
  /\ cancel' = (cancel \/ ctx)
  /\ mpc' = "join"
  /\ UNCHANGED <<poolVars, clientVars, owner, up, asked, appVars, todo, svcVars>>

NoJoin       == TRUE
ThreadExited == spc = "done"
DestroyJoin ==
  /\ mpc = "join"
  /\ ThreadExited
  /\ mpc' = "teardown"
  /\ UNCHANGED <<poolVars, clientVars, lwsVars, appVars, todo, svcVars>>

\* lws_context_destroy: every wsi goes through WSI_DESTROY, some of them after
\* CLOSED; timers die with the context.
KeepsWsi(c)      == wsi[c]
WsiDestroyed(c)  == IF Live(c) THEN Nil ELSE wsi[c]
DestroyContext ==
  /\ mpc = "teardown"
  /\ IF ctx
       THEN /\ \E closed \in SUBSET {c \in Clients : Live(c)} :
                 state' = [c \in Clients |->
                             IF c \in closed THEN "idle" ELSE state[c]]
            /\ wsi' = [c \in Clients |-> WsiDestroyed(c)]
            /\ stopped' = [c \in Clients |->
                             stopped[c] \/ (Live(c) /\ stopping[c])]
            /\ sul' = [c \in Clients |-> FALSE]
            /\ owner' = [w \in Wsis |-> Nil]
            /\ up' = {} /\ asked' = {} /\ cancel' = FALSE
       ELSE UNCHANGED <<state, wsi, stopped, sul, lwsVars>>
  /\ ctx' = FALSE
  /\ todo' = clients
  /\ mpc' = "free"
  /\ UNCHANGED <<clients, pending, destroying, stopping, released, appVars,
                 svcVars>>

\* wsp_client_destroy of the clients of the snapshot, then of pending[].
DestroyClient(c) ==
  /\ mpc \in {"free", "freePending"}
  /\ c \in todo
  /\ todo' = todo \ {c}
  /\ released' = [released EXCEPT ![c] = @ + 1]
  /\ UNCHANGED <<poolVars, state, wsi, stopping, stopped, sul, lwsVars,
                 appVars, mpc, svcVars>>

DestroyPending ==
  /\ mpc = "free" /\ todo = {}
  /\ todo' = pending
  /\ mpc' = "freePending"
  /\ UNCHANGED <<poolVars, clientVars, lwsVars, appVars, svcVars>>

DestroyEnd ==
  /\ mpc = "freePending" /\ todo = {}
  /\ pending' = {}
  /\ mpc' = "gone"
  /\ UNCHANGED <<ctx, clients, destroying, clientVars, lwsVars, appVars, todo,
                 svcVars>>
-----------------------------------------------------------------------------
(***************************************************************************)
(* The service thread: service_thread, and the callbacks lws makes on it.  *)
(***************************************************************************)
RunsOn   == FALSE
LoopEnds == destroying
SvcLoop ==
  /\ spc = "loop"
  /\ spc' = IF LoopEnds THEN "done" ELSE "service"
  /\ UNCHANGED <<poolVars, clientVars, lwsVars, appVars, mainVars,
                 mode, cur, curw, batch, scan>>

\* lws_service returns, at the latest when its wait times out.
SvcReturn ==
  /\ spc = "service"
  /\ spc' = "loop"
  /\ UNCHANGED <<poolVars, clientVars, lwsVars, appVars, mainVars,
                 mode, cur, curw, batch, scan>>

\* EVENT_WAIT_CANCELLED: lws drains the request, then makes the callback.
WaitCancelled ==
  /\ spc = "service"
  /\ cancel
  /\ cancel' = FALSE
  /\ spc' = "take"
  /\ UNCHANGED <<poolVars, clientVars, owner, up, asked, appVars, mainVars,
                 mode, cur, curw, batch, scan>>

TakePending ==
  /\ spc = "take"
  /\ batch' = pending
  /\ pending' = {}
  /\ spc' = "batch"
  /\ UNCHANGED <<ctx, clients, destroying, clientVars, lwsVars, appVars,
                 mainVars, mode, cur, curw, scan>>

\* do_connect, up to the call of lws_client_connect_via_info.
EnterConnect(c, from) ==
  /\ cur' = c
  /\ mode' = from
  /\ state' = [state EXCEPT ![c] = "connecting"]
  /\ spc' = "connect"

ConnectNext(c) ==
  /\ spc = "batch"
  /\ c \in batch
  /\ batch' = batch \ {c}
  /\ EnterConnect(c, "cancelled")
  /\ UNCHANGED <<poolVars, wsi, stopping, stopped, sul, released, lwsVars,
                 appVars, mainVars, curw, scan>>

Snapshot ==
  /\ spc = "batch" /\ batch = {}
  /\ scan' = clients
  /\ spc' = "scan"
  /\ UNCHANGED <<poolVars, clientVars, lwsVars, appVars, mainVars,
                 mode, cur, curw, batch>>

\* The second loop of WAIT_CANCELLED: the closing of a stopped client is begun.
ScanNext(c) ==
  /\ spc = "scan"
  /\ c \in scan
  /\ scan' = scan \ {c}
  /\ asked' = IF stopping[c] /\ wsi[c] # Nil THEN asked \cup {wsi[c]} ELSE asked
  /\ UNCHANGED <<poolVars, clientVars, owner, up, cancel, appVars, mainVars,
                 spc, mode, cur, curw, batch>>

ScanEnd ==
  /\ spc = "scan" /\ scan = {}
  /\ spc' = "service"
  /\ UNCHANGED <<poolVars, clientVars, lwsVars, appVars, mainVars,
                 mode, cur, curw, batch, scan>>

\* sul_reconnect_cb: a client that is being stopped is not connected again.
FiresAnyway(c) == TRUE
FiresFor(c)    == ~stopping[c]
SulFires(c) ==
  /\ spc = "service"
  /\ sul[c]
  /\ sul' = [sul EXCEPT ![c] = FALSE]
  /\ IF FiresFor(c) THEN EnterConnect(c, "timer")
                    ELSE UNCHANGED <<cur, mode, state, spc>>
  /\ UNCHANGED <<poolVars, wsi, stopping, stopped, released, lwsVars, appVars,
                 mainVars, curw, batch, scan>>

\* do_connect returns to the loop over pend[] or to lws.
LeaveConnect ==
  /\ spc' = IF mode = "cancelled" THEN "batch" ELSE "service"
  /\ mode' = "event"
  /\ cur' = Nil

\* lws_client_connect_via_info returned a connection, stored without stop_mu.
ConnectOpens(w) ==
  /\ spc = "connect"
  /\ w \in FreeWsis
  /\ owner' = [owner EXCEPT ![w] = cur]
  /\ wsi' = [wsi EXCEPT ![cur] = w]
  /\ LeaveConnect
  /\ UNCHANGED <<poolVars, state, stopping, stopped, sul, released,
                 up, asked, cancel, appVars, mainVars, curw, batch, scan>>

\* It returned NULL: at once, or after the callbacks of ConnectFails.
NullGivesUp == LeaveConnect
NullRetries == spc' = "sched" /\ UNCHANGED <<mode, cur>>
ConnectNull ==
  /\ spc \in {"connect", "null"}
  /\ wsi' = [wsi EXCEPT ![cur] = Nil]
  /\ NullRetries
  /\ UNCHANGED <<poolVars, state, stopping, stopped, sul, released, lwsVars,
                 appVars, mainVars, curw, batch, scan>>

\* The part of CONNECTION_ERROR and CLOSED under stop_mu: a stop is told, any
\* other client goes on to schedule_reconnect.
LoseConnection(c, w) ==
  /\ cur' = c
  /\ curw' = w
  /\ wsi' = [wsi EXCEPT ![c] = Nil]
  /\ stopped' = [stopped EXCEPT ![c] = @ \/ stopping[c]]
  /\ spc' = IF stopping[c] THEN "wsiDestroy" ELSE "sched"

\* CONNECTION_ERROR from inside lws_client_connect_via_info.
ConnectFails(w) ==
  /\ spc = "connect"
  /\ w \in FreeWsis
  /\ owner' = [owner EXCEPT ![w] = cur]
  /\ LoseConnection(cur, w)
  /\ UNCHANGED <<poolVars, state, stopping, sul, released, up, asked, cancel,
                 appVars, mainVars, mode, batch, scan>>

Established(w) ==
  /\ spc = "service"
  /\ owner[w] # Nil /\ w \notin up
  /\ up' = up \cup {w}
  /\ state' = [state EXCEPT ![owner[w]] = "connected"]
  /\ UNCHANGED <<poolVars, wsi, stopping, stopped, sul, released,
                 owner, asked, cancel, appVars, mainVars, svcVars>>

ConnectionError(w) ==
  /\ spc = "service"
  /\ owner[w] # Nil /\ w \notin up
  /\ LoseConnection(owner[w], w)
  /\ mode' = "event"
  /\ UNCHANGED <<poolVars, state, stopping, sul, released, lwsVars,
                 appVars, mainVars, batch, scan>>

\* CLOSED: by the peer, by a pong timeout, by a failed write, or as asked.
Closed(w) ==
  /\ spc = "service"
  /\ w \in up
  /\ LoseConnection(owner[w], w)
  /\ state' = [state EXCEPT ![owner[w]] = "idle"]
  /\ mode' = "event"
  /\ UNCHANGED <<poolVars, stopping, sul, released, lwsVars,
                 appVars, mainVars, batch, scan>>

\* Where schedule_reconnect returns to: the callback of a dying wsi ends with
\* WSI_DESTROY, do_connect's own call with do_connect.
LeaveSchedule ==
  IF curw # Nil THEN spc' = "wsiDestroy" /\ UNCHANGED <<mode, cur>>
                ELSE LeaveConnect

\* schedule_reconnect: the check of stopping, made without stop_mu.
ScheduleCheck ==
  /\ spc = "sched"
  /\ IF stopping[cur] THEN LeaveSchedule
                      ELSE spc' = "arm" /\ UNCHANGED <<mode, cur>>
  /\ UNCHANGED <<poolVars, clientVars, lwsVars, appVars, mainVars,
                 curw, batch, scan>>

\* schedule_reconnect: the timer is set unless the hook decides to stop.
ScheduleArm ==
  /\ spc = "arm"
  /\ \/ /\ sul' = [sul EXCEPT ![cur] = TRUE]
        /\ state' = [state EXCEPT ![cur] = "reconnect_wait"]
     \/ /\ cur \in Hooked
        /\ state' = [state EXCEPT ![cur] = "stopped"]
        /\ UNCHANGED sul
  /\ LeaveSchedule
  /\ UNCHANGED <<poolVars, wsi, stopping, stopped, released, lwsVars, appVars,
                 mainVars, curw, batch, scan>>

\* WSI_DESTROY; inside lws_client_connect_via_info it returns NULL next.
ForgetsCaller  == spc' = (IF mode = "event" THEN "service" ELSE "null") /\ cur' = Nil
ResumesConnect ==
  IF mode = "event" THEN spc' = "service" /\ cur' = Nil
                    ELSE spc' = "null" /\ UNCHANGED cur
WsiDestroy ==
  /\ spc = "wsiDestroy"
  /\ wsi' = IF wsi[cur] = curw THEN [wsi EXCEPT ![cur] = Nil] ELSE wsi
  /\ stopped' = [stopped EXCEPT ![cur] = @ \/ stopping[cur]]
  /\ owner' = [owner EXCEPT ![curw] = Nil]
  /\ up' = up \ {curw} /\ asked' = asked \ {curw}
  /\ curw' = Nil
  /\ ResumesConnect
  /\ UNCHANGED <<poolVars, state, stopping, sul, released, cancel, appVars,
                 mainVars, mode, batch, scan>>
-----------------------------------------------------------------------------
AddStep(t)   == (\E c \in Clients : Add(t, c)) \/ AddWake(t)
StopStep(t)  == StopSul(t) \/ StopLook(t) \/ StopWait(t) \/ StopFlush(t)
AppStep(t)   == \/ AddStep(t) \/ StopStep(t)
                \/ \E c \in Clients : Discard(t, c) \/ Stop(t, c)
StartStep    == StartContext \/ StartThread \/ StartFails \/ StartLook \/ StartWake
DestroyStep  == \/ DestroyQuit \/ DestroyWake \/ DestroyJoin \/ DestroyContext
                \/ DestroyPending \/ DestroyEnd
                \/ \E c \in Clients : DestroyStop(c) \/ DestroyClient(c)
MainStep     == StartStep \/ DestroyBegin \/ DestroyStep
CancelledStep == \/ WaitCancelled \/ TakePending \/ Snapshot \/ ScanEnd
                 \/ \E c \in Clients : ConnectNext(c) \/ ScanNext(c)
ConnectStep  == ConnectNull \/ \E w \in Wsis : ConnectOpens(w) \/ ConnectFails(w)
EventStep    == \/ \E c \in Clients : SulFires(c)
                \/ \E w \in Wsis : Established(w) \/ ConnectionError(w) \/ Closed(w)
ServiceStep  == \/ SvcLoop \/ SvcReturn \/ CancelledStep \/ ConnectStep
                \/ EventStep \/ ScheduleCheck \/ ScheduleArm \/ WsiDestroy

\* wsp_pool_destroy has returned: nothing is left to run.
Finished == mpc = "gone" /\ UNCHANGED vars

Next == (\E t \in Threads : AppStep(t)) \/ MainStep \/ ServiceStep \/ Finished

Spec == Init /\ [][Next]_vars

(***************************************************************************)
(* Fairness: a call that was begun goes on, the condition variable's wait  *)
(* times out, and the service thread runs.  Inside lws_service nothing is  *)
(* promised but that it returns again and again and that a request made    *)
(* by lws_cancel_service, or a timer that is due, is served although       *)
(* events keep arriving.                                                   *)
(***************************************************************************)
Fairness ==
  /\ \A t \in Threads : WF_vars(AddWake(t)) /\ WF_vars(StopStep(t))
  /\ WF_vars(StartThread \/ StartFails \/ StartLook \/ StartWake)
  /\ WF_vars(DestroyStep)
  /\ WF_vars(SvcLoop \/ TakePending \/ Snapshot \/ ScanEnd
             \/ (\E c \in Clients : ConnectNext(c) \/ ScanNext(c))
             \/ ConnectStep \/ ScheduleCheck \/ ScheduleArm \/ WsiDestroy)
  /\ SF_vars(SvcReturn) /\ SF_vars(WaitCancelled)
  /\ \A c \in Clients : SF_vars(SulFires(c))

FairSpec == Spec /\ Fairness
-----------------------------------------------------------------------------
(***************************************************************************)
(* Safety.                                                                 *)
(***************************************************************************)

\* A client never has two connections: whatever interleaving of pool_add,
\* WAIT_CANCELLED, the reconnect timer and the nested failures of do_connect
\* happens, do_connect is entered only for a client that owns no live wsi.
OneConnection ==
  \A v, w \in Wsis : owner[v] # Nil /\ owner[v] = owner[w] => v = w

\* c->wsi is exactly the connection lws still has for the client, but for one whose
\* last callbacks are running: what stop and WAIT_CANCELLED dereference is live, and
\* a stop that finds NULL has nothing to wait for.
WsiExact ==
  \A c \in Clients, w \in Wsis : wsi[c] = w <=> owner[w] = c /\ w # curw

\* A registered client that is neither being stopped nor stopped by its hook
\* always has something that will move it: it is pending, taken, in the hands of
\* the service thread, waiting for its timer, or it has a connection.
NotAbandoned ==
  \A c \in clients : ~stopping[c] /\ state[c] # "stopped" =>
     c \in pending \cup batch \/ cur = c \/ sul[c] \/ Live(c)

\* The connections and whatever else drives the clients are in step with the pool.
ConnectionKept == OneConnection /\ WsiExact /\ NotAbandoned

\* No lost wakeup between wsp_pool_add and wsp_pool_start: while the service
\* thread runs, a pending client is accompanied by a request that is set, being
\* served, or about to be made.
PendingNotLost ==
  pending # {} /\ spc \notin {"off", "done"} =>
    \/ cancel \/ spc = "take"
    \/ mpc \in {"started", "waking"}
    \/ \E t \in Threads : apc[t] = "addWake"

\* No lost wakeup between wsp_client_stop and WAIT_CANCELLED: while a stop waits
\* for a connection that was not asked to close, a request is set or the
\* service thread has not passed that client yet.
StopRequestNotLost ==
  \A t \in Threads :
    apc[t] = "stopWait" /\ wsi[arg[t]] # Nil /\ wsi[arg[t]] \notin asked =>
      \/ cancel \/ spc \in {"take", "batch"} \/ mode = "cancelled"
      \/ spc = "scan" /\ arg[t] \in scan

\* Requests coalesce in one flag, and none that somebody relies on is lost in it.
RequestsKept == PendingNotLost /\ StopRequestNotLost

\* The signal that ends the wait of wsp_client_stop means what it says: the
\* client's connection is gone, at most its WSI_DESTROY is still running.
SignalMeansDown ==
  \A t \in Threads : apc[t] = "stopWait" /\ stopped[arg[t]] =>
    /\ wsi[arg[t]] = Nil
    /\ \A w \in Wsis : owner[w] = arg[t] => w = curw

\* Memory that wsp_client_destroy returned is out of the service thread's reach:
\* no variable of it, no timer and no connection leads there, and as long as
\* it runs the client is not in the arrays it copies.
ReleasedUntouched ==
  \A c \in Clients : released[c] > 0 =>
    /\ c \notin batch \cup scan /\ cur # c
    /\ ~sul[c] /\ ~Live(c)
    /\ c \in clients \cup pending => spc \in {"off", "done"}

\* Once wsp_client_stop has set stopping, no timer that was already armed or
\* is armed by a callback in progress makes the service thread dial again; only
\* a client still pending or already being dialled is (see NoReconnect).
Dialling(c) == cur = c /\ mode # "event"
NoRedial ==
  \A c \in Clients :
    stopping[c] /\ c \notin pending \cup batch /\ ~Dialling(c) => ~Dialling(c)'
StoppedNotRedialled == [][NoRedial]_vars

(***************************************************************************)
(* What the send path of a client relies on.                               *)
(***************************************************************************)

\* The client has a connection that is neither on its way nor going away, and how
\* far the one call of wsp_client_stop is that did not return at once.
UpOf(c)          == \E w \in up : owner[w] = c /\ w # curw
InCall(c, where) == \E t \in Threads : apc[t] \in where /\ arg[t] = c
StopOf(c) ==
  IF ~stopping[c]                               THEN "no"
  ELSE IF InCall(c, {"stopSul", "stopLook"})    THEN "begun"
  ELSE IF InCall(c, {"stopWait", "stopFlush"})  THEN "waiting"
  ELSE "done"

Link(c) == INSTANCE WsLink WITH up <- UpOf(c), stop <- StopOf(c)

\* Seen from each client the pool behaves as its send path expects: connections
\* come one at a time and only with a context, a stop that finds one wakes the
\* service thread, and a context that goes has stopped whoever was connected.
LinkSpec ==
  /\ \A c \in Clients : Link(c)!Init
  /\ [][\A c \in Clients : [Link(c)!Next]_(Link(c)!linkage)]_vars

(***************************************************************************)
(* What the documentation says and the code does not do.                   *)
(***************************************************************************)

\* ws_pool.h:117: a client that wsp_client_stop has stopped does not connect
\* any more.
NoReconnect ==
  [][\A c \in Clients :
       stopped[c] /\ (\A t \in Threads : apc[t] = "idle")
         => (Live(c)' => Live(c))]_vars

\* ws_pool.h:125 and the comment at ws_pool.c:573: the pool destroys a client
\* once; what is left in pending[] was not added.
DestroyedOnce == \A c \in Clients : released[c] <= 1

(***************************************************************************)
(* Liveness under FairSpec.                                                *)
(***************************************************************************)

\* wsp_client_stop returns, whether or not lws ever closes the connection.
StopReturns ==
  \A t \in Threads : apc[t] = "stopSul" ~> apc[t] = "idle"

\* A client without a connection, not stopped by the application or by its hook,
\* is dialled: one that was just added, in whatever order add and start happen, and
\* one that lost its connection.
DialsAgain ==
  \A c \in Clients :
    c \in clients /\ mpc = "running" /\ ~Live(c)
      ~> Dialling(c) \/ stopping[c] \/ state[c] = "stopped"

\* wsp_pool_destroy returns.
DestroyReturns == mpc = "stopping" ~> mpc = "gone"
=============================================================================
