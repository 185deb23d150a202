----------------------------- MODULE WsClientV1 -----------------------------
(***************************************************************************)
(* The v1 client, src/ws_client.c: one connection, one service thread, a   *)
(* send queue, the heartbeat and the retries of the thread's own loop.     *)
(*                                                                         *)
(* The application's main thread creates, starts, stops and destroys the   *)
(* client, and may start it again after a stop; Senders are its threads    *)
(* that call wsld_send, before, during and after a stop.  A step is one    *)
(* access to shared data; what q_lock protects is one step.  Addresses of  *)
(* connections are reused, so c->wsi can point to one that is gone.        *)
(* Messages are numbered as enqueue accepts them, and q_msgs and q_bytes,  *)
(* which change with the list under q_lock, are read off it.               *)
(***************************************************************************)
EXTENDS Naturals, Sequences

CONSTANTS
  Senders,    \* threads that call wsld_send or wsld_send_binary
  Wsis,       \* addresses lws has for a connection
  None,       \* NULL
  MaxMsgs,    \* max_queue_msgs, 0 for no limit
  InitDelay,  \* reconnect_init_ms
  MaxDelay,   \* reconnect_max_ms
  MaxSends,   \* bound: messages accepted
  MaxStarts   \* bound: calls of wsld_start

ASSUME DelayAssumption == InitDelay \in Nat \ {0} /\ MaxDelay \in Nat /\ InitDelay <= MaxDelay
ASSUME BoundAssumption == MaxMsgs \in Nat /\ MaxSends \in Nat /\ MaxStarts \in Nat
ASSUME NullAssumption  == None \notin Wsis

VARIABLES
  \* wsld_client_t; thread_started is set while main is "running" .. "joining"
  ctx,          \* c->ctx is set
  wsi, state, stopping,
  delay,        \* reconnect_delay_ms
  wait,         \* how far reconnect_at was set ahead, 0 when no retry is planned
  sendPing, pingPending,
  queue,        \* q_head .. q_tail
  \* threads
  main,         \* the main thread's place
  starts,       \* calls of wsld_start so far
  thread,       \* the service thread's place, "poll" between two callbacks
  node, more,   \* what WRITEABLE dequeued, 0 for nothing; whether more was left
  waking,       \* senders between their append and lws_cancel_service
  sent,         \* the number of messages accepted
  \* libwebsockets
  phase,        \* of the connection at an address
  writable,     \* WRITEABLE is due
  timer,        \* the connection's timer is set
  cancel,       \* lws_cancel_service was called and not yet reported
  \* history
  silent,       \* the connection came up on a queue nobody announced since
  last          \* the wait planned last, 0 once the delays start again

mainVars  == <<ctx, main, starts, stopping>>
linkVars  == <<wsi, state, phase>>
retryVars == <<delay, wait, last>>
pingVars  == <<sendPing, pingPending, timer>>
wakeVars  == <<writable, silent>>
sendVars  == <<waking, sent>>
workVars  == <<node, more>>
vars == <<mainVars, linkVars, retryVars, pingVars, wakeVars, sendVars, workVars,
          cancel, queue, thread>>

PlacesTyped ==
  /\ main \in {"out", "opened", "running", "stopping", "joining", "joined", "gone"}
  /\ thread \in {"none", "dial", "poll", "pinged", "write", "flush", "ended"}
  /\ state \in {"IDLE", "CONNECTING", "CONNECTED", "RECONNECT_WAIT"}
  /\ wsi \in Wsis \cup {None} /\ phase \in [Wsis -> {"free", "opening", "open"}]
  /\ delay \in InitDelay..MaxDelay /\ {wait, last} \subseteq {0} \cup InitDelay..MaxDelay
  /\ starts \in Nat
QueueTyped ==
  /\ queue \in Seq(Nat) /\ sent \in Nat /\ node \in Nat
  /\ waking \subseteq Senders
FlagsTyped ==
  /\ ctx \in BOOLEAN /\ stopping \in BOOLEAN /\ more \in BOOLEAN
  /\ sendPing \in BOOLEAN /\ pingPending \in BOOLEAN /\ timer \in BOOLEAN
  /\ writable \in BOOLEAN /\ cancel \in BOOLEAN /\ silent \in BOOLEAN
TypeOK == PlacesTyped /\ QueueTyped /\ FlagsTyped

\* wsld_create and the setters.
Init ==
  /\ ctx = FALSE /\ main = "out" /\ starts = 0 /\ stopping = FALSE
  /\ wsi = None /\ state = "IDLE" /\ phase = [w \in Wsis |-> "free"]
  /\ delay = InitDelay /\ wait = 0 /\ last = 0
  /\ sendPing = FALSE /\ pingPending = FALSE /\ timer = FALSE
  /\ writable = FALSE /\ silent = FALSE /\ cancel = FALSE
  /\ waking = {} /\ sent = 0 /\ queue = <<>>
  /\ node = 0 /\ more = FALSE /\ thread = "none"

Up == \E w \in Wsis : phase[w] = "open"
-----------------------------------------------------------------------------
(***************************************************************************)
(* enqueue, from any thread.  A call that is refused, for want of memory   *)
(* or of room, changes nothing; nothing asks whether the client is stopped.*)
(***************************************************************************)
Room == MaxMsgs = 0 \/ Len(queue) < MaxMsgs

InFront(m) == <<m>> \o queue
Behind(m)  == Append(queue, m)

Enqueue(t) ==
  /\ main # "gone" /\ t \notin waking
  /\ sent < MaxSends
  /\ Room
  /\ sent' = sent + 1
  /\ queue' = Behind(sent')
  /\ waking' = waking \cup {t}
  /\ UNCHANGED <<mainVars, linkVars, retryVars, pingVars, wakeVars, workVars, cancel, thread>>

Wake(t) ==
  /\ t \in waking
  /\ waking' = waking \ {t}
  /\ cancel' = (cancel \/ ctx)
  /\ UNCHANGED <<mainVars, linkVars, retryVars, pingVars, wakeVars, sent, workVars, queue, thread>>
-----------------------------------------------------------------------------
(***************************************************************************)
(* The main thread.                                                        *)
(***************************************************************************)
\* wsld_set_reconnect; init and max themselves are constants here.
SetReconnect ==
  /\ main = "out"
  /\ delay' = InitDelay /\ last' = 0
  /\ UNCHANGED <<mainVars, linkVars, wait, pingVars, wakeVars, sendVars, workVars, cancel, queue,
                 thread>>

\* With the state IDLE a retry that a stop left planned is forgotten, its delay is not.
Start ==
  /\ main = "out" /\ starts < MaxStarts
  /\ starts' = starts + 1
  /\ ctx' = TRUE /\ stopping' = FALSE /\ state' = "IDLE" /\ wait' = 0
  /\ main' = "opened"
  /\ UNCHANGED <<wsi, phase, delay, last, pingVars, wakeVars, sendVars, workVars, cancel, queue, thread>>

Spawn ==
  /\ main = "opened"
  /\ thread' = "dial"
  /\ main' = "running"
  /\ UNCHANGED <<ctx, starts, stopping, linkVars, retryVars, pingVars, wakeVars, sendVars,
                 workVars, cancel, queue>>

\* pthread_create fails: the context goes, and with it a cancel.
SpawnFails ==
  /\ main = "opened"
  /\ ctx' = FALSE /\ cancel' = FALSE
  /\ main' = "out"
  /\ UNCHANGED <<starts, stopping, linkVars, retryVars, pingVars, wakeVars, sendVars, workVars,
                 queue, thread>>

Stop ==
  /\ main = "running"
  /\ stopping' = TRUE
  /\ main' = "stopping"
  /\ UNCHANGED <<ctx, starts, linkVars, retryVars, pingVars, wakeVars, sendVars, workVars,
                 cancel, queue, thread>>

StopWake ==
  /\ main = "stopping"
  /\ cancel' = TRUE
  /\ main' = "joining"
  /\ UNCHANGED <<ctx, starts, stopping, linkVars, retryVars, pingVars, wakeVars, sendVars,
                 workVars, queue, thread>>

Join ==
  /\ main = "joining" /\ thread = "ended"
  /\ thread' = "none" /\ wsi' = None
  /\ main' = "joined"
  /\ UNCHANGED <<ctx, starts, stopping, state, phase, retryVars, pingVars, wakeVars, sendVars,
                 workVars, cancel, queue>>

\* lws_context_destroy closes what is left, by CLOSED or WSI_DESTROY on this thread;
\* stopping keeps both from planning a retry.
ContextDestroy ==
  /\ main = "joined"
  /\ phase' = [w \in Wsis |-> "free"] /\ wsi' = None
  /\ writable' = FALSE /\ silent' = FALSE /\ timer' = FALSE /\ cancel' = FALSE
  /\ ctx' = FALSE
  /\ main' = "out"
  /\ UNCHANGED <<starts, stopping, state, retryVars, sendPing, pingPending, sendVars, workVars,
                 queue, thread>>

\* wsld_destroy, of a client that is stopped and that no thread still uses.
KeepsQueue == UNCHANGED queue
FreesQueue == queue' = <<>>
Destroy ==
  /\ main = "out" /\ waking = {}
  /\ FreesQueue
  /\ main' = "gone"
  /\ UNCHANGED <<ctx, starts, stopping, linkVars, retryVars, pingVars, wakeVars, sendVars,
                 workVars, cancel, thread>>
-----------------------------------------------------------------------------
(***************************************************************************)
(* The service thread: retries and its end.                                *)
(***************************************************************************)
Uncapped(d) == 2 * d
Doubled(d) == IF 2 * d > MaxDelay THEN MaxDelay ELSE 2 * d

DoublesFirst(d) ==
  wait' = Doubled(d) /\ delay' = Doubled(d) /\ state' = "RECONNECT_WAIT" /\ last' = wait'
ScheduleReconnect(d) ==
  wait' = d /\ delay' = Doubled(d) /\ state' = "RECONNECT_WAIT" /\ last' = wait'

LoopEndsWhenDown == stopping /\ wsi = None
LoopEnds         == stopping
Leave ==
  /\ thread = "poll" /\ LoopEnds
  /\ thread' = "flush"
  /\ UNCHANGED <<mainVars, linkVars, retryVars, pingVars, wakeVars, sendVars, workVars, cancel, queue>>

Retry ==
  /\ thread = "poll" /\ ~stopping
  /\ state = "RECONNECT_WAIT"
  /\ wait' = 0
  /\ thread' = "dial"
  /\ UNCHANGED <<mainVars, linkVars, delay, last, pingVars, wakeVars, sendVars, workVars, cancel, queue>>

\* do_connect, when lws_client_connect_via_info returns a connection ...
DoConnect(w) ==
  /\ thread = "dial"
  /\ phase[w] = "free"
  /\ phase' = [phase EXCEPT ![w] = "opening"]
  /\ wsi' = w /\ state' = "CONNECTING"
  /\ thread' = "poll"
  /\ UNCHANGED <<mainVars, retryVars, pingVars, wakeVars, sendVars, workVars, cancel, queue>>

\* ... and when it returns NULL, perhaps after a CONNECTION_ERROR of its own, which
\* plans a retry too unless the client is stopping: the delay is doubled twice.
GivesUp   == state' = "CONNECTING" /\ UNCHANGED retryVars
PlansAnew == \/ ScheduleReconnect(delay)
             \/ ~stopping /\ ScheduleReconnect(Doubled(delay))
DoConnectFails ==
  /\ thread = "dial"
  /\ wsi' = None
  /\ PlansAnew
  /\ thread' = "poll"
  /\ UNCHANGED <<mainVars, phase, pingVars, wakeVars, sendVars, workVars, cancel, queue>>

Flush ==
  /\ thread = "flush"
  /\ queue' = <<>>
  /\ thread' = "ended"
  /\ UNCHANGED <<mainVars, linkVars, retryVars, pingVars, wakeVars, sendVars, workVars, cancel>>
-----------------------------------------------------------------------------
(***************************************************************************)
(* ws_callback.                                                            *)
(***************************************************************************)
Request == writable' = TRUE /\ silent' = FALSE
RequestIf(b) == writable' = (writable \/ b) /\ silent' = (silent /\ ~b)

\* ESTABLISHED does not look at the queue.
Established(w) ==
  /\ thread = "poll" /\ phase[w] = "opening"
  /\ phase' = [phase EXCEPT ![w] = "open"]
  /\ wsi' = w /\ state' = "CONNECTED"
  /\ delay' = InitDelay /\ last' = 0
  /\ sendPing' = FALSE /\ pingPending' = FALSE /\ timer' = TRUE
  /\ writable' = FALSE /\ silent' = (queue # <<>>)
  /\ UNCHANGED <<mainVars, wait, sendVars, workVars, cancel, queue, thread>>

Forget == wsi' = None

\* The connection is gone; CONNECTION_ERROR and CLOSED do the same.
Lost(w) ==
  /\ phase' = [phase EXCEPT ![w] = "free"]
  /\ writable' = FALSE /\ silent' = FALSE /\ timer' = FALSE
  /\ Forget
  /\ IF stopping THEN UNCHANGED <<state, retryVars>> ELSE ScheduleReconnect(delay)

ConnectionError(w) ==
  /\ thread = "poll" /\ phase[w] = "opening"
  /\ Lost(w)
  /\ UNCHANGED <<mainVars, sendPing, pingPending, sendVars, workVars, cancel, queue, thread>>

Closed(w) ==
  /\ thread = "poll" /\ phase[w] = "open"
  /\ Lost(w)
  /\ UNCHANGED <<mainVars, sendPing, pingPending, sendVars, workVars, cancel, queue, thread>>

WaitCancelled ==
  /\ thread = "poll" /\ cancel
  /\ cancel' = FALSE
  /\ IF wsi # None /\ state = "CONNECTED" THEN RequestIf(queue # <<>>) ELSE UNCHANGED wakeVars
  /\ UNCHANGED <<mainVars, linkVars, retryVars, pingVars, sendVars, workVars, queue, thread>>

\* WRITEABLE with a ping to send, and its look at the queue afterwards.
WritePing ==
  /\ thread = "poll" /\ Up /\ writable
  /\ sendPing
  /\ writable' = FALSE
  /\ sendPing' = FALSE /\ pingPending' = TRUE
  /\ thread' = "pinged"
  /\ UNCHANGED <<mainVars, linkVars, retryVars, timer, silent, sendVars, workVars, cancel, queue>>

ForgetsData == FALSE
HasData     == queue # <<>>
PingDone ==
  /\ thread = "pinged"
  /\ RequestIf(HasData)
  /\ thread' = "poll"
  /\ UNCHANGED <<mainVars, linkVars, retryVars, pingVars, sendVars, workVars, cancel, queue>>

\* WRITEABLE without one: the head is dequeued under q_lock and written after it.
Dequeue ==
  /\ thread = "poll" /\ Up /\ writable
  /\ ~sendPing
  /\ writable' = FALSE
  /\ IF queue = <<>>
       THEN UNCHANGED <<queue, node, more, thread>>
       ELSE /\ node' = Head(queue) /\ queue' = Tail(queue)
            /\ more' = (Len(queue) > 1)
            /\ thread' = "write"
  /\ UNCHANGED <<mainVars, linkVars, retryVars, pingVars, silent, sendVars, cancel>>

Write ==
  /\ thread = "write"
  /\ node' = 0
  /\ RequestIf(more)
  /\ thread' = "poll"
  /\ UNCHANGED <<mainVars, linkVars, retryVars, pingVars, sendVars, more, cancel, queue>>

\* lws_write fails: the callback returns -1 and CLOSED follows.
WriteFails(w) ==
  /\ thread = "write" /\ phase[w] = "open"
  /\ node' = 0
  /\ Lost(w)
  /\ thread' = "poll"
  /\ UNCHANGED <<mainVars, sendPing, pingPending, sendVars, more, cancel, queue>>

\* TIMER: the last ping was not answered, or it is time for the next.
PongTimeout(w) ==
  /\ thread = "poll" /\ phase[w] = "open" /\ timer
  /\ pingPending
  /\ Lost(w)
  /\ UNCHANGED <<mainVars, sendPing, pingPending, sendVars, workVars, cancel, queue, thread>>

LeavesUnset == FALSE
Rearmed     == TRUE
AskPing ==
  /\ thread = "poll" /\ Up /\ timer
  /\ ~pingPending
  /\ sendPing' = TRUE
  /\ Request
  /\ timer' = Rearmed
  /\ UNCHANGED <<mainVars, linkVars, retryVars, pingPending, sendVars, workVars, cancel, queue, thread>>

Pong ==
  /\ thread = "poll" /\ Up
  /\ pingPending' = FALSE
  /\ timer' = TRUE
  /\ UNCHANGED <<mainVars, linkVars, retryVars, sendPing, wakeVars, sendVars, workVars, cancel,
                 queue, thread>>
-----------------------------------------------------------------------------
SendStep == \E t \in Senders : Enqueue(t) \/ Wake(t)
StopStep == StopWake \/ Join \/ ContextDestroy
MainStep == SetReconnect \/ Start \/ Spawn \/ SpawnFails \/ Stop \/ StopStep \/ Destroy
DialStep == DoConnectFails \/ \E w \in Wsis : DoConnect(w)
LinkStep == \E w \in Wsis : Established(w) \/ ConnectionError(w) \/ Closed(w)
TickStep == AskPing \/ \E w \in Wsis : PongTimeout(w)
WorkStep == PingDone \/ Write \/ \E w \in Wsis : WriteFails(w)
ThreadStep == \/ Leave \/ Retry \/ DialStep \/ Flush \/ LinkStep \/ WaitCancelled
              \/ WritePing \/ Dequeue \/ WorkStep \/ TickStep \/ Pong

Next == SendStep \/ MainStep \/ ThreadStep

Spec == Init /\ [][Next]_vars

(***************************************************************************)
(* Fairness.  A function that was entered goes on; lws_service returns, so *)
(* the loop tests stopping and reconnect_at however many events keep       *)
(* coming, and lws makes the callbacks that are due.  Nobody need send,    *)
(* stop or destroy, and the peer owes nothing.                             *)
(***************************************************************************)
Fairness ==
  /\ \A t \in Senders : WF_vars(Wake(t))
  /\ WF_vars(Spawn \/ SpawnFails) /\ WF_vars(StopStep)
  /\ SF_vars(Leave) /\ SF_vars(Retry)
  /\ WF_vars(DialStep) /\ WF_vars(Flush) /\ WF_vars(WorkStep)
  /\ SF_vars(WaitCancelled) /\ SF_vars(WritePing) /\ SF_vars(Dequeue) /\ SF_vars(TickStep)

FairSpec == Spec /\ Fairness
-----------------------------------------------------------------------------
(***************************************************************************)
(* Safety.                                                                 *)
(***************************************************************************)

\* c->wsi is exactly the connection lws has, if it has one: do_connect, a nested
\* failure, the events of an old connection and a restart never leave it pointing to
\* a freed connection, nor a second connection beside it.  Between the join and the
\* end of lws_context_destroy nothing reads it.
WsiExact == main # "joined" => \A w \in Wsis : wsi = w <=> phase[w] # "free"

\* A client that runs and is not being stopped has a connection or a retry planned,
\* whichever way the last attempt or connection ended.
NotAbandoned ==
  thread = "poll" /\ ~stopping => wsi # None \/ (state = "RECONNECT_WAIT" /\ wait > 0)

\* Exactly one of them at a time: the connection of c->wsi, or the way to the next.
ConnectionKept == WsiExact /\ NotAbandoned

\* No lost wakeup: on an established connection a queue that holds messages is
\* announced, by a request, a cancel, or a step in progress that will make one.  The
\* exception is a queue the connection came up on, which waits for a further
\* send or for the ping.
Announced ==
  \/ writable \/ cancel
  \/ thread = "pinged" \/ (thread = "write" /\ more)
  \/ waking # {}
NoLostWakeup == Up /\ queue # <<>> /\ thread \in {"poll", "pinged", "write"} => Announced \/ silent

\* When wsld_stop has returned no thread and no connection of the client is left, and
\* wsld_destroy frees every message, those enqueued after the flush included.
NothingLeft ==
  /\ main \in {"out", "gone"} => thread = "none" /\ ~Up /\ ~ctx /\ node = 0
  /\ main = "gone" => queue = <<>>

\* The back-off, each wait against the one before.  The first behind a connection or
\* wsld_set_reconnect is init, and every further failure doubles the wait before it, up
\* to max (ws_client.h:9, :64).  The code keeps to that with one exception, which
\* the header does not describe: a dial that reports CONNECTION_ERROR inside
\* lws_client_connect_via_info and then returns NULL counts as two failures.  Every plan
\* changes wait, which is 0 on a connection and during a dial.
Capped(d) == IF d < MaxDelay THEN d ELSE MaxDelay
Due       == IF last = 0 THEN InitDelay ELSE Capped(2 * last)

CountedTwice == thread = "dial" /\ ~stopping
Backoff ==
  [][wait' # wait /\ wait' # 0 =>
       wait' = Due \/ (CountedTwice /\ wait' = Capped(2 * Due))]_vars

\* The client implements WsBacklog: over starts, stops and reconnects messages leave the
\* queue in the order enqueue accepted them, each at most once and none skipped, and the
\* queue is only emptied beside no write.
Backlog == INSTANCE WsBacklog
BacklogSpec == Backlog!Spec

(***************************************************************************)
(* Liveness under FairSpec.                                                *)
(***************************************************************************)

\* wsld_stop returns, whatever the connection, the senders and the thread are doing.
StopReturns == main = "stopping" ~> main = "out"

\* ws_client.h:17: a peer that does not answer a ping loses the connection.
SilentPeerClosed == Up /\ pingPending /\ ~stopping ~> ~Up \/ ~pingPending \/ stopping

=============================================================================
