----------------------------- MODULE WsClientV2 -----------------------------
(***************************************************************************)
(* The v2 client, src/ws_client_v2.c.  It differs from v1 in its retries,  *)
(* an lws_sul timer and the hook that may end them, in what it asks lws    *)
(* for, and in its reads of q_head, which it makes without q_lock: each is *)
(* a step of its own, so it sees the queue before or after an append.      *)
(*                                                                         *)
(* Main thread, senders, connections and messages are as in WsClientV1.    *)
(* The hooks are those of examples/v2_hooks_demo.c: one that gives up      *)
(* after a number of failures, and one that may see to a heartbeat itself. *)
(***************************************************************************)
EXTENDS Naturals, Sequences

CONSTANTS
  Senders,      \* threads that call wsl_send or wsl_send_binary
  Wsis,         \* addresses lws has for a connection
  None,         \* NULL
  MaxMsgs,      \* max_queue_msgs, 0 for no limit
  InitDelay,    \* reconnect_init_ms
  MaxDelay,     \* reconnect_max_ms
  MaxFailures,  \* the count of failures at which on_reconnect_decision gives up
  Pings,        \* ping_interval_ms > 0
  OwnHeartbeat, \* on_heartbeat_tick may handle the tick itself
  MaxSends,     \* bound: messages accepted
  MaxStarts     \* bound: calls of wsl_start

ASSUME DelayAssumption == InitDelay \in Nat \ {0} /\ MaxDelay \in Nat /\ InitDelay <= MaxDelay
ASSUME BoundAssumption == {MaxMsgs, MaxFailures, MaxSends, MaxStarts} \subseteq Nat
ASSUME FlagAssumption  == Pings \in BOOLEAN /\ OwnHeartbeat \in BOOLEAN
ASSUME NullAssumption  == None \notin Wsis

VARIABLES
  \* wsl_client_t; thread_started is set while main is "running" .. "joining"
  ctx,          \* c->ctx is set
  wsi, state, stopping,
  delay,        \* reconnect_delay_ms
  fails,        \* reconnect_fail_count
  sul,          \* the retry timer is scheduled
  sendPing, pingPending,
  queue,        \* q_head .. q_tail
  \* threads
  main,         \* the main thread's place
  starts,       \* calls of wsl_start so far
  thread,       \* the service thread's place, "poll" between two callbacks
  node,         \* what WRITEABLE dequeued, 0 for nothing
  waking,       \* senders between their append and lws_cancel_service
  sent,         \* the number of messages accepted
  \* libwebsockets
  phase,        \* of the connection at an address
  writable,     \* WRITEABLE was asked for and is due on an established connection
  timer,        \* the connection's timer is set
  cancel,       \* lws_cancel_service was called and not yet reported
  flushed       \* history: the last message accepted before the last flush

mainVars  == <<ctx, main, starts, stopping>>
linkVars  == <<wsi, state, phase>>
retryVars == <<delay, fails, sul>>
pingVars  == <<sendPing, pingPending, timer>>
sendVars  == <<waking, sent>>
vars == <<mainVars, linkVars, retryVars, pingVars, sendVars, writable, cancel, queue, node,
          thread, flushed>>

PlacesTyped ==
  /\ main \in {"out", "opened", "running", "stopping", "joining", "joined", "gone"}
  /\ thread \in {"none", "dial", "poll", "pinged", "write", "written", "flush", "ended"}
  /\ state \in {"IDLE", "CONNECTING", "CONNECTED", "RECONNECT_WAIT", "STOPPED"}
  /\ wsi \in Wsis \cup {None} /\ phase \in [Wsis -> {"free", "opening", "open"}]
  /\ delay \in {0} \cup InitDelay..MaxDelay /\ fails \in Nat /\ starts \in Nat
QueueTyped ==
  /\ queue \in Seq(Nat) /\ sent \in Nat /\ node \in Nat /\ flushed \in Nat
  /\ waking \subseteq Senders
FlagsTyped ==
  /\ ctx \in BOOLEAN /\ stopping \in BOOLEAN /\ sul \in BOOLEAN
  /\ sendPing \in BOOLEAN /\ pingPending \in BOOLEAN /\ timer \in BOOLEAN
  /\ writable \in BOOLEAN /\ cancel \in BOOLEAN
TypeOK == PlacesTyped /\ QueueTyped /\ FlagsTyped

\* wsl_create and the setters; reconnect_delay_ms is 0 until the first failure.
Init ==
  /\ ctx = FALSE /\ main = "out" /\ starts = 0 /\ stopping = FALSE
  /\ wsi = None /\ state = "IDLE" /\ phase = [w \in Wsis |-> "free"]
  /\ delay = 0 /\ fails = 0 /\ sul = FALSE
  /\ sendPing = FALSE /\ pingPending = FALSE /\ timer = FALSE
  /\ writable = FALSE /\ cancel = FALSE
  /\ waking = {} /\ sent = 0 /\ queue = <<>> /\ flushed = 0
  /\ node = 0 /\ thread = "none"

Up == \E w \in Wsis : phase[w] = "open"
-----------------------------------------------------------------------------
(***************************************************************************)
(* enqueue_msg: a call that is refused, for want of memory or of room,     *)
(* changes nothing; nothing asks whether the client is stopped.            *)
(***************************************************************************)
Room == MaxMsgs = 0 \/ Len(queue) < MaxMsgs

InFront(m) == <<m>> \o queue
Behind(m)  == Append(queue, m)

Enqueue(t) ==
  /\ main # "gone" /\ t \notin waking
  /\ sent < MaxSends
  /\ Room
  /\ sent' = sent + 1
  /\ queue' = Behind(sent')
  /\ waking' = waking \cup {t}
  /\ UNCHANGED <<mainVars, linkVars, retryVars, pingVars, writable, cancel, node, thread, flushed>>

Wake(t) ==
  /\ t \in waking
  /\ waking' = waking \ {t}
  /\ cancel' = (cancel \/ ctx)
  /\ UNCHANGED <<mainVars, linkVars, retryVars, pingVars, sent, writable, queue, node, thread, flushed>>
-----------------------------------------------------------------------------
(***************************************************************************)
(* The main thread.  fail_count, delay, send_ping and the queue pass from  *)
(* one start to the next.                                                  *)
(***************************************************************************)
Start ==
  /\ main = "out" /\ starts < MaxStarts
  /\ starts' = starts + 1
  /\ ctx' = TRUE /\ state' = "IDLE" /\ stopping' = FALSE
  /\ main' = "opened"
  /\ UNCHANGED <<wsi, phase, retryVars, pingVars, sendVars, writable, cancel, queue, node,
                 thread, flushed>>

Spawn ==
  /\ main = "opened"
  /\ thread' = "dial"
  /\ main' = "running"
  /\ UNCHANGED <<ctx, starts, stopping, linkVars, retryVars, pingVars, sendVars, writable, cancel,
                 queue, node, flushed>>

\* pthread_create fails: the context goes, and with it a cancel.
SpawnFails ==
  /\ main = "opened"
  /\ ctx' = FALSE /\ cancel' = FALSE
  /\ main' = "out"
  /\ UNCHANGED <<starts, stopping, linkVars, retryVars, pingVars, sendVars, writable, queue, node,
                 thread, flushed>>

Stop ==
  /\ main = "running"
  /\ stopping' = TRUE
  /\ main' = "stopping"
  /\ UNCHANGED <<ctx, starts, linkVars, retryVars, pingVars, sendVars, writable, cancel, queue,
                 node, thread, flushed>>

StopWake ==
  /\ main = "stopping"
  /\ cancel' = TRUE
  /\ main' = "joining"
  /\ UNCHANGED <<ctx, starts, stopping, linkVars, retryVars, pingVars, sendVars, writable, queue,
                 node, thread, flushed>>

Join ==
  /\ main = "joining" /\ thread = "ended"
  /\ thread' = "none"
  /\ main' = "joined"
  /\ UNCHANGED <<ctx, starts, stopping, linkVars, retryVars, pingVars, sendVars, writable, cancel,
                 queue, node, flushed>>

\* lws_context_destroy closes what is left, by CLOSED or WSI_DESTROY on this thread,
\* and drops the timer; stopping keeps both callbacks from planning a retry.
ContextDestroy ==
  /\ main = "joined"
  /\ phase' = [w \in Wsis |-> "free"] /\ wsi' = None /\ state' = "IDLE"
  /\ writable' = FALSE /\ timer' = FALSE /\ cancel' = FALSE /\ sul' = FALSE
  /\ ctx' = FALSE
  /\ main' = "out"
  /\ UNCHANGED <<starts, stopping, delay, fails, sendPing, pingPending, sendVars, queue, node,
                 thread, flushed>>

\* wsl_destroy, of a client that is stopped and that no thread still uses, leaves the
\* queue as it is.
Destroy ==
  /\ main = "out" /\ waking = {}
  /\ main' = "gone"
  /\ UNCHANGED <<ctx, starts, stopping, linkVars, retryVars, pingVars, sendVars, writable, cancel,
                 queue, node, thread, flushed>>
-----------------------------------------------------------------------------
(***************************************************************************)
(* The service thread: retries and its end.                                *)
(***************************************************************************)
Uncapped(d) == IF d = 0 THEN InitDelay ELSE 2 * d
NextDelay(d) ==
  IF d = 0 THEN InitDelay ELSE IF 2 * d > MaxDelay THEN MaxDelay ELSE 2 * d

\* on_reconnect_decision keeps the delay it is shown, until it gives up.
GivesUp(f) == f >= MaxFailures

ArmsAnyway(f, d) ==
  /\ delay' = NextDelay(d) /\ sul' = TRUE
  /\ state' = IF GivesUp(f) THEN "STOPPED" ELSE "RECONNECT_WAIT"
ScheduleReconnect(f, d) ==
  IF GivesUp(f)
    THEN state' = "STOPPED" /\ UNCHANGED <<delay, sul>>
    ELSE delay' = NextDelay(d) /\ sul' = TRUE /\ state' = "RECONNECT_WAIT"

SulReconnect ==
  /\ thread = "poll" /\ sul
  /\ sul' = FALSE
  /\ thread' = IF stopping THEN "poll" ELSE "dial"
  /\ UNCHANGED <<mainVars, linkVars, delay, fails, pingVars, sendVars, writable, cancel, queue,
                 node, flushed>>

\* do_connect, when lws_client_connect_via_info makes a connection ...
DoConnect(w) ==
  /\ thread = "dial"
  /\ phase[w] = "free"
  /\ phase' = [phase EXCEPT ![w] = "opening"]
  /\ wsi' = w /\ state' = "CONNECTING"
  /\ thread' = "poll"
  /\ UNCHANGED <<mainVars, retryVars, pingVars, sendVars, writable, cancel, queue, node, flushed>>

\* ... and when it returns NULL, which is no failure for fail_count unless a
\* CONNECTION_ERROR came first; that one has then planned a retry already.
PlansAnew ==
  \/ ScheduleReconnect(fails, delay) /\ fails' = fails
  \/ ~stopping /\ fails' = fails + 1 /\ ScheduleReconnect(fails + 1, NextDelay(delay))
DoConnectFails ==
  /\ thread = "dial"
  /\ wsi' = None
  /\ PlansAnew
  /\ thread' = "poll"
  /\ UNCHANGED <<mainVars, phase, pingVars, sendVars, writable, cancel, queue, node, flushed>>

Leave ==
  /\ thread = "poll" /\ stopping
  /\ thread' = "flush"
  /\ UNCHANGED <<mainVars, linkVars, retryVars, pingVars, sendVars, writable, cancel, queue, node,
                 flushed>>

KeepsQueue == UNCHANGED queue
FreesQueue == queue' = <<>>
Flush ==
  /\ thread = "flush"
  /\ FreesQueue
  /\ flushed' = sent
  /\ thread' = "ended"
  /\ UNCHANGED <<mainVars, linkVars, retryVars, pingVars, sendVars, writable, cancel, node>>
-----------------------------------------------------------------------------
(***************************************************************************)
(* ws_callback.                                                            *)
(***************************************************************************)

\* A request made during the handshake may be gone; send_ping is left as the last
\* connection left it.
Established(w) ==
  /\ thread = "poll" /\ phase[w] = "opening"
  /\ phase' = [phase EXCEPT ![w] = "open"]
  /\ state' = "CONNECTED"
  /\ delay' = InitDelay /\ fails' = 0
  /\ pingPending' = FALSE /\ timer' = Pings
  /\ IF queue # <<>> THEN writable' = TRUE ELSE writable' \in {writable, FALSE}
  /\ UNCHANGED <<mainVars, wsi, sul, sendPing, sendVars, cancel, queue, node, thread, flushed>>

Forget == wsi' = None

\* The connection is gone; CONNECTION_ERROR and CLOSED do the same.
Lost(w) ==
  /\ phase' = [phase EXCEPT ![w] = "free"]
  /\ writable' = FALSE /\ timer' = FALSE
  /\ Forget
  /\ IF stopping
       THEN state' = "RECONNECT_WAIT" /\ UNCHANGED retryVars
       ELSE fails' = fails + 1 /\ ScheduleReconnect(fails + 1, delay)

ConnectionError(w) ==
  /\ thread = "poll" /\ phase[w] = "opening"
  /\ Lost(w)
  /\ UNCHANGED <<mainVars, sendPing, pingPending, sendVars, cancel, queue, node, thread, flushed>>

Closed(w) ==
  /\ thread = "poll" /\ phase[w] = "open"
  /\ Lost(w)
  /\ UNCHANGED <<mainVars, sendPing, pingPending, sendVars, cancel, queue, node, thread, flushed>>

\* Asked for whatever the queue holds and however far the connection is.
WaitCancelled ==
  /\ thread = "poll" /\ cancel
  /\ cancel' = FALSE
  /\ writable' = (writable \/ (~stopping /\ wsi # None))
  /\ UNCHANGED <<mainVars, linkVars, retryVars, pingVars, sendVars, queue, node, thread, flushed>>

\* WRITEABLE with a ping to send, and its look at q_head afterwards.
WritePing ==
  /\ thread = "poll" /\ Up /\ writable
  /\ sendPing
  /\ writable' = FALSE
  /\ sendPing' = FALSE /\ pingPending' = TRUE
  /\ thread' = "pinged"
  /\ UNCHANGED <<mainVars, linkVars, retryVars, timer, sendVars, cancel, queue, node, flushed>>

\* WRITEABLE without one: the head is dequeued under q_lock, then written, then q_head
\* is read again.
Dequeue ==
  /\ thread = "poll" /\ Up /\ writable
  /\ ~sendPing
  /\ writable' = FALSE
  /\ IF queue = <<>>
       THEN UNCHANGED <<queue, node, thread>>
       ELSE node' = Head(queue) /\ queue' = Tail(queue) /\ thread' = "write"
  /\ UNCHANGED <<mainVars, linkVars, retryVars, pingVars, sendVars, cancel, flushed>>

Write ==
  /\ thread = "write"
  /\ node' = 0
  /\ thread' = "written"
  /\ UNCHANGED <<mainVars, linkVars, retryVars, pingVars, sendVars, writable, cancel, queue, flushed>>

\* lws_write fails: the callback returns -1 and CLOSED follows.
WriteFails(w) ==
  /\ thread = "write" /\ phase[w] = "open"
  /\ node' = 0
  /\ Lost(w)
  /\ thread' = "poll"
  /\ UNCHANGED <<mainVars, sendPing, pingPending, sendVars, cancel, queue, flushed>>

ForgetsData == FALSE
HasData     == queue # <<>>
LookAgain ==
  /\ thread \in {"pinged", "written"}
  /\ writable' = (writable \/ HasData)
  /\ thread' = "poll"
  /\ UNCHANGED <<mainVars, linkVars, retryVars, pingVars, sendVars, cancel, queue, node, flushed>>

\* TIMER: the hook sees to it, or the last ping was not answered, or it is time for the
\* next; lws has unset the timer.
OwnTick ==
  /\ thread = "poll" /\ Up /\ timer
  /\ OwnHeartbeat
  /\ timer' = (Pings /\ wsi # None)
  /\ UNCHANGED <<mainVars, linkVars, retryVars, sendPing, pingPending, sendVars, writable, cancel,
                 queue, node, thread, flushed>>

PongTimeout(w) ==
  /\ thread = "poll" /\ phase[w] = "open" /\ timer
  /\ pingPending
  /\ Lost(w)
  /\ UNCHANGED <<mainVars, sendPing, pingPending, sendVars, cancel, queue, node, thread, flushed>>

AskPing ==
  /\ thread = "poll" /\ Up /\ timer
  /\ ~pingPending
  /\ sendPing' = TRUE /\ timer' = FALSE
  /\ writable' = TRUE
  /\ UNCHANGED <<mainVars, linkVars, retryVars, pingPending, sendVars, cancel, queue, node, thread,
                 flushed>>

LeavesTimer == UNCHANGED timer
SetsTimer   == timer' = (timer \/ (Pings /\ wsi # None))
Pong ==
  /\ thread = "poll" /\ Up
  /\ pingPending' = FALSE
  /\ SetsTimer
  /\ UNCHANGED <<mainVars, linkVars, retryVars, sendPing, sendVars, writable, cancel, queue, node,
                 thread, flushed>>
-----------------------------------------------------------------------------
SendStep == \E t \in Senders : Enqueue(t) \/ Wake(t)
StopStep == StopWake \/ Join \/ ContextDestroy
MainStep == Start \/ Spawn \/ SpawnFails \/ Stop \/ StopStep \/ Destroy
DialStep == DoConnectFails \/ \E w \in Wsis : DoConnect(w)
LinkStep == \E w \in Wsis : Established(w) \/ ConnectionError(w) \/ Closed(w)
TickStep == OwnTick \/ AskPing \/ \E w \in Wsis : PongTimeout(w)
WorkStep == Write \/ LookAgain \/ \E w \in Wsis : WriteFails(w)
ThreadStep == \/ Leave \/ SulReconnect \/ DialStep \/ Flush \/ LinkStep \/ WaitCancelled
              \/ WritePing \/ Dequeue \/ WorkStep \/ TickStep \/ Pong

Next == SendStep \/ MainStep \/ ThreadStep

Spec == Init /\ [][Next]_vars

(***************************************************************************)
(* Fairness.  A function that was entered goes on; lws_service returns, so *)
(* the loop tests stopping however many events keep coming, and lws makes  *)
(* the callbacks that are due and resolves every attempt to connect.       *)
(* Nobody need send, stop or destroy, and the peer owes nothing.           *)
(***************************************************************************)
Fairness ==
  /\ \A t \in Senders : WF_vars(Wake(t))
  /\ WF_vars(Spawn \/ SpawnFails) /\ WF_vars(StopStep)
  /\ SF_vars(Leave) /\ SF_vars(SulReconnect)
  /\ WF_vars(DialStep) /\ WF_vars(Flush) /\ WF_vars(WorkStep)
  /\ \A w \in Wsis : SF_vars(Established(w) \/ ConnectionError(w))
  /\ SF_vars(WaitCancelled) /\ SF_vars(WritePing) /\ SF_vars(Dequeue) /\ SF_vars(TickStep)

FairSpec == Spec /\ Fairness
-----------------------------------------------------------------------------
(***************************************************************************)
(* Safety.                                                                 *)
(***************************************************************************)

\* c->wsi, which every request to lws goes through, is exactly the connection lws has,
\* if it has one: no callback dereferences NULL or a freed connection, and there is
\* never a second one.
WsiExact == \A w \in Wsis : wsi = w <=> phase[w] # "free"

\* A client that runs and is not being stopped has a connection, or its retry timer is
\* scheduled, unless the hook gave up.
NotAbandoned ==
  thread = "poll" /\ ~stopping => wsi # None \/ sul \/ state = "STOPPED"

\* Once the hook has given up nothing of the retry machinery is left that could dial
\* again: not the timer a nested failure set, not a connection.
BreakerHolds ==
  state = "STOPPED" => ~sul /\ wsi = None /\ thread # "dial"

\* A connection, or the way to the next, until the hook gives up; then neither.
ConnectionKept == WsiExact /\ NotAbandoned /\ BreakerHolds

\* No lost wakeup: on an established connection a queue that holds messages is always
\* announced, those that were queued before it came up included, although q_head is
\* read without the lock.
Announced == writable \/ cancel \/ thread \in {"pinged", "written", "write"} \/ waking # {}
NoLostWakeup ==
  Up /\ queue # <<>> /\ ~stopping /\ thread \in {"poll", "pinged", "write", "written"} => Announced

\* The heartbeat of an established connection never stalls by itself: its timer is set,
\* or a ping is asked for together with the WRITEABLE that will send it, or the peer
\* owes a PONG.  For that last case see SilentPeerClosed.
HeartbeatGoesOn == Up /\ Pings => timer \/ (sendPing /\ writable) \/ pingPending

\* What wsl_destroy leaves allocated is at most what was enqueued after the last service
\* thread flushed the queue.  (ws_client_v2.h:168 promises that it frees everything.)
LeaksOnlyLate == main = "gone" => \A i \in 1..Len(queue) : queue[i] > flushed

\* The client implements WsBacklog: over starts, stops and reconnects messages leave the
\* queue in the order enqueue accepted them, each at most once and none skipped, and the
\* queue is only emptied beside no write.
Backlog == INSTANCE WsBacklog
BacklogSpec == Backlog!Spec

(***************************************************************************)
(* Liveness under FairSpec.                                                *)
(***************************************************************************)

\* A message does not stay in the queue of a connection that stays up, whatever the
\* heartbeat does with the requests for WRITEABLE that the two share.
Queued(i) == \E k \in 1..Len(queue) : queue[k] = i
BacklogWritten ==
  \A i \in 1..MaxSends : Up /\ Queued(i) /\ ~stopping ~> ~Up \/ ~Queued(i) \/ stopping

\* ws_client_v2.h:23: a peer that does not answer a ping loses the connection.
SilentPeerClosed == Up /\ pingPending /\ ~stopping ~> ~Up \/ ~pingPending \/ stopping
=============================================================================
