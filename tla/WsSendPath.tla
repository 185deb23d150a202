----------------------------- MODULE WsSendPath -----------------------------
(***************************************************************************)
(* Sending on one client of the pool of src/ws_pool.c: wsp_send from the   *)
(* application's threads, the flush of wsp_client_stop, and what the       *)
(* service thread does about the queue and the heartbeat, which shares the *)
(* requests for WRITEABLE with it.                                         *)
(*                                                                         *)
(* A step is one access to shared data.  The critical section of enqueue   *)
(* is two steps that hold q_lock, because wsp_client_stop writes stopping  *)
(* without it.  The context, the connection and the stop move by the       *)
(* steps of WsLink, which WsPool is shown to implement for each client;    *)
(* lws calls WRITEABLE once per request, on an established connection      *)
(* only, and TIMER only while the connection's timer is set.               *)
(***************************************************************************)
EXTENDS Naturals, Sequences, SequencesExt

CONSTANTS
  Senders,      \* threads that call wsp_send or wsp_send_binary
  Messages,     \* what they send, every message once: the bound of the model
  Size,         \* node->len of a message
  MaxMsgs,      \* max_queue_msgs, 0 for no limit
  MaxBytes,     \* max_queue_bytes, 0 for no limit
  OwnHeartbeat, \* on_heartbeat_tick may handle the tick itself
  None          \* NULL

ASSUME SizesAssumption  == Size \in [Messages -> Nat]
ASSUME LimitsAssumption == MaxMsgs \in Nat /\ MaxBytes \in Nat
ASSUME NoneAssumption   == None \notin Messages \cup Senders

VARIABLES
  \* wsp_client_t
  queue,        \* q_head .. q_tail
  msgs, bytes,  \* q_msgs, q_bytes
  holder,       \* the sender that holds q_lock between two steps
  stopping,
  sendPing, pingPending,
  \* application threads
  pc, arg,      \* a sender's place in enqueue and its message
  stop,         \* the place of the call of wsp_client_stop that counts
  offered,      \* the messages that were passed to wsp_send
  \* libwebsockets
  ctx,          \* c->pool->ctx is set
  up,           \* the client has an established connection
  writable,     \* lws_callback_on_writable was called, WRITEABLE is due
  timer,        \* the connection's timer is set
  cancel,       \* lws_cancel_service was called and not yet reported
  \* the service thread
  at,           \* the callback it is in, "poll" when in none of these
  node, more,   \* the dequeued message; whether others were left
  \* history
  written,      \* the messages lws_write accepted
  silent        \* the connection came up on a queue nobody announced since

queueVars == <<queue, msgs, bytes>>
pingVars  == <<sendPing, pingPending, timer>>
sendVars  == <<holder, pc, arg, offered>>
stopVars  == <<stop, stopping>>
linkVars  == <<ctx, up>>
wakeVars  == <<writable, cancel, silent>>
svcVars   == <<at, node, more, written>>
vars == <<queueVars, pingVars, sendVars, stopVars, linkVars, wakeVars, svcVars>>

QueueTyped ==
  /\ queue \in Seq(Messages) /\ written \in Seq(Messages)
  /\ msgs \in Nat /\ bytes \in Int
  /\ node \in Messages \cup {None}
PlacesTyped ==
  /\ holder \in Senders \cup {None}
  /\ pc \in [Senders -> {"idle", "enter", "append", "wake"}]
  /\ arg \in [Senders -> Messages \cup {None}]
  /\ \A t \in Senders : pc[t] \in {"enter", "append"} => arg[t] \in Messages
  /\ stop \in {"no", "begun", "waiting", "done"}
  /\ offered \subseteq Messages
  /\ at \in {"poll", "pinged", "scan", "write", "tick"}
FlagsTyped ==
  /\ stopping \in BOOLEAN /\ sendPing \in BOOLEAN /\ pingPending \in BOOLEAN
  /\ ctx \in BOOLEAN /\ up \in BOOLEAN /\ writable \in BOOLEAN
  /\ timer \in BOOLEAN /\ cancel \in BOOLEAN /\ more \in BOOLEAN /\ silent \in BOOLEAN
TypeOK == QueueTyped /\ PlacesTyped /\ FlagsTyped

\* What the client shares with its pool.
Link == INSTANCE WsLink

Init ==
  /\ queue = <<>> /\ msgs = 0 /\ bytes = 0
  /\ holder = None
  /\ pc = [t \in Senders |-> "idle"] /\ arg = [t \in Senders |-> None]
  /\ stopping = FALSE /\ offered = {}
  /\ sendPing = FALSE /\ pingPending = FALSE /\ timer = FALSE /\ writable = FALSE
  /\ Link!Init
  /\ at = "poll" /\ node = None /\ more = FALSE
  /\ written = <<>> /\ silent = FALSE

-----------------------------------------------------------------------------
(***************************************************************************)
(* enqueue                                                                 *)
(***************************************************************************)
Room(m) ==
  /\ MaxMsgs = 0 \/ msgs < MaxMsgs
  /\ MaxBytes = 0 \/ bytes + Size[m] <= MaxBytes

\* The node is allocated, or the call fails.
Send(t, m) ==
  /\ pc[t] = "idle"
  /\ m \notin offered
  /\ offered' = offered \cup {m}
  /\ \/ /\ pc' = [pc EXCEPT ![t] = "enter"]
        /\ arg' = [arg EXCEPT ![t] = m]
     \/ UNCHANGED <<pc, arg>>
  /\ UNCHANGED <<queueVars, pingVars, holder, stopVars, linkVars, wakeVars, svcVars>>

\* q_lock is taken; a message that is refused leaves it at once.
EnqCheck(t) ==
  /\ pc[t] = "enter"
  /\ holder = None
  /\ IF stopping \/ ~Room(arg[t])
       THEN pc' = [pc EXCEPT ![t] = "idle"] /\ UNCHANGED holder
       ELSE pc' = [pc EXCEPT ![t] = "append"] /\ holder' = t
  /\ UNCHANGED <<queueVars, pingVars, arg, offered, stopVars, linkVars, wakeVars, svcVars>>

InFront(m) == <<m>> \o queue
Behind(m)  == Append(queue, m)
EnqAppend(t) ==
  /\ pc[t] = "append"
  /\ queue' = Behind(arg[t])
  /\ msgs' = msgs + 1
  /\ bytes' = bytes + Size[arg[t]]
  /\ holder' = None
  /\ pc' = [pc EXCEPT ![t] = "wake"]
  /\ UNCHANGED <<pingVars, arg, offered, stopVars, linkVars, wakeVars, svcVars>>

EnqWake(t) ==
  /\ pc[t] = "wake"
  /\ Link!Wake
  /\ pc' = [pc EXCEPT ![t] = "idle"]
  /\ UNCHANGED <<queueVars, pingVars, holder, arg, offered, stopping, writable,
                 silent, svcVars>>

-----------------------------------------------------------------------------
(***************************************************************************)
(* wsp_client_stop, as far as the queue sees it: stopping is set under     *)
(* stop_mu, the wait for the connection may end early or late.             *)
(***************************************************************************)
StopBegin ==
  /\ Link!StopBegins
  /\ stopping' = TRUE
  /\ UNCHANGED <<queueVars, pingVars, sendVars, writable, silent, svcVars>>

\* With a connection, up or still on its way, WAIT_CANCELLED is asked for.
StopLook ==
  /\ Link!StopLooks
  /\ UNCHANGED <<queueVars, pingVars, sendVars, stopping, writable, silent, svcVars>>

LockIgnored == TRUE
LockFree    == holder = None

CountersOnly == msgs' = 0 /\ bytes' = 0 /\ UNCHANGED queue
ListOnly     == queue' = <<>> /\ UNCHANGED <<msgs, bytes>>
Flush        == queue' = <<>> /\ msgs' = 0 /\ bytes' = 0

StopFlush ==
  /\ Link!StopReturns
  /\ LockFree
  /\ Flush
  /\ UNCHANGED <<pingVars, sendVars, stopping, writable, silent, svcVars>>

-----------------------------------------------------------------------------
(***************************************************************************)
(* The service thread.                                                     *)
(***************************************************************************)
PoolStart ==
  /\ Link!Open
  /\ UNCHANGED <<queueVars, pingVars, sendVars, stopping, writable, silent, svcVars>>

\* wsp_pool_start found no thread, or wsp_pool_destroy: with the context go the
\* connection, its requests and its timer.  Neither has a callback in progress.
ContextGone ==
  /\ at = "poll"
  /\ Link!Close
  /\ writable' = FALSE /\ timer' = FALSE /\ silent' = FALSE
  /\ UNCHANGED <<queueVars, sendPing, pingPending, sendVars, stopping, svcVars>>

\* The flag is the whole pool's: wsp_pool_add, wsp_pool_start, or a send or a stop
\* of another client.
OtherWake ==
  /\ Link!Wake
  /\ UNCHANGED <<queueVars, pingVars, sendVars, stopping, writable, silent, svcVars>>

\* lws_callback_on_writable
Request == writable' = TRUE /\ silent' = FALSE
RequestIf(b) == writable' = (writable \/ b) /\ silent' = (silent /\ ~b)

Established ==
  /\ at = "poll" /\ Link!Up
  /\ sendPing' = FALSE /\ pingPending' = FALSE
  /\ timer' = TRUE
  /\ writable' = FALSE
  /\ silent' = (queue # <<>>)
  /\ UNCHANGED <<queueVars, sendVars, stopping, svcVars>>

\* The connection ends: CLOSED, or a callback that returned -1.
Disconnect == Link!Down /\ writable' = FALSE /\ timer' = FALSE /\ silent' = FALSE

Closed ==
  /\ at = "poll"
  /\ Disconnect
  /\ UNCHANGED <<queueVars, sendPing, pingPending, sendVars, stopping, svcVars>>

\* WAIT_CANCELLED: a client that is stopped gets a WRITEABLE in any case.
WaitCancelled ==
  /\ at = "poll" /\ Link!Serve
  /\ IF up /\ stopping THEN Request ELSE UNCHANGED <<writable, silent>>
  /\ at' = IF up /\ ~stopping THEN "scan" ELSE "poll"
  /\ UNCHANGED <<queueVars, pingVars, sendVars, stopping, node, more, written>>

Scan ==
  /\ at = "scan"
  /\ LockFree
  /\ RequestIf(queue # <<>>)
  /\ at' = "poll"
  /\ UNCHANGED <<queueVars, pingVars, sendVars, stopVars, linkVars, cancel,
                 node, more, written>>

\* WRITEABLE with a ping to send, and its look at the queue afterwards.
WritePing ==
  /\ at = "poll" /\ up /\ writable
  /\ sendPing
  /\ sendPing' = FALSE /\ pingPending' = TRUE
  /\ writable' = FALSE
  /\ at' = "pinged"
  /\ UNCHANGED <<queueVars, timer, sendVars, stopVars, linkVars, cancel, silent,
                 node, more, written>>

ForgetsData == FALSE
HasData     == queue # <<>>
PingDone ==
  /\ at = "pinged"
  /\ LockFree
  /\ RequestIf(HasData)
  /\ at' = "poll"
  /\ UNCHANGED <<queueVars, pingVars, sendVars, stopVars, linkVars, cancel,
                 node, more, written>>

\* WRITEABLE without one: under q_lock the head is taken off the queue.
MoreThanTwo == Len(queue) > 2
MoreLeft    == Len(queue) > 1
Dequeue ==
  /\ at = "poll" /\ up /\ writable
  /\ ~sendPing
  /\ LockFree
  /\ writable' = FALSE
  /\ IF queue = <<>>
       THEN UNCHANGED <<queueVars, at, node, more>>
       ELSE /\ node' = Head(queue)
            /\ queue' = Tail(queue)
            /\ msgs' = msgs - 1
            /\ bytes' = bytes - Size[Head(queue)]
            /\ more' = MoreLeft
            /\ at' = "write"
  /\ UNCHANGED <<pingVars, sendVars, stopVars, linkVars, cancel, silent, written>>

Write ==
  /\ at = "write"
  /\ written' = Append(written, node)
  /\ node' = None
  /\ RequestIf(more)
  /\ at' = "poll"
  /\ UNCHANGED <<queueVars, pingVars, sendVars, stopVars, linkVars, cancel, more>>

WriteFails ==
  /\ at = "write"
  /\ node' = None
  /\ Disconnect
  /\ at' = "poll"
  /\ UNCHANGED <<queueVars, sendPing, pingPending, sendVars, stopping, more,
                 written>>

\* TIMER: the timer is spent; then the hook may take the tick over, or a ping is
\* asked for, or the last one was not answered.
Tick ==
  /\ at = "poll" /\ up /\ timer
  /\ timer' = FALSE
  /\ at' = "tick"
  /\ UNCHANGED <<queueVars, sendPing, pingPending, sendVars, stopVars, linkVars,
                 wakeVars, node, more, written>>

LeavesUnset == FALSE
Rearmed     == TRUE

OwnTick ==
  /\ at = "tick" /\ OwnHeartbeat
  /\ timer' = Rearmed
  /\ at' = "poll"
  /\ UNCHANGED <<queueVars, sendPing, pingPending, sendVars, stopVars, linkVars,
                 wakeVars, node, more, written>>

AskPing ==
  /\ at = "tick" /\ ~pingPending
  /\ sendPing' = TRUE
  /\ Request
  /\ timer' = Rearmed
  /\ at' = "poll"
  /\ UNCHANGED <<queueVars, pingPending, sendVars, stopVars, linkVars, cancel,
                 node, more, written>>

PongTimeout ==
  /\ at = "tick" /\ pingPending
  /\ Disconnect
  /\ at' = "poll"
  /\ UNCHANGED <<queueVars, sendPing, pingPending, sendVars, stopping, node,
                 more, written>>

Pong ==
  /\ at = "poll" /\ up
  /\ pingPending' = FALSE
  /\ timer' = TRUE
  /\ UNCHANGED <<queueVars, sendPing, sendVars, stopVars, linkVars, wakeVars, svcVars>>
-----------------------------------------------------------------------------
SendStep(t)  == (\E m \in Messages : Send(t, m)) \/ EnqCheck(t) \/ EnqAppend(t) \/ EnqWake(t)
StopStep     == StopBegin \/ StopLook \/ StopFlush
TickStep     == OwnTick \/ AskPing \/ PongTimeout
WriteStep    == WritePing \/ PingDone \/ Dequeue \/ Write \/ WriteFails
PoolStep     == PoolStart \/ ContextGone \/ OtherWake
ServiceStep  == \/ PoolStep \/ Established \/ Closed
                \/ WaitCancelled \/ Scan \/ WriteStep \/ Tick \/ TickStep \/ Pong

Next == (\E t \in Senders : SendStep(t)) \/ StopStep \/ ServiceStep

Spec == Init /\ [][Next]_vars

(***************************************************************************)
(* Fairness: an enqueue that was begun ends, a callback that was begun     *)
(* ends, and lws makes the callbacks that are due although others keep     *)
(* coming; for TIMER this says that the peer does not put the timer off    *)
(* for ever with PONGs nobody asked for.  Nobody need send, stop, answer a *)
(* ping or keep a connection.                                              *)
(***************************************************************************)
Fairness ==
  /\ \A t \in Senders : WF_vars(EnqCheck(t) \/ EnqAppend(t) \/ EnqWake(t))
  /\ WF_vars(Scan \/ PingDone \/ Write \/ WriteFails) /\ WF_vars(TickStep)
  /\ SF_vars(WaitCancelled) /\ SF_vars(WritePing) /\ SF_vars(Dequeue) /\ SF_vars(Tick)

FairSpec == Spec /\ Fairness
-----------------------------------------------------------------------------
(***************************************************************************)
(* Safety.                                                                 *)
(***************************************************************************)

\* q_msgs and q_bytes, which enqueue trusts for the limits, count exactly what
\* the list holds, whoever of enqueue, WRITEABLE and the flush ran last.
Weight(q) ==
  LET sum[n \in 0..Len(q)] == IF n = 0 THEN 0 ELSE sum[n - 1] + Size[q[n]]
  IN  sum[Len(q)]
CountersExact == msgs = Len(queue) /\ bytes = Weight(queue)

\* The limits of wsp_set_queue_limit hold at every moment, with any number of
\* threads between their check and their append.
LimitsKept ==
  /\ MaxMsgs = 0 \/ Len(queue) <= MaxMsgs
  /\ MaxBytes = 0 \/ Weight(queue) <= MaxBytes

\* Once wsp_client_stop has flushed the queue it stays empty, though enqueue
\* tests stopping under another lock than the one stop sets it under.
StoppedEmpty == stop = "done" => queue = <<>> /\ \A t \in Senders : pc[t] # "append"

\* A message is in one place at most, and there once: accepted, with the service
\* thread, or written.  None is written twice, whatever the connection does between
\* taking and writing it.
AtMostOnce ==
  /\ IsInjective(queue) /\ IsInjective(written)
  /\ \A m \in Messages : Contains(queue, m) => ~Contains(written, m)
  /\ node # None => ~Contains(queue, node) /\ ~Contains(written, node)

\* The queue holds at most what it may, of a stopped client nothing, and nothing
\* that is or was written.
QueueKept == LimitsKept /\ StoppedEmpty /\ AtMostOnce

\* No lost wakeup: on an established connection a queue that holds messages is
\* announced, by a request that is due, a cancel, or a step in progress that
\* will make one.  The one exception is a queue the connection came up on, which
\* ESTABLISHED does not look at.
Announced ==
  \/ writable \/ cancel
  \/ at \in {"scan", "pinged"} \/ (at = "write" /\ more)
  \/ \E t \in Senders : pc[t] = "wake"
NoLostWakeup == up /\ queue # <<>> => Announced \/ silent

\* The client implements a bounded FIFO queue with one reader.
Fifo == INSTANCE WsFifo WITH fifo <- queue, flight <- node, out <- written,
                             shut <- (stop = "done")
FifoSpec == Fifo!Spec

(***************************************************************************)
(* Liveness under FairSpec.                                                *)
(***************************************************************************)

\* Without a hook for the heartbeat, a message does not stay in the queue of a
\* connection that stays up; if nothing else asks for WRITEABLE the look of the
\* ping at the queue does.
BacklogWritten ==
  \A m \in Messages : up /\ Contains(queue, m) ~> ~up \/ ~Contains(queue, m)

\* A peer that does not answer a ping loses the connection.
SilentPeerClosed == up /\ pingPending ~> ~up \/ ~pingPending

\* docs/wsp_pool_architecture.md:679: messages queued while the connection is
\* down are sent after the reconnect.
SentAfterReconnect ==
  up /\ silent /\ ~stopping /\ queue # <<>> ~>
    ~up \/ ~silent \/ stopping \/ queue = <<>>
=============================================================================
