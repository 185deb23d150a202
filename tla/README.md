# A TLA+ development for lws_client_demo

The repository is a small C library of WebSocket endpoints on top of
libwebsockets (lws): two single-connection clients (`ws_client.c`, v1, and
`ws_client_v2.c`, v2), a connection pool that serves many clients from one lws
context (`ws_pool.c`), and an echo server for local tests (`ws_server.c`).
Everything difficult in it is concurrency between the application's threads and
the *service thread* that runs `lws_service`: the application calls functions
from any thread, lws calls back on the service thread, and the two meet in a few
fields, three kinds of mutexes, one condition variable and
`lws_cancel_service`.

## 1. Inventory

| part | state | operations | what is hard | what makes it correct |
|---|---|---|---|---|
| pool life cycle (`ws_pool.c`) | `ctx`, `clients[]`, `pending[]`, `thread_started`, `destroying`; per client `state`, `wsi`, `stopping`, `stopped`, `sul` | `wsp_pool_create/start/add/destroy`, `wsp_client_create/stop/destroy`; callbacks ESTABLISHED, WAIT_CANCELLED, CONNECTION_ERROR, CLOSED, WSI_DESTROY; `do_connect`, `schedule_reconnect`, `sul_reconnect_cb`, `service_thread` | add against start, stop against WAIT_CANCELLED, stop against a reconnect in progress, failures nested inside `lws_client_connect_via_info`, a stop that times out, release of memory the service thread may still hold | one connection per client, no lost wakeup, no dangling `wsi`, no forgotten client, signals that mean what they say, no use after release, stop and destroy return |
| pool send path (`ws_pool.c`, `ws_internal.h`) | `q_head`, `q_tail`, `q_msgs`, `q_bytes` | `wsp_send`, `wsp_send_binary`, WRITEABLE, WAIT_CANCELLED, the flushes | send against stop, requests for WRITEABLE that get lost, a write that fails | FIFO order, limits kept, counters equal to the queue, a queued message is written while the connection lives |
| heartbeat (pool, v1, v2) | `send_ping`, `ping_pending`, the lws timer | TIMER, RECEIVE_PONG, WRITEABLE | a late PONG, a timer that is not armed again | a missing PONG closes the connection, an answered one never does |
| back-off (pool, v1, v2) | `reconnect_delay_ms`, `reconnect_fail_count` | `schedule_reconnect` | first delay, doubling, limit, overflow | the documented sequence of delays |
| reassembly (pool, v1, v2, server) | `frag_buf`, `frag_len`, `frag_cap` | RECEIVE, `frag_append`, `ws_frag_append` | messages cut by a lost connection, `first`/`final`/`remaining` in all combinations | every message is delivered once and whole |
| v1 client (`ws_client.c`) | `ctx`, `wsi`, `stopping`, `thread_started`, `reconnect_at` | `wsld_*`, its callback, a service loop that polls the back-off | stop while dialling, stop from two threads, send against stop | as for the pool, for one client |
| v2 client (`ws_client_v2.c`) | as v1, with `sul`, hooks and callbacks | `wsl_*`, its callback | as v1; a context destroyed with a timer set | as v1 |
| echo server (`ws_server.c`) | per session `echo_buf`, `frag_buf` | `wss_*`, `server_callback` | two messages before one WRITEABLE | every message is echoed |
| TTS example (`xfyun_tts.c`) | `tts_ctx_t`: `done`, `api_code`, `total_bytes`, `pcm_file`; `g_stop` | `main`, `on_tts_message`, `on_signal` | the last frame, the deadline, a signal and the close of the file race | success means the whole answer; no lost wakeup; the program ends |
| setters, other examples, build | plain stores before an object is shared; no run-time state of the library | | | |

The parts interact in four ways: **calls** of the application into the library;
**callbacks** of lws on the service thread (also *inside*
`lws_client_connect_via_info` and `lws_context_destroy`);
**`lws_cancel_service`**, the only way any thread wakes the service thread,
whose requests coalesce into one WAIT_CANCELLED; and **shared fields**, some
under `pool_lock`, `stop_mu` or `q_lock`, some read without any lock
(`stopping` in the callbacks, `destroying`, `pool->ctx`).

`PROJECT.json` lists these parts with their status, and every hazard at the line
where it bites.

## 2. What is modelled: `WsPool.tla`, `WsLink.tla`

The life cycle and the connect/reconnect/stop protocol of the pool, all of it:
each operation in the first row of the table is one action or, where it releases
a lock or reads a shared field without one, several.

**Granularity.** A step is one critical section, or one access to a shared field
outside of any, unless no other thread can write that field meanwhile. The exception is
the test of `c->pool` at `ws_pool.c:679`, before `pool_lock` is taken: only another
`wsp_pool_add` of the same client writes it, so `Add` is test and registration in one. So `wsp_client_stop` is `Stop` (sets `stopping`), `StopSul`
(`lws_sul_cancel`), `StopLook` (second critical section up to the wait),
`StopWait` (signal or time-out) and `StopFlush`; WAIT_CANCELLED is
`WaitCancelled`, `TakePending`, one `ConnectNext` per client with the steps of
`do_connect`, `Snapshot`, one `ScanNext` per client, `ScanEnd`. The
`pthread_cond_timedwait` and the `lws_cancel_service` before it happen with
`stop_mu` held; they are one step, as in the comment at `ws_pool.c:725-741`.

**Where a thread is.** `apc[t]`, `arg[t]` for each application thread; `mpc` and
`todo` for the calls `wsp_pool_start` and `wsp_pool_destroy` of `Main`, which calls
`wsp_client_stop` as a subroutine through the same `apc`; `spc`, `mode`, `cur`,
`curw`, `batch`, `scan` for the service thread: its program counter, the callback
it is in, the client (and the dying wsi) it handles, and the two arrays `pend[]`
and `snap[]` that WAIT_CANCELLED copies.

| code | model |
|---|---|
| `wsp_pool_add` | `Add`, `AddWake` |
| `wsp_pool_start` | `StartContext`, `StartThread` or `StartFails`, `StartLook`, `StartWake` |
| `wsp_client_stop` | `Stop`, `StopSul`, `StopLook`, `StopWait`, `StopFlush` |
| `wsp_pool_destroy` | `DestroyBegin`, `DestroyStop`, `DestroyQuit`, `DestroyWake`, `DestroyJoin`, `DestroyContext`, `DestroyClient`, `DestroyPending`, `DestroyEnd` |
| `wsp_client_destroy` | `Discard` (never pooled), `DestroyClient` |
| `service_thread` | `SvcLoop`, `SvcReturn` |
| WAIT_CANCELLED | `WaitCancelled`, `TakePending`, `ConnectNext`, `Snapshot`, `ScanNext`, `ScanEnd` |
| `do_connect` | `EnterConnect`, then `ConnectOpens`, `ConnectNull` or `ConnectFails` |
| `schedule_reconnect` | `ScheduleCheck`, `ScheduleArm` |
| `sul_reconnect_cb` | `SulFires` |
| ESTABLISHED, CONNECTION_ERROR, CLOSED, WSI_DESTROY | `Established`, `ConnectionError` and `ConnectFails`, `Closed`, `WsiDestroy` |

**libwebsockets is external** (an empty submodule) and modelled from its use: the
context exists or not; `cancel` is the coalescing request; `sul[c]` says that a
client's timer is set; `owner[w]` is the client of the connection at address `w`,
`Nil` when the address is free and may be handed out again. A connection attempt
may open, return NULL at once, or report CONNECTION_ERROR and WSI_DESTROY before
it returns NULL. An open connection may become established, fail, or be closed at
any time and for any reason (the peer, a pong time-out, a failed write, or
`lws_close_reason`); a closing one may take for ever. `lws_context_destroy` takes
every connection through WSI_DESTROY, any subset of them through CLOSED before.

**What the application may do.** Any thread adds and stops clients at any time; a
thread makes one call at a time; `Main` starts and destroys the pool, possibly
without ever starting it or after failed starts. Nothing is called once
`wsp_pool_destroy` has begun (`ws_pool.h:64`), a client is given to the pool by one
thread (no two calls of `wsp_pool_add` for it overlap, see section 7), and only clients of the pool are stopped. A client of the pool is destroyed
only by the pool (`ws_pool.h:124`).

**Left out**, because nothing in this protocol reads it: the send queue and
WRITEABLE and the heartbeat (section 3; its time-out is one reason for `Closed` here), delays, the
configuration, and the effects of hooks, except that `on_reconnect_decision` of a
`Hooked` client may end its reconnecting.

### Properties

Safety (`pool_safety`; each is also proved, see below):

- `ConnectionKept`: what the pool knows of its connections is right. `OneConnection`, a
  client never owns two live ones, depends on `pending`, `batch`, the timer, the service
  thread's hands and the connection excluding each other through every nesting of
  `do_connect` and its failures. `WsiExact`, `c->wsi` is *exactly* the connection lws has for
  `c`, apart from one that is just being destroyed: it never dangles, and a stop that reads
  NULL has nothing to wait for. `NotAbandoned`, a registered client that was not stopped is
  pending, taken, in the service thread's hands, waiting for its timer, or has a connection.
- `RequestsKept`: `PendingNotLost`, whichever way add and start interleave, a pending client
  of a running pool comes with a wakeup that is set, being served or about to be made;
  `StopRequestNotLost`, a stop that waits for a connection nobody has asked to close has its
  request set, or the service thread has still to pass the client.
- `SignalMeansDown`: when the waiter sees `stopped`, the connection is gone.
- `ReleasedUntouched`: no array, variable, timer or connection leads the service
  thread to a client after `wsp_client_destroy`.
- `StoppedNotRedialled` (on steps): once `stopping` is set the service thread
  begins no dialling of a client that it had not already taken up, though
  `schedule_reconnect` may arm the timer after the stop has cancelled it.
- `LinkSpec`: for each client the pool implements `WsLink`, see below.
- `TypeOK`, the type invariant, which includes that `cur` is a client wherever the
  code would dereference it.

Liveness (`pool_liveness`): `StopReturns`, `DialsAgain` (which takes a client that was just
added out of `pending` as well), `DestroyReturns`.

### `WsLink`: what the pool and the send path share

`WsPool` knows nothing of queues and `WsSendPath` (section 3) nothing of `wsi`, `pending` or
`pool_lock`. They meet in four facts about one client: whether there is a context, whether the
client has an established connection, how far the call of `wsp_client_stop` is that did not
return at once, and the pool's one cancel request. `WsLink` says how these move, and both
sides use it:

- `WsSendPath` takes them from an instance of `WsLink`; its steps are `Open`, `Up`, `Down`,
  `StopBegins`, `StopLooks`, `Wake`, `Serve` and so on, each with the queue's part beside it;
- `WsPool` is shown to implement `WsLink` for every client (`LinkSpec`), with `up` mapped to
  `UpOf(c)`, an established connection whose last callbacks have not begun, and `stop` to
  `StopOf(c)`, read off the program counters of the application threads.

So what the send path assumes of its surroundings is established, not postulated: that
a client has one connection at a time, that ESTABLISHED comes only with a context and only after the connection
before it is gone, that a stop which finds an established connection leaves a cancel, that
a context goes only when whoever was connected has been stopped, and that WAIT_CANCELLED comes
only for a request somebody made. What the pool cannot give is in `WsSendPath` itself: the
requests for WRITEABLE and the timer of a connection, which `WsPool` leaves out.

## 3. What is modelled: `WsSendPath.tla`, `WsFifo.tla`

Sending on **one** client of the pool: `wsp_send` from several threads, the flush of
`wsp_client_stop`, WRITEABLE, the part of WAIT_CANCELLED that looks at the queue, and
the heartbeat. The heartbeat is here and not in a module of its own because ping and
queue share the requests for WRITEABLE: a ping uses up a request that was made for the
queue, and its look at the queue afterwards makes up for it.

| code | model |
|---|---|
| `wsp_send`, `wsp_send_binary`, `enqueue` | `Send` (allocation, may fail), `EnqCheck`, `EnqAppend` (one critical section in two steps), `EnqWake` (`lws_cancel_service`, without the lock) |
| `wsp_client_stop` | `StopBegin`, `StopLook`, `StopFlush` |
| `flush_queue_locked` | `Flush` |
| WAIT_CANCELLED | `WaitCancelled` (reads `stopping` and the state without a lock), `Scan` (looks at the queue) |
| WRITEABLE | `WritePing`, `PingDone`, or `Dequeue`, then `Write` or `WriteFails` |
| TIMER, RECEIVE_PONG | `Tick`, then `OwnTick` (the hook), `AskPing` or `PongTimeout`; `Pong` |
| the rest of the pool | `PoolStart` (the context), `ContextGone` (no thread in `wsp_pool_start`, or `wsp_pool_destroy`), `OtherWake` (`wsp_pool_add`, `wsp_pool_start`, sends and stops of other clients set the same flag) |
| ESTABLISHED, CLOSED | `Established`, `Closed`; a callback that returns -1 ends in `Disconnect` |

`holder` is the owner of `q_lock` where a critical section has two steps; the sections
of one step need the lock to be free. The section of `enqueue` is split because
`wsp_client_stop` writes `stopping` under another mutex, in between. The service
thread is at one place (`at`), and `node` and `more` are the locals of WRITEABLE that
outlive the unlock.

Of its surroundings the module has what `WsLink` has: the context, `up`, the stop and the
cancel request; how they come about is `WsPool`'s matter. lws is external:
`lws_callback_on_writable` sets `writable`, which brings one WRITEABLE on an established
connection; `lws_set_timer_usecs` sets `timer`, which TIMER spends. A message is a model
value with a size. Durations are left out (and with them a `ping_interval_ms` of 0);
`lws_close_reason` has no effect by itself, it only sets the reason, so a stopped client
goes on writing its queue until the flush or until the connection ends. `ContextGone`
takes what is left of the connection along; `wsp_pool_destroy` has stopped the client by then,
so the queue is empty.

`WsFifo` is what the application may rely on: `Put`, `Take`, `Deliver`, `Lose`, `Shut` on a
bounded sequence. Under the mapping `fifo <- queue`, `flight <- node`, `out <- written`,
`shut <- (stop = "done")` `EnqAppend` is `Put`, a `Dequeue` that finds a message `Take`,
`Write` `Deliver`, `WriteFails` `Lose`, `StopFlush` `Shut`; all else stutters.

### Properties

- `FifoSpec`: the client implements `WsFifo`: messages are written in the order in which
  they were accepted, over all threads and reconnects; only the message of a failed write
  and what stop finds queued is lost; nothing is accepted after the flush.
- `CountersExact`: `q_msgs` and `q_bytes` are the length and the total size (`Weight`) of the list.
- `QueueKept`: the limits of `wsp_set_queue_limit` are never exceeded (`LimitsKept`);
  after the flush the queue is empty and no sender is past its test of
  `stopping` (`StoppedEmpty`), because `stopping` is set before the flush takes `q_lock`: a sender
  that did not see it appended before the flush; and a message that was passed to `wsp_send`
  once is in one place at most, and there once (`AtMostOnce`), so none is written twice over any
  number of connections.
- `NoLostWakeup`: on an established connection a queue with messages has a request
  for WRITEABLE, a cancel, or a step in progress that will make one, *except* for a queue
  the connection came up on (`silent`), which ESTABLISHED does not look at.
- Liveness, `BacklogWritten`: without a hook for the heartbeat a message leaves the
  queue of a connection that stays up (through the ping, if nothing else); `SilentPeerClosed`:
  a ping is answered or the connection ends, on every path through TIMER without a hook (a
  hook that handles the tick, `OwnTick`, sends no ping of the library's; `send_safety` has it).
- `TypeOK`, the type invariant; that `msgs` stays a natural number is the part with content.

## 4. What is modelled: `WsClientV1.tla`, `WsClientV2.tla`, `WsBacklog.tla`

The two clients with a context and a service thread of their own, each from `create` to
`destroy` with stops and restarts in between. `main` is the application's main thread, which
calls the life cycle; `Senders` send at any time, also while a stop runs and after it. The
service thread is at one place (`thread`): between two callbacks (`"poll"`), inside
`do_connect`, inside WRITEABLE after a write, at the flush, at its end.

| code | v1 | v2 |
|---|---|---|
| `create`, setters | `Init`, `SetReconnect` | `Init` |
| `start` | `Start`, `Spawn` or `SpawnFails` | the same |
| `stop` | `Stop`, `StopWake`, `Join`, `ContextDestroy` | the same |
| `destroy` | `Destroy` | `Destroy` |
| `enqueue` | `Enqueue` under `q_lock`, `Wake` | the same |
| `service_thread` | `Retry` (the polled `reconnect_at`), `Leave`, `Flush` | `Leave`, `Flush` |
| `do_connect` | `DoConnect` or `DoConnectFails` | the same |
| `schedule_reconnect`, `sul_reconnect_cb` | `ScheduleReconnect`, `Doubled` | `ScheduleReconnect`, `NextDelay`, `GivesUp` (the hook), `SulReconnect` |
| ESTABLISHED, CONNECTION_ERROR, CLOSED | `Established`, `ConnectionError`, `Closed` | the same |
| EVENT_WAIT_CANCELLED | `WaitCancelled` | `WaitCancelled` |
| WRITEABLE | `WritePing`, `PingDone`; `Dequeue`, `Write`, `WriteFails` | `WritePing`, `Dequeue`, `Write`, `WriteFails`, `LookAgain` |
| TIMER, RECEIVE_PONG | `AskPing`, `PongTimeout`; `Pong` | `OwnTick`, `AskPing`, `PongTimeout`; `Pong` |

The two differ where the code does. v1 doubles the delay *after* it has planned a retry and v2
before, so v2 waits twice the initial delay after a connection is lost (ESTABLISHED sets the delay
to the initial one; before any connection it is 0 and the first wait is the initial one); v1 keeps `more` from under the lock, v2
reads `q_head` again without it (`LookAgain`); v1's TIMER sets the timer again, v2's does not;
v1's `wsld_destroy` walks the queue, v2's does not; v2's ESTABLISHED asks for WRITEABLE if
something is queued, v1's does not (`silent`).

A dial may report CONNECTION_ERROR inside `lws_client_connect_via_info` and then return NULL,
so that one failed attempt goes through `schedule_reconnect` twice (`PlansAnew`). Messages are
numbered in the order in which they are accepted. `q_msgs` and `q_bytes` change with the list in
one critical section and are read off it; the byte limit is a refusal that may happen at any time.
Delays are numbers, time is not: a retry that is planned happens some time, a timer that is set
fires some time. Assumed of lws: destroying the context detaches a scheduled `sul`, ends every
connection with its CLOSED or without, and delivers EVENT_WAIT_CANCELLED to the protocol callback,
which then uses `c->wsi` and not the `wsi` it is given.

Properties. `ConnectionKept`: `c->wsi` is exactly the connection lws has (`WsiExact`), and a running
client without one has a retry planned (`NotAbandoned`), in v2 unless the hook gave up, and then neither
timer nor connection nor dial is left (`BreakerHolds`). `NoLostWakeup` as for the pool.
`NothingLeft` (v1): after stop no thread, connection or context, after destroy no message.
`Backoff` (v1) compares each wait with the one before (`last`, a history variable that knows nothing
of `reconnect_delay_ms`): the first behind a connection or `wsld_set_reconnect` is init, each further failure doubles the wait
before it, up to max, and only a dial that fails inside `lws_client_connect_via_info` doubles twice, which
the header does not say (section 7). `HeartbeatGoesOn` (v2): an established connection has its timer
set, a ping asked for together with its WRITEABLE, or waits for a PONG. `LeaksOnlyLate` (v2):
`wsl_destroy` leaks at most what was accepted after the last flush. `BacklogSpec` (both): the client
implements `WsBacklog`, see below. Liveness: `StopReturns` and
`SilentPeerClosed` (v1), `BacklogWritten` (v2).

`WsBacklog` is what either client promises of its queue over starts, stops and reconnects, with the messages
numbered as they are accepted: `Accept` (within the limit), `Take` of the oldest, `Settle` (written, or lost with its
connection) and `DropAll`, which loses *all* that is queued and never happens while a message is being written. Two
consequences are stated with it: `Gapless`, what waits is exactly what was accepted last, and `InOrder`, what
is taken is the next message after all that ever left. The two clients reach `DropAll` in different places (v1 in the flush at the
thread's end and in `wsld_destroy`, v2 in the flush only) and accept messages at any time, also while they are stopped.

## 5. What is modelled: `WsReceive.tla`

RECEIVE, which exists four times: v1, v2, the pool, the server (`kind`). A peer sends messages in
frames, and lws hands over chunks with three facts about each: first of its message, final, and
more of its frame to come. `Chunk` is the peer, `ReceiveV1`, `ReceiveV2`, `ReceivePool`, `ReceiveServer`
are the four handlers, `AppendFails` the append that finds no memory. Connections break anywhere
(`Closed`, `SessionClosed`) and come again; `Start`, `StopClient`, `StopServer` are the ends of the
context. Payloads are sequences of chunk numbers, so order, loss and mixing show. `PrepareEcho` and
`EchoWritten` are the server's echo. Whether lws reports "final" of a chunk that is not the last
of the final frame, the sources do not tell: v1 and the pool test for it, v2 and the server rely on
its not happening. `early` says whether it happens, and the properties of v2 and the server are
claimed for `~early` only.

Properties. `DeliversWhole` (v1, pool): `rx_cb` is called exactly when a message is complete, with
exactly its bytes, whatever was broken off before. `V2DeliversWhole`: so does v2, but for empty
messages in fragments and *unless* the buffer holds the rest of a message that was broken off
(`stale`). `ServerEchoesLatest`: the server hands over whole messages, and the one echo buffer holds
the latest message of this session with WRITEABLE asked for.

## 6. What is modelled: `TtsSynthesis.tla`

`examples/xfyun_tts.c`, the application in the repository with a protocol of its own: `main` sends one
request through a client of the pool and waits on a condition variable, with a deadline of 30 s,
for `on_tts_message` on the service thread to set `done`. Of the pool it uses what `WsPool` and
`WsSendPath` establish: the request leaves the queue at most once, callbacks come one at a time,
`wsp_pool_destroy` joins the thread and returns.

| code | model |
|---|---|
| `main` up to `wsp_pool_start` | `Setup` or `SetupFails` |
| the request | `SendRequest`, `SkipsWait` (all three `goto cleanup`) |
| the wait | `Wait` (test and sleep or read, under the lock), `Spurious`, `TimedOut`, `ReadResult` |
| cleanup | `CloseFile`, `DestroyPool`, `Exit` |
| `on_tts_message` | `Message`, `WriteAudio`, `Status`; `ErrorMessage`, `ApiError` |
| `on_signal` | `OnSignal` |

The file is written and `total_bytes` counted without `ctx.lock`, in a step of its own. Nobody looks at
the results of `fwrite` and `fclose`: a write may fail although it is counted, and what is buffered may be lost at
the close (`content`, what the file holds; `cut`, such a failure). A `wsp_pool_start` that fails runs into the
double destruction of section 7, which the program may not survive (`"aborted"`).
`goto cleanup` jumps over the initialisation of `done` and `err`: `outcome` stays `"unset"` and `Exit`
returns anything. `dropped` counts audio that the code gives up for want of memory or because it does
not decode; nobody is told. A frame's bytes are one unit; signing, base64 and JSON are left to what
they yield.

Properties. `SuccessMeansWhole`: a program that waited and returned 0 has had the last frame, every
audio frame was handed to `fwrite` or is among the dropped, the number it reported is that of the frames handed over,
and none was after `fclose`, which comes before `wsp_pool_destroy`. The file never holds more than
that number, and as much only if no write failed, which the program does not ask: exit status 0 does not mean that the audio is on the disk. (After a deadline, a signal or
an error the callback does write to the closed file.) `NoLostSignal`: the main thread never sleeps with `done`
set. `Exits`: it ends, if need be at the deadline; a signal by itself does not wake it.

## 7. Runs

| run | instance | result |
|---|---|---|
| `pool_safety` | 2 clients (one with a hook), 2 threads, 2 addresses, capacity 3 | passes; about 880 000 distinct states |
| `pool_liveness` | 1 client with a hook, 2 threads, 1 address | passes; about 7 300 states |
| `send_safety` | 2 senders, 3 messages (sizes 1, 1, 3), limits 2 messages and 3 bytes, with a heartbeat hook | passes; about 333 000 states |
| `send_liveness` | 2 senders, 2 messages (1, 3), limits 2 and 4, no hook | passes; about 43 000 states |
| `send_after_reconnect` | 1 sender, 2 messages, with a hook | `SentAfterReconnect` is violated |
| `pool_no_reconnect` | as `pool_safety` | `NoReconnect` is violated |
| `pool_destroyed_once` | as `pool_safety` | `DestroyedOnce` is violated |
| `v1_client` | 2 senders, 2 addresses, 2 messages, limit 2, delays 1 to 5, 2 starts | passes; about 51 000 states |
| `v2_client` | 1 sender, 2 addresses, 2 messages, limit 2, delays 1 to 3, hook gives up after 2, 2 starts | passes; about 41 000 states |
| `v2_silent_peer` | 1 message, 1 start, no heartbeat hook | `SilentPeerClosed` is violated |
| `receive` | 6 chunks, all four receivers, both meanings of "final" | passes; about 16 000 states |
| `tts` | an answer of 3 frames, 2 connections | passes; about 33 000 states |

**Bounds of `WsPool`.** Two clients are enough for one to be stopped or added while the service
thread handles the other, and for arrays with something left in them. Two threads:
`Main`, which may be anywhere in start or destroy, and one that adds or stops at the
same time. Two addresses are what a double connection of one client needs, and also
let both clients be connected and an address be reused; lws could use more, but a
third connection would need a client with two, which `ConnectionKept` excludes.
Capacity 3 makes `RoomInPool` refuse the second client while the first is still
pending and accept it afterwards. Nothing else in the model grows. The proofs below
do not depend on any of these bounds. Liveness is checked with one client: fairness
is stated per client and per thread, and no step of one client waits for another,
except in the loops over `batch` and `scan`, which are finite. Deadlock is checked in
all runs: when `wsp_pool_destroy` has returned the model stutters (`Finished`).

**Bounds of `WsSendPath`.** Each message is sent once, so the number of messages bounds the
model. Two senders contend for the lock while one of them is between check and append; three
messages leave one to be dequeued, one that stays, and one that is refused; with sizes 1, 1, 3
and limits 2 and 3 each limit refuses a message that the other admits, and each is met exactly.
Connections, cancels, pings and timers are unbounded in number. Liveness needs only a message
behind another.

**Bounds of the clients.** Two starts let a restart find what a stop left; two addresses
a connection that is opened while an old pointer is still around; two messages one in flight and one behind it, and a
limit that refuses; delays 1, 2, 4, 5 (v1) and 1, 2, 3 (v2) doublings that fit, one or two at a time, and one that the maximum cuts, and from
two failures on the hook of v2 gives up. v2 has one sender: sends are single steps, and what two of them could add to one is a
second `Wake`; the reads of `q_head` race with any of them. Connections, failures, pings are unbounded.

**Bounds of `WsReceive` and `TtsSynthesis`.** Six chunks are a message of three broken off or not, a
connection in between, and another of three; the proof is for any number. Three frames are a first, a middle
and a last one, two connections one that breaks with the answer under way. Deadlock is not checked in these four: a client
may be destroyed, chunks used up, the program ended.

**Fairness of `WsPool`** (`FairSpec`). A call in progress goes on (weak fairness of its steps;
no fairness for making a call); the wait of `wsp_client_stop` has a time-out, so
`StopWait` is always enabled and the run shows that stop returns *without* any help
of lws. The service thread's own code goes on. Inside `lws_service` three things are
assumed, with strong fairness because events keep interrupting: it returns again and
again (`SERVICE_POLL_MS`; lws returns after each poll), a cancel request is served,
and a due timer fires. Nothing is assumed of connections: they need not open,
establish, fail or close.

**Fairness of `WsSendPath`** (`FairSpec`). A begun `enqueue` and a begun callback end (weak
fairness); lws makes a callback that is due, a served cancel, a WRITEABLE, a TIMER, although
others keep interrupting (strong fairness). For TIMER this assumes that the peer does not push
the timer away for ever with PONGs nobody asked for. Nothing obliges anybody to send, to stop, to
answer a ping or to keep a connection up.

**Fairness of the clients** (`FairSpec`). A function that was entered goes on (weak fairness); between
callbacks the loop gets its turn and lws makes the callbacks that are due, though others interrupt (strong fairness
of `Leave`, `Retry` or `SulReconnect`, WAIT_CANCELLED, WRITEABLE, TIMER). v2 needs in addition that lws resolves an
attempt to connect. Nobody need send, stop, answer or connect.

**Fairness of `TtsSynthesis`.** Both threads run, the deadline passes, and the service thread notices the end of the pool
although messages keep coming (`DestroyReturns` of `WsPool`). The server owes nothing.

### What the violations show

- `pool_no_reconnect`: `ws_pool.h:117` promises that a stopped client does not
  connect any more. A client that is stopped while pending is taken by WAIT_CANCELLED
  and passed to `do_connect` without a look at `stopping`; `wsp_client_stop` has
  returned at once, since `wsi` was NULL. The connection stays until some later
  WAIT_CANCELLED asks it to close. `StoppedNotRedialled` is what does hold: only this
  window and an attempt already begun are open.
- `pool_destroyed_once`: the comment at `ws_pool.c:573` takes what is in `pending`
  for clients not yet added; `wsp_pool_add` puts every client into both arrays. A pool
  destroyed before its thread took the pending clients (for example after a failed
  `wsp_pool_start`, as in `examples/pool_basic.c:86-88`) destroys them twice.
- `v2_silent_peer`: `ws_client_v2.h:23` says that a TIMER which finds `ping_pending` closes the connection.
  TIMER does not set the timer again when it asks for a ping, and only a PONG does: after an unanswered ping
  there is no further TIMER, and `pong_timeout_ms` is never used. `HeartbeatGoesOn` is what does hold.
- `send_after_reconnect`: `docs/wsp_pool_architecture.md:679` promises that messages sent while
  the connection is down are sent after the reconnect. The cancel of such a send finds the client
  not connected, and ESTABLISHED makes no request for the backlog (`ws_client_v2.c:256-258` does).
  What writes it is the next send or the look at the queue that follows the library's own ping; with
  an `on_heartbeat_tick` hook that handles every tick there is no such ping and the backlog stays
  for as long as the connection. `BacklogWritten` is what holds without the hook: the backlog waits
  for a ping.

### What the documentation says otherwise, without a run

- `ws_pool.h:109`: `wsp_pool_add` refuses when the pool is full. `ws_pool.c:683` adds `n_clients` and `n_pending`, so a
  client that was not yet taken counts twice (`RoomInPool`), and an idle pool holds half of `WSP_MAX_CLIENTS`.
- `ws_client_v2.h:27`: a message in fragments is called back as a whole. The buffer is not emptied by a first fragment or a
  lost connection, so the rest of a message that was broken off comes in front of the next; `V2DeliversWhole` excepts exactly
  that (`stale`), and its run reaches it.
- `ws_client_v2.h:168`: `wsl_destroy` frees all memory. A message accepted after the thread's flush is not freed;
  `LeaksOnlyLate` says that nothing else is left.
- `ws_pool.h:107`: `wsp_pool_add` is thread-safe, and `ws_pool.h:109`: it refuses a client that belongs to a pool. The test
  (`ws_pool.c:679`) is made without the lock, so two threads that add the *same* client at once may both pass it; the client is then
  registered twice and dialled twice. The model excludes that call pattern (section 2): `ConnectionKept` says nothing of it.
- `ws_client.h:9, 64`: v1 waits 1 s first and doubles after each failure. An attempt that reports CONNECTION_ERROR inside
  `lws_client_connect_via_info`, which then returns NULL, goes through `schedule_reconnect` twice (`ws_client.c:275, 337`): one failure, two doublings, and
  a first wait of 2 s if it is the first. `Backoff` excepts exactly that (`CountedTwice`), and its run reaches it.
- `xfyun_tts.c:448`: "Success! Wrote N bytes". N counts what was handed to `fwrite`, whose result is ignored (`xfyun_tts.c:306-307`), as is that of
  `fclose`; `SuccessMeansWhole` claims the file only where neither failed, and its run reaches an exit status of 0 with a file that is short.
- `ws_pool.h:80`, and the same in v2: the first wait after a lost connection is twice `init`, for the delay is doubled before use.
- `ws_server.h:8`: every message is echoed. A second one before WRITEABLE replaces the first (`PrepareEcho`).

## 8. Proofs

### `WsPoolInv.tla`, `WsPoolProofs.tla`

`WsPoolProofs` proves with TLAPS, for **every** finite set of clients, every set of
threads and addresses, and every capacity, that `Spec` implies `[]` of each safety
property of `pool_safety`, the action property `StoppedNotRedialled`, and that the pool
implements `WsLink`. The assumptions are `MainAssumption` (`Main` is a thread), `NilAssumption` (NULL is neither
a client nor an address) and, for the type of cardinalities, `SizeAssumption`.

None of the properties is inductive alone. `IInv` joins them with

- `HandsOK`, what the service thread holds: a client exactly while it handles one, a
  dying wsi only of that client, arrays only inside WAIT_CANCELLED;
- `DriversOK`, which of the things that can move a client exclude each other: a client
  that is pending or in `batch` has neither timer nor connection, and a client with
  both a timer and a connection is one whose connection is just being destroyed. This is
  why `do_connect` finds no live connection, and `OneConnection` follows;
- `MainOK`, where start and destroy are against the service thread and the context:
  after the join no callback runs, after the context nothing is scheduled. This gives
  `ReleasedUntouched`;
- `StopOK`, who may be inside a stop and what it has established: a waiting stop found
  a connection, so its client is neither pending nor being dialled and only the callbacks
  that clear `wsi` can set `stopped` under it. This gives `SignalMeansDown`.

`NextInv` has one lemma per action (`AddInv`, `StopLookInv`, ...), and under each one step
per conjunct of `IInv` that the action disturbs. `Invariance` combines `InitInv` and
`NextInv`; the other theorems are corollaries. `StoppedStaysUndialled` is proved
action by action from `IInv`.

On top of `IInv` sits a second layer, `LinkInv`, inductive relative to it (`LinkInvariance`):
`WsiExact`, and `CtxOK`, that `wsp_pool_start` has a context from its first step to its last.
`ConnectionsKept` is a corollary. The refinement of `WsLink` (`LinkOfClient` for one client,
`LinksKept` for all at once) is proved action by action under both layers: `SameUp` and `SameStop`
name what leaves the two derived variables alone, so an action that touches none of it
stutters by `LinkQuiet`; the others have a lemma each (`AddLink`, `BeginLink`, `StopLookLink`,
`StopRestLink`, `StartLink`, `DestroyContextLink`, `EstablishedLink`, `ClosedLink`, ...). Where the
invariant enters: `EstablishedLink` and `ClosedLink` need `OneConnection`, else the client could
still be up; `StopLookLink` needs `WsiExact`, else a stop could find NULL although the client is up and leave
no cancel; `DestroyContextLink` needs that every client was stopped and no stop is in progress
(`StopOK`); `StartLink` needs `CtxOK`.

### `WsSendPathProofs.tla`

For **every** set of senders and messages, all sizes and both limits (0, for none, included)
`Spec` implies `[]` of `TypeOK`, `CountersExact`, `QueueKept` and `NoLostWakeup`, and implements `WsFifo`
(`ImplementsFifo`). The assumptions are `SizesAssumption`, `LimitsAssumption` (natural numbers) and
`NoneAssumption` (NULL is no message and no sender). The inductive invariant adds

- `CountersExact` itself; the limits are tested on the counters and claimed of the list;
- `LockOK`: `q_lock` is held exactly by the sender between check and append; while it is, the room it
  found is still there (only it may append) and the flush has not happened. `QueueKept` and
  the step from `EnqAppend` to `Put` rest on it;
- `PlacesOK`: a message is in flight exactly inside WRITEABLE, a callback in progress has its connection,
  `stopping` is what `StopBegin` left.
  The step from `Dequeue` to `Take` needs the former.

Each action has a lemma with one step per conjunct it may disturb (`SendInv`, `EnqCheckInv`, ...);
`NextInv` combines them, the `Fifo...` lemmas map the steps.

`Weight` is a recursive function over the list, so its value for a list of any length is a matter of
induction. The library's induction theorems take an operator, which the provers cannot instantiate;
`WsInduction` states induction about *sets* instead (`LeastElement`, from the well-foundedness of `<`;
`NatInductionOnSets`, `BoundedInduction`). With it `SumsExist` and `SumsUnique` show that the function `Weight` defines exists and
is the only one, `WeightEmpty`, `WeightAppend` and `WeightTail` what the flush, enqueue and WRITEABLE do to it.

`WrittenOnce` needs a second layer, `OnceInv`: whatever is queued, taken or written was offered, and what a
sender brings is offered, nowhere yet, and brought by no other sender. `ContainsAppend` and `ContainsTail` are the facts about sequences.

### `WsClientV1Proofs.tla`, `WsClientV2Proofs.tla`, `WsBacklogProofs.tla`

For every set of senders and addresses, all limits and delays (`0 < InitDelay <= MaxDelay`), any bound on
starts and messages, and any hook of the modelled kind: `TypeOK`, `ConnectionKept`, `NoLostWakeup`, for v1 `NothingLeft` and the action property
`Backoff`, for v2 `HeartbeatGoesOn` and `LeaksOnlyLate`. The invariant adds `LifeOK`, the places of the two threads against each other and
the context (a service thread exists exactly between its creation and the join), and `LinkOK`, which ties the connection to the client's state:
a dial, a start and a planned retry find no connection, WRITEABLE works on one. `ConnectionKept` needs the latter: it is
why a second dial never happens beside a live connection. v2 adds `QueueOK`, every queued message is younger than the last flush.
`V1Backoff` rests on a layer of its own, `RetryOK`: `reconnect_delay_ms` is always the wait that is due after the one planned last
(`RetryStep`, action by action), and a retry is planned only where there is neither a connection nor a dial, so every plan changes `wait`.

`BacklogOrder` proves `Gapless` and `InOrder` of `WsBacklog`, once and from the abstract steps alone: `Gapless` is inductive, and `InOrder` follows
from it step by step. `V1Backlog` and `V2Backlog` show that the clients implement `WsBacklog`; the invariant is needed where a message is taken (nothing is in
flight then) and where the queue is emptied (the service thread is not inside WRITEABLE). `V1InOrder` and `V2InOrder` put the two together: no message
is taken twice, overtaken or skipped.

### `WsReceiveProofs.tla`

For any number of chunks: `TypeOK`, `DeliversWhole`, `ServerEchoesLatest` and the action property `V2DeliversWhole`. The invariant
adds `BufferExact`, the buffer is exactly what has come of the message in progress (for v2 only if nothing stale is in it), and `PlacesOK`.

### `TtsSynthesisProofs.tla`

For any length of the answer and any number of connections: `TypeOK`, `SuccessMeansWhole`, `NoLostSignal`. The invariant adds `Tally` (audio that came is
handed to `fwrite`, dropped or in the callback's hands), `DiskOK` (the file holds what was counted, but for failed writes), `EndSeen` (without an error `done` means that the answer has been worked off, because `done` is set
after the write), `FileOK` and `OutcomeOK` (what `main` read under the lock stays true after it).

### Only model-checked

The liveness properties (they need fairness and ENABLED), and the violations, which are statements about particular behaviours. Every other property
of a passing run is also proved.

## 9. Not modelled, and what is left

- The other setters: plain stores made before the object is shared; their values are constants. `wss_destroy`, `next_id`.
- The delays of the pool (`schedule_reconnect` of `ws_pool.c` is in `WsPool` without them), and any measured time: whether a peer has
  `pong_timeout_ms` to answer depends on how long a WRITEABLE is held up (`ws_pool.c:390`).
- Several clients of one pool sending at once: their queues share nothing but the cancel request, which `OtherWake` has others set, and
  `LinkOfClient` is proved for each; the two modules are not composed state by state.
- Stopping and destroying one client of a running pool as in `docs/wsp_pool_architecture.md:754-755`, two threads that stop one client,
  a stop from a callback, two threads that add one client at once, a send that races the destruction of the context, an add that races the
  destruction of the context by a `wsp_pool_start` that fails (`ws_pool.c:525-526`): outside the discipline the headers ask for. What follows is
  undefined behaviour.
- Notifying callbacks (`conn_cb`, `on_message` but for what it is told), handshake headers, TLS options, logging.
- The other examples. `asr_multi_session.c` counts the sessions that started and then uses `sessions[0..count)`: if one fails, the last is never
  stopped. A model of it would be a single sequential loop.
- Build files and documents; the latter are the source of the claims above.

## 10. Files

| component | specification | inductive invariant and proofs | for TLC |
|---|---|---|---|
| pool life cycle | `WsPool.tla`, abstract `WsLink.tla` | `WsPoolInv.tla`, `WsPoolProofs.tla` | `MCWsPool.tla`, `Pool*.cfg` |
| send path, heartbeat | `WsSendPath.tla`, abstract `WsFifo.tla` | `WsSendPathProofs.tla`, with `WsInduction.tla` | `MCWsSendPath.tla`, `Send*.cfg` |
| v1 client | `WsClientV1.tla`, abstract `WsBacklog.tla` | `WsClientV1Proofs.tla`, with `WsBacklogProofs.tla` | `MCWsClientV1.tla`, `V1Client.cfg` |
| v2 client | `WsClientV2.tla`, abstract `WsBacklog.tla` | `WsClientV2Proofs.tla`, with `WsBacklogProofs.tla` | `MCWsClientV2.tla`, `V2*.cfg` |
| reassembly, echo | `WsReceive.tla` | `WsReceiveProofs.tla` | `MCWsReceive.tla`, `Receive.cfg` |
| TTS example | `TtsSynthesis.tla` | `TtsSynthesisProofs.tla` | `MCTtsSynthesis.tla`, `Tts.cfg` |

`PROJECT.json` is the machine-readable index: components, runs, mutants, map to the source,
findings, hazards, theorems.
