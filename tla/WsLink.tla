------------------------------- MODULE WsLink -------------------------------
(***************************************************************************)
(* What a pool and the send path of one of its clients share: the context, *)
(* whether the client has an established connection, how far the call of   *)
(* wsp_client_stop is that counts, and the request that the whole pool has *)
(* in common.  WsSendPath takes its connection from here; WsPool is shown  *)
(* to implement this for every client, so that it promises what the send   *)
(* path relies on.                                                         *)
(***************************************************************************)

VARIABLES
  ctx,        \* pool->ctx is set
  up,         \* the client has an established connection
  stop,       \* the stop: not called, begun, waiting for the connection, done
  cancel      \* lws_cancel_service was called and not yet reported

linkage == <<ctx, up, stop, cancel>>

Init == ctx = FALSE /\ up = FALSE /\ stop = "no" /\ cancel = FALSE

\* wsp_pool_start makes the context.
Open == ~ctx /\ ctx' = TRUE /\ UNCHANGED <<up, stop, cancel>>

\* The context goes, and with it what was asked for: wsp_pool_start found no thread,
\* or wsp_pool_destroy has stopped whoever is still connected.
Close ==
  /\ ctx
  /\ up => stop = "done"
  /\ ctx' = FALSE /\ up' = FALSE /\ cancel' = FALSE
  /\ UNCHANGED stop

Up   == ctx /\ ~up /\ up' = TRUE /\ UNCHANGED <<ctx, stop, cancel>>
Down == up /\ up' = FALSE /\ UNCHANGED <<ctx, stop, cancel>>

StopBegins == stop = "no" /\ stop' = "begun" /\ UNCHANGED <<ctx, up, cancel>>

\* With a connection, up or still on its way, the service thread is woken.
StopLooks ==
  /\ stop = "begun"
  /\ stop' = "waiting"
  /\ cancel' \in {cancel, TRUE} /\ (up => cancel')
  /\ UNCHANGED <<ctx, up>>

\* By the signal, which means that the connection is gone, or by the timeout.
StopReturns == stop = "waiting" /\ stop' = "done" /\ UNCHANGED <<ctx, up, cancel>>

\* lws_cancel_service ignores a NULL context; WAIT_CANCELLED drains the request.
Wake  == cancel' = (cancel \/ ctx) /\ UNCHANGED <<ctx, up, stop>>
Serve == cancel /\ cancel' = FALSE /\ UNCHANGED <<ctx, up, stop>>

Next == \/ Open \/ Close \/ Up \/ Down
        \/ StopBegins \/ StopLooks \/ StopReturns \/ Wake \/ Serve

Spec == Init /\ [][Next]_linkage
=============================================================================
