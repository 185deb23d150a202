------------------------------- MODULE WsFifo -------------------------------
(***************************************************************************)
(* What the send queue of a client promises its application: a bounded     *)
(* queue that one reader empties in order.  A message that was taken is    *)
(* written or, when the connection fails at that moment, lost; all others  *)
(* stay until they are taken or the client is stopped, after which none is *)
(* accepted.  Connections, wakeups, pings and locks are not visible here.  *)
(***************************************************************************)
EXTENDS Naturals, Sequences

CONSTANTS
  Messages,   \* what the application may send
  MaxMsgs,    \* the limit on the number of queued messages, 0 for none
  None        \* no message

VARIABLES
  fifo,       \* accepted, not yet taken
  flight,     \* taken by the reader, not yet written
  out,        \* written to a connection, in this order
  shut        \* the client was stopped

fifoVars == <<fifo, flight, out, shut>>

Init == fifo = <<>> /\ flight = None /\ out = <<>> /\ shut = FALSE

Put(m) ==
  /\ ~shut
  /\ MaxMsgs = 0 \/ Len(fifo) < MaxMsgs
  /\ fifo' = Append(fifo, m)
  /\ UNCHANGED <<flight, out, shut>>

Take ==
  /\ flight = None
  /\ fifo # <<>>
  /\ flight' = Head(fifo)
  /\ fifo' = Tail(fifo)
  /\ UNCHANGED <<out, shut>>

Deliver ==
  /\ flight # None
  /\ out' = Append(out, flight)
  /\ flight' = None
  /\ UNCHANGED <<fifo, shut>>

Lose ==
  /\ flight # None
  /\ flight' = None
  /\ UNCHANGED <<fifo, out, shut>>

Shut ==
  /\ fifo' = <<>>
  /\ shut' = TRUE
  /\ UNCHANGED <<flight, out>>

Next == (\E m \in Messages : Put(m)) \/ Take \/ Deliver \/ Lose \/ Shut

Spec == Init /\ [][Next]_fifoVars
=============================================================================
