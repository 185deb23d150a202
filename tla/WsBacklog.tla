------------------------------ MODULE WsBacklog -----------------------------
(***************************************************************************)
(* What the queues of the v1 and v2 clients promise the application, over  *)
(* starts, stops and reconnects: messages, numbered as they are accepted,  *)
(* are taken one at a time, each at most once, in that order and without a *)
(* gap; only the end of a service thread or the client's own drops some,   *)
(* and it drops all that are queued.                                       *)
(***************************************************************************)
EXTENDS Naturals, Sequences

CONSTANTS
  MaxMsgs     \* the limit on the number of queued messages, 0 for none

VARIABLES
  sent,       \* the number of messages accepted
  queue,      \* the numbers of those that wait
  node        \* the one that is being written, 0 for none

backlogVars == <<sent, queue, node>>

Init == sent = 0 /\ queue = <<>> /\ node = 0

Accept ==
  /\ MaxMsgs = 0 \/ Len(queue) < MaxMsgs
  /\ sent' = sent + 1
  /\ queue' = Append(queue, sent')
  /\ UNCHANGED node

Take ==
  /\ node = 0 /\ queue # <<>>
  /\ node' = Head(queue)
  /\ queue' = Tail(queue)
  /\ UNCHANGED sent

\* Written, or lost with its connection.
Settle ==
  /\ node # 0
  /\ node' = 0
  /\ UNCHANGED <<sent, queue>>

\* Never beside a write.
DropAll ==
  /\ node = 0
  /\ queue' = <<>>
  /\ UNCHANGED <<sent, node>>

Next == Accept \/ Take \/ Settle \/ DropAll

Spec == Init /\ [][Next]_backlogVars
-----------------------------------------------------------------------------
\* How many messages have left the queue.
Left == sent - Len(queue)

\* What waits is exactly what was accepted last, in order and without a gap, and
\* what is being written was accepted before all of it.
Gapless ==
  /\ Len(queue) <= sent
  /\ \A i \in 1..Len(queue) : queue[i] = Left + i
  /\ node <= Left

\* What is taken is the next message after all that ever left, so none is taken
\* twice and none is overtaken; what has left never comes back.
InOrder ==
  [][/\ Left <= Left'
     /\ node' \notin {0, node} => node' = Left + 1 /\ Left' = Left + 1]_backlogVars
=============================================================================
