----------------------------- MODULE WsPoolInv ------------------------------
(***************************************************************************)
(* The inductive invariant behind the safety properties of WsPool.  None   *)
(* of them is inductive alone: that do_connect finds no live connection    *)
(* rests on which of the five things that can move a client (pending,      *)
(* batch, the service thread's hands, its timer, its connection) exclude   *)
(* each other, and those on where the other threads are in their calls.    *)
(***************************************************************************)
EXTENDS WsPool

Busy    == {"connect", "null", "sched", "arm", "wsiDestroy"}
Ended   == {"free", "freePending", "gone"}
Stops(t) == apc[t] \notin {"idle", "addWake"}

\* What the service thread holds: a client exactly while it handles one, a dying
\* wsi only of that client, and the arrays only inside WAIT_CANCELLED.
HandsOK ==
  /\ cur # Nil <=> spc \in Busy
  /\ curw # Nil => /\ spc \in {"sched", "arm", "wsiDestroy"}
                   /\ owner[curw] = cur
                   /\ wsi[cur] = Nil
  /\ spc \in Busy /\ curw = Nil => ~Live(cur)
  /\ mode # "event" => spc \in Busy
  /\ spc \in {"connect", "null"} => mode # "event"
  /\ batch # {} => spc = "batch" \/ mode = "cancelled"
  /\ scan # {} => spc = "scan"
  /\ \A w \in up : owner[w] # Nil

\* What moves a client, and what cannot move it at the same time.
DriversOK ==
  /\ pending \subseteq clients /\ batch \subseteq clients /\ scan \subseteq clients
  /\ cur # Nil => cur \in clients
  /\ spc = "connect" => ~sul[cur]
  /\ \A c \in Clients :
       /\ c \in pending => c \notin batch /\ cur # c /\ ~sul[c] /\ ~Live(c)
       /\ c \in batch => cur # c /\ ~sul[c] /\ ~Live(c)
       /\ c \notin clients => ~sul[c] /\ ~Live(c)
       /\ sul[c] /\ Live(c) => cur = c /\ curw # Nil

\* Main's progress against the service thread, the context and the releases.
MainOK ==
  /\ mpc \in {"new", "context"} => spc = "off"
  /\ mpc = "context" => ctx
  /\ mpc \in {"teardown"} \cup Ended => spc \in {"off", "done"}
  /\ spc \notin {"off", "done"} => ctx
  /\ spc = "off" \/ ~ctx => \A c \in Clients : ~sul[c] /\ ~Live(c)
  /\ mpc \in Ended => ~ctx
  /\ \A c \in clients : released[c] > 0 => mpc \in Ended

\* The stop calls: a thread inside one has set stopping, alone for its client,
\* and one that waits found a connection, so nothing dials that client any
\* more; wsp_pool_destroy has been through every client before it joins.
StopOK ==
  /\ \A t \in Threads : Stops(t) => stopping[arg[t]] /\ arg[t] \in clients
  /\ \A t, u \in Threads : Stops(t) /\ Stops(u) /\ arg[t] = arg[u] => t = u
  /\ \A t \in Threads : apc[t] = "stopWait" =>
       arg[t] \notin pending \cup batch /\ ~Dialling(arg[t])
  /\ \A t \in Threads :
       apc[t] \in {"stopSul", "stopLook", "stopWait"} /\ stopped[arg[t]] =>
         /\ arg[t] \notin pending \cup batch
         /\ ~(cur = arg[t] /\ spc = "connect")
         /\ wsi[arg[t]] = Nil
         /\ \A w \in Wsis : owner[w] = arg[t] => w = curw
  /\ mpc \in DestroyPcs => \A t \in Threads \ {Main} : apc[t] = "idle"
  /\ mpc \in DestroyPcs \ {"stopping"} => apc[Main] = "idle"
  /\ \A c \in Clients : stopped[c] => stopping[c]
  /\ mpc = "stopping" => todo \subseteq clients /\ \A c \in clients \ todo : stopping[c]
  /\ mpc \in DestroyPcs \ {"stopping"} => \A c \in clients : stopping[c]
  /\ spc = "wsiDestroy" => sul[cur] \/ stopping[cur] \/ state[cur] = "stopped"

\* Half of WsiExact: what c->wsi points to is a live connection of the client.
NoDanglingWsi ==
  \A c \in Clients : wsi[c] # Nil => owner[wsi[c]] = c

IInv ==
  /\ TypeOK /\ HandsOK /\ DriversOK /\ MainOK /\ StopOK
  /\ OneConnection /\ NoDanglingWsi /\ NotAbandoned /\ PendingNotLost
  /\ StopRequestNotLost /\ SignalMeansDown /\ ReleasedUntouched

\* The second layer, which WsLink needs besides IInv: c->wsi misses no connection,
\* and wsp_pool_start has a context from its first step to its last.
CtxOK ==
  /\ mpc = "new" => ~ctx
  /\ mpc \in {"context", "started", "waking"} => ctx

LinkInv == WsiExact /\ CtxOK
=============================================================================
