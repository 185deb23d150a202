------------------------------ MODULE WsReceive ------------------------------
(***************************************************************************)
(* Receiving: how the two clients, a client of the pool and a session of   *)
(* the echo server put a fragmented message together again.                *)
(*                                                                         *)
(* A message comes as frames, and lws hands a frame over in chunks, each   *)
(* with three facts: is it the first of its message, does its frame end    *)
(* the message, is more of the frame to come.  Whether lws says "final" of *)
(* a chunk that is not the last of the final frame the code does not tell  *)
(* (v1 and the pool test for it, v2 and the server do not), so early is    *)
(* either.  A connection may break anywhere and be followed by another.    *)
(* Chunks are numbered; a payload is the sequence of its chunks' numbers.  *)
(***************************************************************************)
EXTENDS Naturals, Sequences

CONSTANT MaxChunks   \* bound: chunks received
ASSUME BoundAssumption == MaxChunks \in Nat

VARIABLES
  kind,     \* whose callback: "v1", "v2", "pool" or "server"
  early,    \* lws_is_final_fragment holds before the frame is complete
  running,  \* the context exists, its service thread runs
  open,     \* a connection, or the server's session, is established
  buf,      \* frag_buf[0 .. frag_len)
  echo,     \* the server's echo_buf as <<payload>>, <<>> for NULL
  asked,    \* the server called lws_callback_on_writable, WRITEABLE is due
  \* the peer
  count,    \* chunks sent
  begun,    \* it is in the middle of a message,
  inFrame,  \* of a frame,
  fin,      \* and that frame is the last of the message
  sofar,    \* what it has sent of the message
  \* history of the last step
  whole,    \* the message it completed, as <<payload>>, <<>> for none
  calls,    \* what rx_cb was called with
  hooked,   \* what on_message was called with
  \* history
  stale,    \* buf holds the rest of a message that was broken off
  last      \* the last payload of this session, as <<payload>>

peerVars == <<count, begun, inFrame, fin, sofar>>
echoVars == <<echo, asked, last>>
callVars == <<whole, calls, hooked>>
vars == <<kind, early, running, open, buf, stale, peerVars, echoVars, callVars>>

Payload == Seq(1..MaxChunks)
FlagsTyped ==
  /\ kind \in {"v1", "v2", "pool", "server"} /\ early \in BOOLEAN
  /\ running \in BOOLEAN /\ open \in BOOLEAN /\ asked \in BOOLEAN /\ stale \in BOOLEAN
  /\ begun \in BOOLEAN /\ inFrame \in BOOLEAN /\ fin \in BOOLEAN
PayloadsTyped ==
  /\ count \in 0..MaxChunks /\ buf \in Payload /\ sofar \in Payload
  /\ {echo, last, whole, calls, hooked} \subseteq Seq(Payload)
TypeOK ==
  /\ FlagsTyped /\ PayloadsTyped
  /\ asked \/ echo # <<>> => open
  /\ open => running

Init ==
  /\ kind \in {"v1", "v2", "pool", "server"} /\ early \in BOOLEAN
  /\ running = FALSE /\ open = FALSE /\ buf = <<>> /\ stale = FALSE
  /\ echo = <<>> /\ asked = FALSE /\ last = <<>>
  /\ count = 0 /\ begun = FALSE /\ inFrame = FALSE /\ fin = FALSE /\ sofar = <<>>
  /\ whole = <<>> /\ calls = <<>> /\ hooked = <<>>
-----------------------------------------------------------------------------
(***************************************************************************)
(* The service thread and the connection.                                  *)
(***************************************************************************)
Quiet == whole' = <<>> /\ calls' = <<>> /\ hooked' = <<>>

Start ==
  /\ ~running
  /\ running' = TRUE
  /\ Quiet
  /\ UNCHANGED <<kind, early, open, buf, stale, peerVars, echoVars>>

\* A client's ESTABLISHED leaves the buffer alone.
Established ==
  /\ running /\ ~open /\ kind # "server"
  /\ open' = TRUE
  /\ stale' = (buf # <<>>)
  /\ Quiet
  /\ UNCHANGED <<kind, early, running, buf, peerVars, echoVars>>

\* The server's session is new memory, cleared.
SessionOpen ==
  /\ running /\ ~open /\ kind = "server"
  /\ open' = TRUE
  /\ buf' = <<>> /\ echo' = <<>> /\ asked' = FALSE /\ last' = <<>>
  /\ Quiet
  /\ UNCHANGED <<kind, early, running, stale, peerVars>>

PeerStopsShort ==
  begun' = FALSE /\ inFrame' = FALSE /\ fin' = FALSE /\ sofar' = <<>>

KeepsSession == UNCHANGED <<buf, echo, asked, last>>
FreesSession == buf' = <<>> /\ echo' = <<>> /\ asked' = FALSE /\ last' = <<>>

Closed ==
  /\ open /\ kind # "server"
  /\ open' = FALSE
  /\ PeerStopsShort /\ Quiet
  /\ UNCHANGED <<kind, early, running, buf, stale, count, echoVars>>

SessionClosed ==
  /\ open /\ kind = "server"
  /\ open' = FALSE
  /\ FreesSession
  /\ PeerStopsShort /\ Quiet
  /\ UNCHANGED <<kind, early, running, stale, count>>

\* The end of the thread frees v2's buffer; v1 and the pool keep theirs.
StopClient ==
  /\ running /\ kind # "server"
  /\ running' = FALSE /\ open' = FALSE
  /\ buf' = IF kind = "v2" THEN <<>> ELSE buf
  /\ stale' = (stale /\ buf' # <<>>)
  /\ PeerStopsShort /\ Quiet
  /\ UNCHANGED <<kind, early, count, echoVars>>

\* lws_context_destroy ends the session, with or without CLOSED.
StopServer ==
  /\ running /\ kind = "server"
  /\ running' = FALSE /\ open' = FALSE
  /\ buf' = <<>> /\ echo' = <<>> /\ asked' = FALSE /\ last' = <<>>
  /\ PeerStopsShort /\ Quiet
  /\ UNCHANGED <<kind, early, stale, count>>
-----------------------------------------------------------------------------
(***************************************************************************)
(* RECEIVE.  first, final and rest are the three facts about the chunk,    *)
(* data its payload.  An append that finds no memory returns -1: the       *)
(* connection is closed, and nothing is handed over.                       *)
(***************************************************************************)
KeepsOld(first) == buf
Base(first)     == IF first THEN <<>> ELSE buf

ReceiveV1(first, final, rest, data) ==
  LET all == Base(first) \o data
  IN  /\ hooked' = <<>>
      /\ IF first /\ final /\ ~rest THEN calls' = <<data>> /\ UNCHANGED buf
         ELSE IF final /\ ~rest     THEN calls' = <<all>> /\ buf' = <<>>
         ELSE                            calls' = <<>> /\ buf' = all

\* As v1; on_message is not told of a message that is empty and came in fragments.
ReceivePool(first, final, rest, data) ==
  LET all == Base(first) \o data
  IN  IF first /\ final /\ ~rest
        THEN calls' = <<data>> /\ hooked' = calls' /\ UNCHANGED buf
      ELSE IF final /\ ~rest
        THEN /\ calls' = <<all>> /\ buf' = <<>>
             /\ hooked' = IF all = <<>> THEN <<>> ELSE calls'
      ELSE calls' = <<>> /\ hooked' = <<>> /\ buf' = all

\* Neither does a first fragment reset the buffer nor does final wait for the rest of
\* the frame; an empty message that came in fragments is not delivered.
KeepsRead(all) == all
Drained(all)   == <<>>
ReceiveV2(first, final, rest, data) ==
  LET all == buf \o data
  IN  /\ IF first /\ final /\ ~rest THEN calls' = <<data>> /\ UNCHANGED buf
         ELSE IF final
           THEN calls' = (IF all = <<>> THEN <<>> ELSE <<all>>) /\ buf' = Drained(all)
         ELSE calls' = <<>> /\ buf' = all
      /\ hooked' = calls'

\* The echo of the last message is freed first, sent or not.
KeepsEcho == UNCHANGED <<echo, asked>>
NoEcho    == echo' = <<>> /\ UNCHANGED asked
PrepareEcho(payload) ==
  \/ echo' = <<payload>> /\ asked' = TRUE
  \/ NoEcho

ReceiveServer(first, final, data) ==
  LET all == Base(first) \o data
  IN  /\ hooked' = <<>>
      /\ IF final
           THEN calls' = <<all>> /\ last' = <<all>> /\ PrepareEcho(all) /\ buf' = <<>>
           ELSE calls' = <<>> /\ buf' = all /\ UNCHANGED echoVars

\* The peer sends the next chunk, of any kind its frames allow: data or nothing, ends a
\* message or not, ends its frame or not.
Chunk(f, rest, data) ==
  /\ open /\ count < MaxChunks
  /\ inFrame => f = fin
  /\ count' = count + 1
  /\ fin' = f /\ inFrame' = rest
  /\ begun' = ~(f /\ ~rest)
  /\ sofar' = IF f /\ ~rest THEN <<>> ELSE sofar \o data
  /\ whole' = IF f /\ ~rest THEN <<sofar \o data>> ELSE <<>>
  /\ UNCHANGED <<kind, early, running, open>>

Receive ==
  \E f, rest \in BOOLEAN, data \in {<<>>, <<count + 1>>} :
    LET first == ~begun
        final == f /\ (early \/ ~rest)
    IN  /\ Chunk(f, rest, data)
        /\ \/ kind = "v1" /\ ReceiveV1(first, final, rest, data) /\ UNCHANGED echoVars
           \/ kind = "v2" /\ ReceiveV2(first, final, rest, data) /\ UNCHANGED echoVars
           \/ kind = "pool" /\ ReceivePool(first, final, rest, data) /\ UNCHANGED echoVars
           \/ kind = "server" /\ ReceiveServer(first, final, data)
        /\ stale' = (stale /\ buf' # <<>>)

\* No memory: v2 keeps what it has, the others too unless this was a first fragment.
AppendFails ==
  /\ open /\ count < MaxChunks
  /\ count' = count + 1
  /\ open' = FALSE
  /\ PeerStopsShort /\ Quiet
  /\ buf' = IF kind = "server" \/ (kind # "v2" /\ ~begun) THEN <<>> ELSE buf
  /\ stale' = (stale /\ buf' # <<>>)
  /\ echo' = <<>> /\ asked' = FALSE /\ last' = <<>>
  /\ UNCHANGED <<kind, early, running>>

\* SERVER_WRITEABLE
EchoWritten ==
  /\ open /\ asked
  /\ asked' = FALSE
  /\ echo' = <<>>
  /\ Quiet
  /\ UNCHANGED <<kind, early, running, open, buf, stale, peerVars, last>>
-----------------------------------------------------------------------------
Next == \/ Start \/ StopClient \/ StopServer
        \/ Established \/ SessionOpen \/ Closed \/ SessionClosed
        \/ Receive \/ AppendFails \/ EchoWritten

Spec == Init /\ [][Next]_vars
-----------------------------------------------------------------------------
(***************************************************************************)
(* Safety.                                                                 *)
(***************************************************************************)

\* v1 and the pool: rx_cb is called exactly when a message is complete, with all of it
\* and nothing else, whatever was broken off before and whenever lws says "final".
DeliversWhole == kind \in {"v1", "pool"} => calls = whole

\* v2 does so too (but for empty messages in fragments) as long as no message was broken
\* off, whose first part would come in front (ws_client_v2.h:27 makes no exception), and "final" comes with the last chunk only.
V2DeliversWhole ==
  [][kind = "v2" /\ ~early /\ ~stale =>
       calls' = IF begun /\ whole' = <<<<>>>> THEN <<>> ELSE whole']_vars

\* The server hands over whole messages, if "final" comes with the last chunk only, and
\* what it will echo is its session's latest message, never one of an earlier session
\* or an older one; WRITEABLE is asked for whenever there is an echo to send.
ServerEchoesLatest ==
  kind = "server" =>
    /\ ~early => calls = whole
    /\ echo # <<>> => asked /\ echo = last
=============================================================================
