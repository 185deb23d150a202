--------------------------- MODULE WsReceiveProofs ---------------------------
(***************************************************************************)
(* Proofs about WsReceive, for any number of chunks: an inductive          *)
(* invariant and the properties of the four receivers.                     *)
(***************************************************************************)
EXTENDS WsReceive, SequenceTheorems, TLAPS

\* The buffer holds exactly what has come of the message in progress, for v2 unless
\* it holds the rest of another, and for v2 and the server if "final" comes late.
BufferExact ==
  /\ kind \in {"v1", "pool"} /\ begun => buf = sofar
  /\ kind = "server" /\ ~early /\ begun => buf = sofar
  /\ kind = "v2" /\ ~early /\ ~stale /\ open => buf = IF begun THEN sofar ELSE <<>>

\* Only a session has an echo, only a connection a message in progress, and only what
\* is in the buffer can be stale.
PlacesOK ==
  /\ kind # "server" => ~asked /\ echo = <<>>
  /\ ~open => ~begun
  /\ ~begun => sofar = <<>>
  /\ stale => buf # <<>> \/ kind = "server"

IInv == TypeOK /\ BufferExact /\ PlacesOK /\ DeliversWhole /\ ServerEchoesLatest

LEMMA InitInv == Init => IInv
<1> SUFFICES ASSUME Init PROVE IInv
  OBVIOUS
<1>1. FlagsTyped
  BY Zenon DEF Init, FlagsTyped
<1>2. PayloadsTyped
  <2>1. /\ <<>> \in Seq(1..MaxChunks)
        /\ <<>> \in Seq(Seq(1..MaxChunks))
    BY EmptySeq
  <2> QED BY <2>1, BoundAssumption DEF Init, PayloadsTyped, Payload
<1>3. (asked \/ echo # <<>> => open) /\ (open => running)
  BY DEF Init
<1>4. BufferExact /\ PlacesOK /\ DeliversWhole /\ ServerEchoesLatest
  BY DEF Init, BufferExact, PlacesOK, DeliversWhole, ServerEchoesLatest
<1> QED BY <1>1, <1>2, <1>3, <1>4 DEF IInv, TypeOK

-----------------------------------------------------------------------------
(***************************************************************************)
(* Payloads.                                                               *)
(***************************************************************************)
LEMMA Joined ==
  ASSUME NEW p \in Payload, NEW data \in Payload
  PROVE  p \o data \in Payload /\ <<>> \o data = data
BY ConcatProperties, ConcatEmptySeq DEF Payload

LEMMA EmptyTyped == <<>> \in Payload /\ <<>> \in Seq(Payload)
BY EmptySeq DEF Payload

LEMMA OneTyped == ASSUME NEW p \in Payload PROVE <<p>> \in Seq(Payload)
OBVIOUS

\* The steps that hand nothing over and leave the message in progress alone.
LEMMA QuietTyped == Quiet => {whole', calls', hooked'} \subseteq Seq(Payload)
BY EmptyTyped DEF Quiet

-----------------------------------------------------------------------------
(***************************************************************************)
(* The steps other than RECEIVE.                                           *)
(***************************************************************************)
LEMMA ConnectionInv ==
  ASSUME IInv,
         Start \/ StopClient \/ StopServer \/ Established \/ SessionOpen
           \/ Closed \/ SessionClosed \/ EchoWritten
  PROVE  IInv'
<1>1. FlagsTyped'
  BY DEF IInv, TypeOK, FlagsTyped, Start, StopClient,
         StopServer, Start, StopClient,
         StopServer, Established, SessionOpen, Closed, SessionClosed,
         EchoWritten, FreesSession, PeerStopsShort, peerVars, echoVars
<1>2. PayloadsTyped'
  BY EmptyTyped DEF IInv, TypeOK, PayloadsTyped, Start, StopClient,
         StopServer, Established, SessionOpen, Closed,
         SessionClosed, EchoWritten, FreesSession, PeerStopsShort, Quiet, peerVars, echoVars
<1>3. (asked \/ echo # <<>> => open)' /\ (open => running)'
  BY DEF IInv, TypeOK, PlacesOK, Start, StopClient,
         StopServer, Start, StopClient,
         StopServer, Established, SessionOpen, Closed, SessionClosed,
         EchoWritten, FreesSession, echoVars
<1>4. BufferExact'
  <2>1. CASE Established
    BY <2>1 DEF IInv, PlacesOK, BufferExact, Established, peerVars
  <2>2. CASE SessionOpen
    BY <2>2 DEF IInv, PlacesOK, BufferExact, SessionOpen, peerVars
  <2>3. CASE Closed \/ SessionClosed
    BY <2>3 DEF BufferExact, Closed, SessionClosed, PeerStopsShort
  <2>4. CASE EchoWritten
    BY <2>4 DEF IInv, BufferExact, EchoWritten, peerVars
  <2>5. CASE Start
    BY <2>5 DEF IInv, BufferExact, Start, peerVars
  <2>6. CASE StopClient \/ StopServer
    BY <2>6 DEF BufferExact, StopClient, StopServer, PeerStopsShort
  <2> QED BY <2>1, <2>2, <2>3, <2>4, <2>5, <2>6
<1>5. PlacesOK'
  BY DEF IInv, TypeOK, FlagsTyped, PlacesOK, Start, StopClient,
         StopServer, Established, SessionOpen, Closed,
         SessionClosed, EchoWritten, FreesSession, PeerStopsShort, peerVars, echoVars
<1>6. DeliversWhole' /\ ServerEchoesLatest'
  BY DEF IInv, DeliversWhole, ServerEchoesLatest, Start, StopClient,
         StopServer, Established, SessionOpen, Closed,
         SessionClosed, EchoWritten, FreesSession, Quiet, echoVars
<1> QED BY <1>1, <1>2, <1>3, <1>4, <1>5, <1>6 DEF IInv, TypeOK

LEMMA AppendFailsInv == ASSUME IInv, AppendFails PROVE IInv'
<1>1. FlagsTyped'
  BY DEF IInv, TypeOK, FlagsTyped, AppendFails, PeerStopsShort
<1>2. PayloadsTyped'
  BY EmptyTyped, BoundAssumption DEF IInv, TypeOK, PayloadsTyped, AppendFails,
         PeerStopsShort, Quiet
<1>3. /\ (asked \/ echo # <<>> => open)' /\ (open => running)'
      /\ BufferExact' /\ PlacesOK'
  BY DEF IInv, TypeOK, FlagsTyped, BufferExact, PlacesOK, AppendFails, PeerStopsShort
<1>4. DeliversWhole' /\ ServerEchoesLatest'
  BY DEF DeliversWhole, ServerEchoesLatest, AppendFails, Quiet
<1> QED BY <1>1, <1>2, <1>3, <1>4 DEF IInv, TypeOK

-----------------------------------------------------------------------------
(***************************************************************************)
(* RECEIVE: what all four versions share, then each of them.               *)
(***************************************************************************)
LEMMA ChunkTyped ==
  ASSUME IInv, NEW f \in BOOLEAN, NEW rest \in BOOLEAN, NEW data \in {<<>>, <<count + 1>>},
         Chunk(f, rest, data)
  PROVE  /\ data \in Payload /\ count' \in 0..MaxChunks /\ sofar' \in Payload
         /\ whole' \in Seq(Payload)
         /\ (~begun => sofar = <<>>) /\ (~begun' => sofar' = <<>>)
         /\ begun' = ~(f /\ ~rest) /\ open /\ open' /\ running'
<1>1. count \in 0..MaxChunks /\ count < MaxChunks /\ sofar \in Payload
  BY DEF IInv, TypeOK, PayloadsTyped, Chunk
<1>2. data \in Payload
  <2>1. count + 1 \in 1..MaxChunks
    BY <1>1, BoundAssumption
  <2>2. <<count + 1>> \in Seq(1..MaxChunks)
    BY <2>1
  <2> QED BY <2>2, EmptyTyped DEF Payload
<1>3. sofar \o data \in Payload
  BY <1>1, <1>2, Joined
<1>4. sofar' \in Payload /\ whole' \in Seq(Payload)
  BY <1>3, EmptyTyped, OneTyped DEF Chunk
<1>5. count' \in 0..MaxChunks
  BY <1>1, BoundAssumption DEF Chunk
<1>6. (~begun => sofar = <<>>) /\ (~begun' => sofar' = <<>>)
  BY DEF IInv, PlacesOK, Chunk
<1>7. begun' = ~(f /\ ~rest) /\ open /\ open' /\ running'
  BY DEF IInv, TypeOK, FlagsTyped, Chunk
<1> QED BY <1>2, <1>4, <1>5, <1>6, <1>7

\* v1 and the pool: final alone never ends a message, and a first chunk resets.
LEMMA ReceiveClient ==
  ASSUME IInv, NEW f \in BOOLEAN, NEW rest \in BOOLEAN, NEW data \in {<<>>, <<count + 1>>},
         Chunk(f, rest, data), kind \in {"v1", "pool"},
         \/ ReceiveV1(~begun, f /\ (early \/ ~rest), rest, data)
         \/ ReceivePool(~begun, f /\ (early \/ ~rest), rest, data)
  PROVE  /\ buf' \in Payload /\ {calls', hooked'} \subseteq Seq(Payload)
         /\ begun' => buf' = sofar'
         /\ calls' = whole'
<1> DEFINE all == Base(~begun) \o data
<1>1. buf \in Payload /\ data \in Payload /\ sofar \in Payload /\ begun \in BOOLEAN
  BY ChunkTyped DEF IInv, TypeOK, FlagsTyped, PayloadsTyped
<1>2. Base(~begun) \in Payload
  BY <1>1, EmptyTyped DEF Base
<1>3. all \in Payload
  BY <1>1, <1>2, Joined
<1>4. all = sofar \o data /\ (~begun => sofar \o data = data)
  BY <1>1, Joined, ChunkTyped DEF Base, IInv, BufferExact
<1>5. CASE f /\ ~rest
  <2>1. whole' = <<all>> /\ begun' = FALSE
    BY <1>4, <1>5 DEF Chunk
  <2>2. calls' = <<all>> /\ buf' \in {buf, <<>>} /\ hooked' \in {<<>>, calls'}
    BY <1>1, <1>4, <1>5 DEF ReceiveV1, ReceivePool
  <2> QED BY <1>1, <1>3, <2>1, <2>2, EmptyTyped, OneTyped
<1>6. CASE ~(f /\ ~rest)
  <2>1. whole' = <<>> /\ sofar' = all
    BY <1>4, <1>6 DEF Chunk
  <2>2. calls' = <<>> /\ hooked' = <<>> /\ buf' = all
    BY <1>6 DEF ReceiveV1, ReceivePool
  <2> QED BY <1>3, <2>1, <2>2, EmptyTyped
<1> QED BY <1>5, <1>6

LEMMA ReceiveClientV2 ==
  ASSUME IInv, NEW f \in BOOLEAN, NEW rest \in BOOLEAN, NEW data \in {<<>>, <<count + 1>>},
         Chunk(f, rest, data), kind = "v2",
         ReceiveV2(~begun, f /\ (early \/ ~rest), rest, data)
  PROVE  /\ buf' \in Payload /\ {calls', hooked'} \subseteq Seq(Payload)
         /\ ~early /\ ~stale => buf' = IF begun' THEN sofar' ELSE <<>>
         /\ ~early /\ stale /\ buf' = <<>> => ~begun'
         /\ ~early /\ ~stale =>
              calls' = IF begun /\ whole' = <<<<>>>> THEN <<>> ELSE whole'
<1> DEFINE all == buf \o data
<1>1. /\ buf \in Payload /\ data \in Payload /\ sofar \in Payload /\ begun \in BOOLEAN
      /\ early \in BOOLEAN
  BY ChunkTyped DEF IInv, TypeOK, FlagsTyped, PayloadsTyped
<1>2. all \in Payload
  BY <1>1, Joined
<1>3. /\ buf' \in {buf, <<>>, all}
      /\ calls' \in {<<>>, <<data>>, <<all>>} /\ hooked' = calls'
  BY DEF ReceiveV2, Drained
<1>4. buf' \in Payload /\ {calls', hooked'} \subseteq Seq(Payload)
  BY <1>1, <1>2, <1>3, EmptyTyped, OneTyped
<1>5. ASSUME ~early, stale, buf' = <<>> PROVE ~begun'
  <2>1. buf # <<>>
    BY <1>5 DEF IInv, PlacesOK
  <2>2. all # <<>>
    BY <1>1, <2>1, ConcatEqualIffEmpty DEF Payload
  <2> QED BY <1>1, <1>5, <2>1, <2>2, ChunkTyped DEF ReceiveV2
<1>6. ASSUME ~early, ~stale
      PROVE  /\ buf' = IF begun' THEN sofar' ELSE <<>>
             /\ calls' = IF begun /\ whole' = <<<<>>>> THEN <<>> ELSE whole'
  <2>1. buf = sofar /\ (~begun => buf = <<>>)
    BY <1>1, <1>6, ChunkTyped DEF IInv, BufferExact
  <2>2. all = sofar \o data /\ (~begun => all = data)
    BY <1>1, <2>1, Joined
  <2>3. CASE f /\ ~rest
    <3>1. whole' = <<all>> /\ ~begun'
      BY <2>2, <2>3 DEF Chunk
    <3>2. CASE ~begun
      BY <2>1, <2>2, <2>3, <3>1, <3>2 DEF ReceiveV2
    <3>3. CASE begun
      <4>1. calls' = (IF all = <<>> THEN <<>> ELSE <<all>>) /\ buf' = <<>>
        BY <1>6, <2>3, <3>3 DEF ReceiveV2, Drained
      <4> QED BY <3>1, <3>3, <4>1
    <3> QED BY <3>2, <3>3
  <2>4. CASE ~(f /\ ~rest)
    <3>1. whole' = <<>> /\ sofar' = all /\ begun'
      BY <2>2, <2>4 DEF Chunk
    <3>2. calls' = <<>> /\ buf' = all
      BY <1>6, <2>4 DEF ReceiveV2
    <3> QED BY <3>1, <3>2
  <2> QED BY <2>3, <2>4
<1> QED BY <1>4, <1>5, <1>6

LEMMA ReceiveSession ==
  ASSUME IInv, NEW f \in BOOLEAN, NEW rest \in BOOLEAN, NEW data \in {<<>>, <<count + 1>>},
         Chunk(f, rest, data), kind = "server",
         ReceiveServer(~begun, f /\ (early \/ ~rest), data)
  PROVE  /\ buf' \in Payload /\ {calls', hooked', echo', last'} \subseteq Seq(Payload)
         /\ asked' \in BOOLEAN
         /\ ~early => (begun' => buf' = sofar') /\ calls' = whole'
         /\ echo' # <<>> => asked' /\ echo' = last'
<1> DEFINE all == Base(~begun) \o data
<1>1. /\ buf \in Payload /\ data \in Payload /\ sofar \in Payload /\ begun \in BOOLEAN
      /\ asked \in BOOLEAN /\ echo \in Seq(Payload) /\ last \in Seq(Payload)
  BY ChunkTyped DEF IInv, TypeOK, FlagsTyped, PayloadsTyped
<1>2. Base(~begun) \in Payload
  BY <1>1, EmptyTyped DEF Base
<1>3. all \in Payload /\ <<all>> \in Seq(Payload)
  BY <1>1, <1>2, Joined, OneTyped
<1>4. /\ buf' \in {<<>>, all} /\ calls' \in {<<>>, <<all>>} /\ hooked' = <<>>
      /\ \/ last' = <<all>> /\ echo' = <<all>> /\ asked' = TRUE
         \/ last' = <<all>> /\ echo' = <<>> /\ asked' = asked
         \/ last' = last /\ echo' = echo /\ asked' = asked
  BY DEF ReceiveServer, PrepareEcho, NoEcho, echoVars
<1>5. echo # <<>> => asked /\ echo = last
  BY DEF IInv, ServerEchoesLatest
<1>6. ASSUME ~early PROVE (begun' => buf' = sofar') /\ calls' = whole'
  <2>1. all = sofar \o data
    BY <1>1, <1>6, Joined, ChunkTyped DEF Base, IInv, BufferExact
  <2>2. CASE f /\ ~rest
    BY <1>6, <2>1, <2>2 DEF Chunk, ReceiveServer
  <2>3. CASE ~(f /\ ~rest)
    BY <1>6, <2>1, <2>3 DEF Chunk, ReceiveServer
  <2> QED BY <2>2, <2>3
<1>7. buf' \in Payload /\ {calls', hooked', echo', last'} \subseteq Seq(Payload)
  BY <1>1, <1>3, <1>4, EmptyTyped
<1>8. asked' \in BOOLEAN
  BY <1>1, <1>4
<1>9. echo' # <<>> => asked' /\ echo' = last'
  BY <1>4, <1>5
<1> QED BY <1>6, <1>7, <1>8, <1>9

LEMMA ReceiveInv == ASSUME IInv, Receive PROVE IInv'
<1>1. PICK f \in BOOLEAN, rest \in BOOLEAN, data \in {<<>>, <<count + 1>>} :
        /\ Chunk(f, rest, data)
        /\ \/ /\ kind = "v1" /\ ReceiveV1(~begun, f /\ (early \/ ~rest), rest, data)
              /\ UNCHANGED echoVars
           \/ /\ kind = "v2" /\ ReceiveV2(~begun, f /\ (early \/ ~rest), rest, data)
              /\ UNCHANGED echoVars
           \/ /\ kind = "pool" /\ ReceivePool(~begun, f /\ (early \/ ~rest), rest, data)
              /\ UNCHANGED echoVars
           \/ kind = "server" /\ ReceiveServer(~begun, f /\ (early \/ ~rest), data)
        /\ stale' = (stale /\ buf' # <<>>)
  BY DEF Receive
<1>2. /\ kind' = kind /\ early' = early /\ open /\ open' /\ begun' = ~(f /\ ~rest)
      /\ running' = running /\ running'
      /\ fin' = f /\ inFrame' = rest
      /\ count' \in 0..MaxChunks /\ sofar' \in Payload /\ whole' \in Seq(Payload)
      /\ ~begun' => sofar' = <<>>
  BY <1>1, ChunkTyped DEF Chunk
<1>3. CASE kind \in {"v1", "pool"}
  <2>1. /\ buf' \in Payload /\ {calls', hooked'} \subseteq Seq(Payload)
        /\ begun' => buf' = sofar'
        /\ calls' = whole'
        /\ UNCHANGED echoVars
    BY <1>1, <1>3, ReceiveClient
  <2>2. FlagsTyped'
    BY <1>1, <1>2, <2>1 DEF IInv, TypeOK, FlagsTyped, echoVars
  <2>3. PayloadsTyped'
    BY <1>2, <2>1 DEF IInv, TypeOK, PayloadsTyped, echoVars
  <2>4. BufferExact' /\ PlacesOK' /\ DeliversWhole' /\ ServerEchoesLatest'
    BY <1>1, <1>2, <1>3, <2>1 DEF IInv, BufferExact, PlacesOK, DeliversWhole,
       ServerEchoesLatest, echoVars
  <2> QED BY <1>2, <2>2, <2>3, <2>4 DEF IInv, TypeOK
<1>4. CASE kind = "v2"
  <2>1. /\ buf' \in Payload /\ {calls', hooked'} \subseteq Seq(Payload)
        /\ ~early /\ ~stale => buf' = IF begun' THEN sofar' ELSE <<>>
        /\ ~early /\ stale /\ buf' = <<>> => ~begun'
        /\ UNCHANGED echoVars
    BY <1>1, <1>4, ReceiveClientV2
  <2>2. FlagsTyped'
    BY <1>1, <1>2, <2>1 DEF IInv, TypeOK, FlagsTyped, echoVars
  <2>3. PayloadsTyped'
    BY <1>2, <2>1 DEF IInv, TypeOK, PayloadsTyped, echoVars
  <2>4. BufferExact'
    BY <1>1, <1>2, <1>4, <2>1 DEF BufferExact
  <2>5. PlacesOK' /\ DeliversWhole' /\ ServerEchoesLatest'
    BY <1>1, <1>2, <1>4, <2>1 DEF IInv, PlacesOK, DeliversWhole, ServerEchoesLatest, echoVars
  <2> QED BY <1>2, <2>2, <2>3, <2>4, <2>5 DEF IInv, TypeOK
<1>5. CASE kind = "server"
  <2>1. /\ buf' \in Payload /\ {calls', hooked', echo', last'} \subseteq Seq(Payload)
        /\ asked' \in BOOLEAN
        /\ ~early => (begun' => buf' = sofar') /\ calls' = whole'
        /\ echo' # <<>> => asked' /\ echo' = last'
    BY <1>1, <1>5, ReceiveSession
  <2>2. FlagsTyped'
    BY <1>1, <1>2, <2>1 DEF IInv, TypeOK, FlagsTyped
  <2>3. PayloadsTyped'
    BY <1>2, <2>1 DEF PayloadsTyped
  <2>4. BufferExact' /\ PlacesOK' /\ DeliversWhole' /\ ServerEchoesLatest'
    BY <1>1, <1>2, <1>5, <2>1 DEF BufferExact, PlacesOK, DeliversWhole, ServerEchoesLatest
  <2> QED BY <1>2, <2>2, <2>3, <2>4 DEF IInv, TypeOK
<1> QED BY <1>3, <1>4, <1>5 DEF IInv, TypeOK, FlagsTyped

LEMMA NextInv == ASSUME IInv, [Next]_vars PROVE IInv'
<1>1. CASE UNCHANGED vars
  BY <1>1 DEF vars, peerVars, echoVars, callVars, IInv, TypeOK, FlagsTyped, PayloadsTyped,
              BufferExact, PlacesOK, DeliversWhole, ServerEchoesLatest
<1>2. CASE Next
  BY <1>2, ConnectionInv, AppendFailsInv, ReceiveInv DEF Next
<1> QED BY <1>1, <1>2

-----------------------------------------------------------------------------
\* The invariant is inductive and holds initially.
THEOREM ReceiveInvariance == Spec => []IInv
BY InitInv, NextInv, PTL DEF Spec

\* Buffers and calls hold payloads, and an echo does not outlive its session.
THEOREM ReceiveTypeCorrect == Spec => []TypeOK
<1>1. IInv => TypeOK
  BY DEF IInv
<1> QED BY <1>1, ReceiveInvariance, PTL

\* v1 and the pool call rx_cb with whole messages only, whatever broke off before.
THEOREM ReceivesWhole == Spec => []DeliversWhole
<1>1. IInv => DeliversWhole
  BY DEF IInv
<1> QED BY <1>1, ReceiveInvariance, PTL

\* The server's echo is its session's latest message.
THEOREM EchoesLatest == Spec => []ServerEchoesLatest
<1>1. IInv => ServerEchoesLatest
  BY DEF IInv
<1> QED BY <1>1, ReceiveInvariance, PTL

\* v2 delivers whole messages as long as none was broken off.
THEOREM V2ReceivesWhole == Spec => V2DeliversWhole
<1> DEFINE Whole == kind = "v2" /\ ~early /\ ~stale =>
                      calls' = IF begun /\ whole' = <<<<>>>> THEN <<>> ELSE whole'
<1>1. ASSUME IInv, [Next]_vars PROVE [Whole]_vars
  <2>1. CASE Receive
    <3> SUFFICES ASSUME kind = "v2", ~early, ~stale
                 PROVE  calls' = IF begun /\ whole' = <<<<>>>> THEN <<>> ELSE whole'
      OBVIOUS
    <3>1. PICK f \in BOOLEAN, rest \in BOOLEAN, data \in {<<>>, <<count + 1>>} :
            /\ Chunk(f, rest, data)
            /\ ReceiveV2(~begun, f /\ (early \/ ~rest), rest, data)
      BY <2>1 DEF Receive
    <3> QED BY <1>1, <3>1, ReceiveClientV2
  <2>2. CASE Next /\ ~Receive
    BY <2>2 DEF Next, Start, StopClient, StopServer, Established, SessionOpen, Closed, SessionClosed, AppendFails,
       EchoWritten, Quiet
  <2> QED BY <1>1, <2>1, <2>2
<1> QED BY <1>1, ReceiveInvariance, PTL DEF Spec, V2DeliversWhole
=============================================================================
