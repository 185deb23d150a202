----------------------------- MODULE TtsSynthesis -----------------------------
(***************************************************************************)
(* examples/xfyun_tts.c: one request over a client of the pool, answered   *)
(* by a stream of audio frames.                                            *)
(*                                                                         *)
(* The main thread sends the request and waits on ctx.cond, with a         *)
(* deadline, for ctx.done; on_tts_message, on the pool's service thread,   *)
(* writes the audio to pcm_file and sets done, at the last frame or at an  *)
(* error.  A section under ctx.lock is one step, so are the unlocked write *)
(* of the file and each unlocked read of g_stop.  Of the pool only what    *)
(* WsPool and WsSendPath show is used: a queued request leaves on a        *)
(* connection at most once, and wsp_pool_destroy joins the thread.         *)
(***************************************************************************)
EXTENDS Integers

CONSTANTS
  Frames,    \* frames of the server's answer
  MaxDials   \* bound: connections
ASSUME FramesAssumption == Frames \in Nat \ {0} /\ MaxDials \in Nat

VARIABLES
  main,        \* where the main thread is
  g_stop,
  done,        \* ctx.done
  api_code,    \* ctx.api_code # 0
  total_bytes, \* ctx.total_bytes, in frames with audio
  content,     \* frames with audio that pcm_file holds, its buffer included
  file,        \* ctx.pcm_file
  outcome,     \* main's done and err: "unset" as long as they are uninitialised
  bytes,       \* main's bytes
  exit,        \* what main returned, -1 before
  \* the pool, its connection and the server
  running,     \* the service thread exists
  up,          \* the connection is established
  dials,       \* connections so far
  request,     \* "none", in the queue, on its way to an answer, or past that
  next,        \* frames of the answer that came
  \* the service thread in on_tts_message
  svc, msg,
  \* history
  audio,       \* frames with audio that came
  dropped,     \* those of them that were never handed to fwrite
  cut,         \* an fwrite or the fclose of pcm_file failed
  afterClose   \* pcm_file was written after fclose

ctxVars == <<done, api_code, total_bytes>>
mainVars == <<file, outcome, bytes, exit>>
poolVars == <<running, up, dials, request, next>>
svcVars == <<svc, msg>>
disk == <<content, cut, afterClose>>
history == <<audio, dropped, disk>>
vars == <<main, g_stop, ctxVars, mainVars, poolVars, svcVars, history>>

FlagsTyped ==
  /\ g_stop \in BOOLEAN /\ done \in BOOLEAN /\ api_code \in BOOLEAN
  /\ running \in BOOLEAN /\ up \in BOOLEAN
  /\ cut \in BOOLEAN /\ afterClose \in BOOLEAN
PlacesTyped ==
  /\ main \in {"setup", "asleep", "entering", "blocked", "woken",
               "cleanup", "destroying", "ending", "exited", "aborted"}
  /\ file \in {"none", "open", "closed"}
  /\ outcome \in {"unset", "success", "failure", "unfinished"}
  /\ request \in {"none", "queued", "sent", "over"}
  /\ svc \in {"idle", "refused", "audio", "status"}
NumbersTyped ==
  /\ {total_bytes, bytes, content, audio, dropped} \subseteq Nat
  /\ exit \in {-1, 0, 1} /\ dials \in 0..MaxDials /\ next \in 0..Frames
  /\ msg \in [audio : BOOLEAN, last : BOOLEAN]
ThreadRuns ==
  /\ up \/ svc # "idle" => running
  /\ running <=> main \notin {"setup", "ending", "exited", "aborted"}
TypeOK == FlagsTyped /\ PlacesTyped /\ NumbersTyped /\ ThreadRuns

Init ==
  /\ main = "setup" /\ g_stop = FALSE
  /\ done = FALSE /\ api_code = FALSE /\ total_bytes = 0
  /\ file = "none" /\ outcome = "unset" /\ bytes = 0 /\ exit = -1
  /\ running = FALSE /\ up = FALSE /\ dials = 0 /\ request = "none" /\ next = 0
  /\ svc = "idle" /\ msg = [audio |-> FALSE, last |-> FALSE]
  /\ audio = 0 /\ dropped = 0
  /\ content = 0 /\ cut = FALSE /\ afterClose = FALSE
-----------------------------------------------------------------------------
(***************************************************************************)
(* The main thread.                                                        *)
(***************************************************************************)

\* No credentials, no file, no pool or client: nothing has started, or wsp_pool_destroy
\* has undone it.  After a wsp_pool_start that failed it destroys the client, which
\* waits to be dialled, twice (DestroyedOnce of WsPool): the program may not survive that.
SetupFails ==
  /\ main = "setup"
  /\ \/ main' = "exited" /\ exit' = 1 /\ file' \in {"none", "closed"}
     \/ main' = "aborted" /\ file' = "open" /\ UNCHANGED exit
  /\ UNCHANGED <<g_stop, ctxVars, outcome, bytes, poolVars, svcVars, history>>

Setup ==
  /\ main = "setup"
  /\ main' = "asleep"
  /\ file' = "open" /\ running' = TRUE
  /\ UNCHANGED <<g_stop, ctxVars, outcome, bytes, exit, up, dials, request, next, svcVars, history>>

\* After sleep(2).  A text that is too long and a send that is refused skip the wait,
\* and with it the initialisation of done and err.
SkipsWait ==
  /\ main = "asleep"
  /\ main' = "cleanup"
  /\ UNCHANGED <<g_stop, ctxVars, mainVars, poolVars, svcVars, history>>

SendRequest ==
  /\ main = "asleep" /\ ~g_stop
  /\ request' = "queued"
  /\ main' = "entering"
  /\ UNCHANGED <<g_stop, ctxVars, mainVars, running, up, dials, next, svcVars, history>>

\* The test of the loop, and what follows it under the lock.
ReadResult ==
  /\ outcome' = IF ~done THEN "unfinished" ELSE IF api_code THEN "failure" ELSE "success"
  /\ bytes' = total_bytes
  /\ main' = "cleanup"

Wait ==
  /\ main \in {"entering", "woken"}
  /\ IF done \/ g_stop
       THEN ReadResult
       ELSE main' = "blocked" /\ UNCHANGED <<outcome, bytes>>
  /\ UNCHANGED <<g_stop, ctxVars, file, exit, poolVars, svcVars, history>>

\* pthread_cond_timedwait may return for no reason, and at the deadline even when the
\* signal has just come.
Spurious ==
  /\ main = "blocked"
  /\ main' = "woken"
  /\ UNCHANGED <<g_stop, ctxVars, mainVars, poolVars, svcVars, history>>

NoDeadline == FALSE
Deadline   == main \in {"blocked", "woken"}
TimedOut ==
  /\ Deadline
  /\ ReadResult
  /\ UNCHANGED <<g_stop, ctxVars, file, exit, poolVars, svcVars, history>>

\* What is still buffered may not reach the disk; nobody looks at fclose's result.
CloseFile ==
  /\ main = "cleanup"
  /\ file' = "closed"
  /\ content' \in 0..content /\ cut' = (cut \/ content' # content)
  /\ main' = "destroying"
  /\ UNCHANGED <<g_stop, ctxVars, outcome, bytes, exit, poolVars, svcVars, audio, dropped,
                 afterClose>>

\* wsp_pool_destroy lets the callback in progress finish.
NoJoin       == TRUE
ThreadExited == svc = "idle"
DestroyPool ==
  /\ main = "destroying" /\ ThreadExited
  /\ running' = FALSE /\ up' = FALSE
  /\ main' = "ending"
  /\ UNCHANGED <<g_stop, ctxVars, mainVars, dials, request, next, svcVars, history>>

\* Uninitialised, done and err are anything.
Exit ==
  /\ main = "ending"
  /\ main' = "exited"
  /\ \/ exit' = 0 /\ outcome \in {"success", "unset"} /\ ~g_stop
     \/ exit' = 1 /\ (outcome # "success" \/ g_stop)
  /\ UNCHANGED <<g_stop, ctxVars, file, outcome, bytes, poolVars, svcVars, history>>

\* The handler sets the flag and wakes nobody.
OnSignal ==
  /\ main \notin {"exited", "aborted"} /\ ~g_stop
  /\ g_stop' = TRUE
  /\ UNCHANGED <<main, ctxVars, mainVars, poolVars, svcVars, history>>
-----------------------------------------------------------------------------
(***************************************************************************)
(* The service thread between two callbacks, and the server.  The request  *)
(* is not sent again on a later connection.                                *)
(***************************************************************************)
Connects ==
  /\ running /\ svc = "idle" /\ ~up /\ dials < MaxDials
  /\ up' = TRUE /\ dials' = dials + 1
  /\ UNCHANGED <<main, g_stop, ctxVars, mainVars, running, request, next, svcVars, history>>

Disconnects ==
  /\ up /\ svc = "idle"
  /\ up' = FALSE
  /\ request' = IF request = "sent" THEN "over" ELSE request
  /\ UNCHANGED <<main, g_stop, ctxVars, mainVars, running, dials, next, svcVars, history>>

WritesRequest ==
  /\ up /\ svc = "idle" /\ request = "queued"
  /\ request' = "sent"
  /\ UNCHANGED <<main, g_stop, ctxVars, mainVars, running, up, dials, next, svcVars, history>>
-----------------------------------------------------------------------------
(***************************************************************************)
(* on_tts_message.                                                         *)
(***************************************************************************)
One(b) == IF b THEN 1 ELSE 0

\* A frame of the answer; without memory for the copy it is dropped.
Message ==
  /\ up /\ svc = "idle" /\ request = "sent" /\ next < Frames
  /\ next' = next + 1
  /\ \E a \in BOOLEAN :
       /\ msg' = [audio |-> a, last |-> next' = Frames]
       /\ audio' = audio + One(a)
       /\ \/ svc' = "audio" /\ UNCHANGED dropped
          \/ svc' = "idle" /\ dropped' = dropped + One(a)
  /\ UNCHANGED <<main, g_stop, ctxVars, mainVars, running, up, dials, request, disk>>

\* A message without code 0 may come at any time; it ends the answer.
ErrorMessage ==
  /\ up /\ svc = "idle"
  /\ svc' \in {"refused", "idle"}
  /\ request' = IF request = "sent" THEN "over" ELSE request
  /\ UNCHANGED <<main, g_stop, ctxVars, mainVars, running, up, dials, next, msg, history>>

NoSignal == UNCHANGED main
Signal   == main' = IF main = "blocked" THEN "woken" ELSE main

ApiError ==
  /\ svc = "refused"
  /\ api_code' = TRUE /\ done' = TRUE
  /\ Signal
  /\ svc' = "idle"
  /\ UNCHANGED <<g_stop, total_bytes, mainVars, poolVars, msg, history>>

\* Decoded and handed to fwrite, unless memory or the decoder fails.  The count is that
\* of what was handed over: nobody looks at fwrite's result.  ctx.lock is not held, the
\* file may be closed.
Fwrite == (content' = content + 1 /\ UNCHANGED cut) \/ (cut' = TRUE /\ UNCHANGED content)

WriteAudio ==
  /\ svc = "audio"
  /\ svc' = "status"
  /\ \/ /\ msg.audio
        /\ Fwrite
        /\ total_bytes' = total_bytes + 1
        /\ afterClose' = (afterClose \/ file = "closed")
        /\ UNCHANGED dropped
     \/ /\ dropped' = dropped + One(msg.audio)
        /\ UNCHANGED <<total_bytes, disk>>
  /\ UNCHANGED <<main, g_stop, done, api_code, mainVars, poolVars, msg, audio>>

AnyFrameEnds == TRUE
LastFrame    == msg.last
Status ==
  /\ svc = "status"
  /\ svc' = "idle"
  /\ IF LastFrame THEN done' = TRUE /\ Signal ELSE UNCHANGED <<done, main>>
  /\ UNCHANGED <<g_stop, api_code, total_bytes, mainVars, poolVars, msg, history>>
-----------------------------------------------------------------------------
MainStep    == SkipsWait \/ SendRequest \/ Wait \/ CloseFile \/ Exit
ServiceStep == ApiError \/ WriteAudio \/ Status
Next ==
  \/ SetupFails \/ Setup \/ MainStep \/ Spurious \/ TimedOut \/ DestroyPool \/ OnSignal
  \/ Connects \/ Disconnects \/ WritesRequest \/ Message \/ ErrorMessage \/ ServiceStep

Spec == Init /\ [][Next]_vars

(***************************************************************************)
(* Fairness: both threads run, the deadline passes, and the service thread *)
(* notices that the pool is being destroyed although messages keep coming  *)
(* (DestroyReturns of WsPool).  The server owes nothing.                   *)
(***************************************************************************)
Fairness ==
  /\ WF_vars(Setup) /\ WF_vars(MainStep) /\ WF_vars(TimedOut)
  /\ SF_vars(DestroyPool) /\ WF_vars(ServiceStep)

FairSpec == Spec /\ Fairness
-----------------------------------------------------------------------------
(***************************************************************************)
(* Safety.                                                                 *)
(***************************************************************************)

\* A program that waited and returned 0 has had the whole answer: the last frame has
\* come, and all audio but what failed allocations and decoding dropped is in the
\* number it reported.  That number is what was handed to fwrite, on a file that was still
\* open: the file never holds more, and holds as much if every fwrite and fclose
\* worked, which the program does not ask.  Where the wait was skipped the result is read
\* uninitialised and may be 0 as well.
SuccessMeansWhole ==
  exit = 0 /\ outcome # "unset" =>
    /\ next = Frames
    /\ bytes = total_bytes /\ total_bytes + dropped = audio
    /\ content <= bytes /\ (~cut => content = bytes)
    /\ ~afterClose

\* The main thread never sleeps on ctx.cond once done is set, wherever between its test
\* and its wait the answer ended.  (g_stop has no such promise: a signal is noticed at the
\* deadline only.)
NoLostSignal == main = "blocked" => ~done

(***************************************************************************)
(* Liveness under FairSpec.                                                *)
(***************************************************************************)

\* The program ends, whatever the server and the connection do.
Exits == main = "asleep" ~> main = "exited"
=============================================================================
