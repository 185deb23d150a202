-------------------------- MODULE TtsSynthesisProofs --------------------------
(***************************************************************************)
(* Proofs about TtsSynthesis, for any length of the answer and any number  *)
(* of connections: an inductive invariant, and from it the safety          *)
(* properties.                                                             *)
(***************************************************************************)
EXTENDS TtsSynthesis, TLAPS

\* Audio that came is written, dropped or in the hands of the callback.
Tally == total_bytes + dropped + (IF svc = "audio" THEN One(msg.audio) ELSE 0) = audio

\* The file has what was counted, but for failed writes.
DiskOK == content <= total_bytes /\ (~cut => content = total_bytes)

\* Without an error, done is set only when the answer has come and been worked off.
EndSeen ==
  /\ svc \in {"audio", "status"} => (msg.last <=> next = Frames)
  /\ done /\ ~api_code => next = Frames /\ svc \notin {"audio", "status"}

FileOK ==
  /\ file = "open" <=> main \in {"asleep", "entering", "blocked", "woken", "cleanup", "aborted"}
  /\ main = "setup" => file = "none"
  /\ afterClose => file = "closed"

\* What main read stays true after the lock is released.
OutcomeOK ==
  /\ outcome # "unset" => main \in {"cleanup", "destroying", "ending", "exited"}
  /\ outcome = "success" =>
       /\ next = Frames /\ svc \notin {"audio", "status"}
       /\ bytes = total_bytes /\ ~afterClose
  /\ exit = 0 => main = "exited" /\ outcome \in {"success", "unset"}

IInv == TypeOK /\ Tally /\ DiskOK /\ EndSeen /\ FileOK /\ OutcomeOK /\ NoLostSignal

LEMMA InitInv == Init => IInv
<1> SUFFICES ASSUME Init PROVE IInv
  OBVIOUS
<1>1. TypeOK
  <2>1. FlagsTyped
    BY Zenon DEF Init, FlagsTyped
  <2>2. PlacesTyped /\ NumbersTyped
    BY FramesAssumption DEF Init, PlacesTyped, NumbersTyped
  <2>3. ThreadRuns
    BY DEF Init, ThreadRuns
  <2> QED BY <2>1, <2>2, <2>3 DEF TypeOK
<1>2. Tally /\ DiskOK /\ EndSeen /\ FileOK /\ OutcomeOK /\ NoLostSignal
  BY FramesAssumption DEF Init, Tally, DiskOK, EndSeen, FileOK, OutcomeOK, NoLostSignal, One
<1> QED BY <1>1, <1>2 DEF IInv

LEMMA OneNat == ASSUME NEW b \in BOOLEAN PROVE One(b) \in Nat
BY DEF One

-----------------------------------------------------------------------------
(***************************************************************************)
(* Every step preserves the types.                                         *)
(***************************************************************************)
LEMMA FlagsStep == ASSUME TypeOK, Next PROVE FlagsTyped'
<1>1. CASE SetupFails
  BY <1>1, Zenon DEF TypeOK, FlagsTyped, SetupFails, ctxVars, poolVars, svcVars, history, disk
<1>2. CASE Setup
  BY <1>2, Zenon DEF TypeOK, FlagsTyped, Setup, ctxVars, svcVars, history, disk
<1>3. CASE SkipsWait
  BY <1>3, Zenon DEF TypeOK, FlagsTyped, SkipsWait, ctxVars, mainVars, poolVars,
         svcVars, history, disk
<1>4. CASE SendRequest
  BY <1>4, Zenon DEF TypeOK, FlagsTyped, SendRequest, ctxVars, mainVars, svcVars,
         history, disk
<1>5. CASE Wait
  BY <1>5, Zenon DEF TypeOK, FlagsTyped, Wait, ReadResult, ctxVars, poolVars, svcVars,
         history, disk
<1>6. CASE Spurious
  BY <1>6, Zenon DEF TypeOK, FlagsTyped, Spurious, ctxVars, mainVars, poolVars, svcVars,
         history, disk
<1>7. CASE TimedOut
  BY <1>7, Zenon DEF TypeOK, FlagsTyped, TimedOut, ReadResult, Deadline, ctxVars,
         poolVars, svcVars, history, disk
<1>8. CASE CloseFile
  BY <1>8, Zenon DEF TypeOK, FlagsTyped, CloseFile, ctxVars, poolVars, svcVars, history, disk
<1>9. CASE DestroyPool
  BY <1>9, Zenon DEF TypeOK, FlagsTyped, DestroyPool, ThreadExited, ctxVars, mainVars,
         svcVars, history, disk
<1>10. CASE Exit
  BY <1>10, Zenon DEF TypeOK, FlagsTyped, Exit, ctxVars, poolVars, svcVars, history, disk
<1>11. CASE OnSignal
  BY <1>11, Zenon DEF TypeOK, FlagsTyped, OnSignal, ctxVars, mainVars, poolVars,
         svcVars, history, disk
<1>12. CASE Connects
  BY <1>12, Zenon DEF TypeOK, FlagsTyped, Connects, ctxVars, mainVars, svcVars, history, disk
<1>13. CASE Disconnects
  BY <1>13, Zenon DEF TypeOK, FlagsTyped, Disconnects, ctxVars, mainVars, svcVars,
         history, disk
<1>14. CASE WritesRequest
  BY <1>14, Zenon DEF TypeOK, FlagsTyped, WritesRequest, ctxVars, mainVars, svcVars,
         history, disk
<1>15. CASE Message
  BY <1>15, Zenon DEF TypeOK, FlagsTyped, Message, disk, ctxVars, mainVars
<1>16. CASE ErrorMessage
  BY <1>16, Zenon DEF TypeOK, FlagsTyped, ErrorMessage, ctxVars, mainVars, history, disk
<1>17. CASE ApiError
  BY <1>17, Zenon DEF TypeOK, FlagsTyped, ApiError, Signal, mainVars, poolVars, history, disk
<1>18. CASE WriteAudio
  BY <1>18, Zenon DEF TypeOK, FlagsTyped, WriteAudio, Fwrite, disk, mainVars, poolVars
<1>19. CASE Status
  BY <1>19, Zenon DEF TypeOK, FlagsTyped, Status, Signal, LastFrame, mainVars, poolVars,
         history, disk
<1> QED BY <1>1, <1>2, <1>3, <1>4, <1>5, <1>6, <1>7, <1>8, <1>9, <1>10, <1>11, <1>12,
       <1>13, <1>14, <1>15, <1>16, <1>17, <1>18, <1>19 DEF Next, MainStep, ServiceStep

LEMMA PlacesStep == ASSUME TypeOK, Next PROVE PlacesTyped'
<1>1. CASE SetupFails
  BY <1>1 DEF TypeOK, PlacesTyped, SetupFails, ctxVars, poolVars, svcVars, history, disk
<1>2. CASE Setup
  BY <1>2 DEF TypeOK, PlacesTyped, Setup, ctxVars, svcVars, history, disk
<1>3. CASE SkipsWait
  BY <1>3 DEF TypeOK, PlacesTyped, SkipsWait, ctxVars, mainVars, poolVars, svcVars,
         history, disk
<1>4. CASE SendRequest
  BY <1>4 DEF TypeOK, PlacesTyped, SendRequest, ctxVars, mainVars, svcVars, history, disk
<1>5. CASE Wait
  BY <1>5 DEF TypeOK, PlacesTyped, Wait, ReadResult, ctxVars, poolVars, svcVars, history, disk
<1>6. CASE Spurious
  BY <1>6 DEF TypeOK, PlacesTyped, Spurious, ctxVars, mainVars, poolVars, svcVars,
         history, disk
<1>7. CASE TimedOut
  BY <1>7 DEF TypeOK, PlacesTyped, TimedOut, ReadResult, Deadline, ctxVars, poolVars,
         svcVars, history, disk
<1>8. CASE CloseFile
  BY <1>8 DEF TypeOK, PlacesTyped, CloseFile, ctxVars, poolVars, svcVars, history, disk
<1>9. CASE DestroyPool
  BY <1>9 DEF TypeOK, PlacesTyped, DestroyPool, ThreadExited, ctxVars, mainVars,
         svcVars, history, disk
<1>10. CASE Exit
  BY <1>10 DEF TypeOK, PlacesTyped, Exit, ctxVars, poolVars, svcVars, history, disk
<1>11. CASE OnSignal
  BY <1>11 DEF TypeOK, PlacesTyped, OnSignal, ctxVars, mainVars, poolVars, svcVars,
         history, disk
<1>12. CASE Connects
  BY <1>12 DEF TypeOK, PlacesTyped, Connects, ctxVars, mainVars, svcVars, history, disk
<1>13. CASE Disconnects
  BY <1>13 DEF TypeOK, PlacesTyped, Disconnects, ctxVars, mainVars, svcVars, history, disk
<1>14. CASE WritesRequest
  BY <1>14 DEF TypeOK, PlacesTyped, WritesRequest, ctxVars, mainVars, svcVars, history, disk
<1>15. CASE Message
  BY <1>15 DEF TypeOK, PlacesTyped, Message, disk, ctxVars, mainVars
<1>16. CASE ErrorMessage
  BY <1>16 DEF TypeOK, PlacesTyped, ErrorMessage, ctxVars, mainVars, history, disk
<1>17. CASE ApiError
  BY <1>17 DEF TypeOK, PlacesTyped, ApiError, Signal, mainVars, poolVars, history, disk
<1>18. CASE WriteAudio
  BY <1>18 DEF TypeOK, PlacesTyped, WriteAudio, Fwrite, disk, mainVars, poolVars
<1>19. CASE Status
  BY <1>19 DEF TypeOK, PlacesTyped, Status, Signal, LastFrame, mainVars, poolVars,
         history, disk
<1> QED BY <1>1, <1>2, <1>3, <1>4, <1>5, <1>6, <1>7, <1>8, <1>9, <1>10, <1>11, <1>12,
       <1>13, <1>14, <1>15, <1>16, <1>17, <1>18, <1>19 DEF Next, MainStep, ServiceStep

LEMMA NumbersStep == ASSUME TypeOK, Next PROVE NumbersTyped'
<1>1. CASE SetupFails
  BY <1>1 DEF TypeOK, NumbersTyped, FlagsTyped, SetupFails, ctxVars, poolVars, svcVars,
         history, disk
<1>2. CASE Setup
  BY <1>2 DEF TypeOK, NumbersTyped, FlagsTyped, Setup, ctxVars, svcVars, history, disk
<1>3. CASE SkipsWait
  BY <1>3 DEF TypeOK, NumbersTyped, FlagsTyped, SkipsWait, ctxVars, mainVars, poolVars,
         svcVars, history, disk
<1>4. CASE SendRequest
  BY <1>4 DEF TypeOK, NumbersTyped, FlagsTyped, SendRequest, ctxVars, mainVars, svcVars,
         history, disk
<1>5. CASE Wait
  BY <1>5 DEF TypeOK, NumbersTyped, FlagsTyped, Wait, ReadResult, ctxVars, poolVars,
         svcVars, history, disk
<1>6. CASE Spurious
  BY <1>6 DEF TypeOK, NumbersTyped, FlagsTyped, Spurious, ctxVars, mainVars, poolVars,
         svcVars, history, disk
<1>7. CASE TimedOut
  BY <1>7 DEF TypeOK, NumbersTyped, FlagsTyped, TimedOut, ReadResult, Deadline, ctxVars,
         poolVars, svcVars, history, disk
<1>8. CASE CloseFile
  BY <1>8 DEF TypeOK, NumbersTyped, FlagsTyped, CloseFile, ctxVars, poolVars, svcVars,
         history, disk
<1>9. CASE DestroyPool
  BY <1>9 DEF TypeOK, NumbersTyped, FlagsTyped, DestroyPool, ThreadExited, ctxVars,
         mainVars, svcVars, history, disk
<1>10. CASE Exit
  BY <1>10 DEF TypeOK, NumbersTyped, FlagsTyped, Exit, ctxVars, poolVars, svcVars,
         history, disk
<1>11. CASE OnSignal
  BY <1>11 DEF TypeOK, NumbersTyped, FlagsTyped, OnSignal, ctxVars, mainVars, poolVars,
         svcVars, history, disk
<1>12. CASE Connects
  BY <1>12, FramesAssumption DEF TypeOK, NumbersTyped, FlagsTyped, Connects, ctxVars,
         mainVars, svcVars, history, disk
<1>13. CASE Disconnects
  BY <1>13 DEF TypeOK, NumbersTyped, FlagsTyped, Disconnects, ctxVars, mainVars,
         svcVars, history, disk
<1>14. CASE WritesRequest
  BY <1>14 DEF TypeOK, NumbersTyped, FlagsTyped, WritesRequest, ctxVars, mainVars,
         svcVars, history, disk
<1>15. CASE Message
  BY <1>15, OneNat, FramesAssumption DEF TypeOK, NumbersTyped, FlagsTyped, Message,
         disk, ctxVars, mainVars
<1>16. CASE ErrorMessage
  BY <1>16 DEF TypeOK, NumbersTyped, FlagsTyped, ErrorMessage, ctxVars, mainVars,
         history, disk
<1>17. CASE ApiError
  BY <1>17 DEF TypeOK, NumbersTyped, FlagsTyped, ApiError, Signal, mainVars, poolVars,
         history, disk
<1>18. CASE WriteAudio
  BY <1>18, OneNat DEF TypeOK, NumbersTyped, FlagsTyped, WriteAudio, Fwrite, disk, mainVars, poolVars
<1>19. CASE Status
  BY <1>19 DEF TypeOK, NumbersTyped, FlagsTyped, Status, Signal, LastFrame, mainVars,
         poolVars, history, disk
<1> QED BY <1>1, <1>2, <1>3, <1>4, <1>5, <1>6, <1>7, <1>8, <1>9, <1>10, <1>11, <1>12,
       <1>13, <1>14, <1>15, <1>16, <1>17, <1>18, <1>19 DEF Next, MainStep, ServiceStep

LEMMA ThreadStep == ASSUME TypeOK, Next PROVE ThreadRuns'
<1>1. CASE SetupFails
  BY <1>1 DEF TypeOK, ThreadRuns, PlacesTyped, FlagsTyped, SetupFails, ctxVars,
         poolVars, svcVars, history, disk
<1>2. CASE Setup
  BY <1>2 DEF TypeOK, ThreadRuns, PlacesTyped, FlagsTyped, Setup, ctxVars, svcVars,
         history, disk
<1>3. CASE SkipsWait
  BY <1>3 DEF TypeOK, ThreadRuns, PlacesTyped, FlagsTyped, SkipsWait, ctxVars, mainVars,
         poolVars, svcVars, history, disk
<1>4. CASE SendRequest
  BY <1>4 DEF TypeOK, ThreadRuns, PlacesTyped, FlagsTyped, SendRequest, ctxVars,
         mainVars, svcVars, history, disk
<1>5. CASE Wait
  BY <1>5 DEF TypeOK, ThreadRuns, PlacesTyped, FlagsTyped, Wait, ReadResult, ctxVars,
         poolVars, svcVars, history, disk
<1>6. CASE Spurious
  BY <1>6 DEF TypeOK, ThreadRuns, PlacesTyped, FlagsTyped, Spurious, ctxVars, mainVars,
         poolVars, svcVars, history, disk
<1>7. CASE TimedOut
  BY <1>7 DEF TypeOK, ThreadRuns, PlacesTyped, FlagsTyped, TimedOut, ReadResult,
         Deadline, ctxVars, poolVars, svcVars, history, disk
<1>8. CASE CloseFile
  BY <1>8 DEF TypeOK, ThreadRuns, PlacesTyped, FlagsTyped, CloseFile, ctxVars, poolVars,
         svcVars, history, disk
<1>9. CASE DestroyPool
  BY <1>9 DEF TypeOK, ThreadRuns, PlacesTyped, FlagsTyped, DestroyPool, ThreadExited,
         ctxVars, mainVars, svcVars, history, disk
<1>10. CASE Exit
  BY <1>10 DEF TypeOK, ThreadRuns, PlacesTyped, FlagsTyped, Exit, ctxVars, poolVars,
         svcVars, history, disk
<1>11. CASE OnSignal
  BY <1>11 DEF TypeOK, ThreadRuns, PlacesTyped, FlagsTyped, OnSignal, ctxVars, mainVars,
         poolVars, svcVars, history, disk
<1>12. CASE Connects
  BY <1>12 DEF TypeOK, ThreadRuns, PlacesTyped, FlagsTyped, Connects, ctxVars, mainVars,
         svcVars, history, disk
<1>13. CASE Disconnects
  BY <1>13 DEF TypeOK, ThreadRuns, PlacesTyped, FlagsTyped, Disconnects, ctxVars,
         mainVars, svcVars, history, disk
<1>14. CASE WritesRequest
  BY <1>14 DEF TypeOK, ThreadRuns, PlacesTyped, FlagsTyped, WritesRequest, ctxVars,
         mainVars, svcVars, history, disk
<1>15. CASE Message
  BY <1>15 DEF TypeOK, ThreadRuns, PlacesTyped, FlagsTyped, Message, disk, ctxVars, mainVars
<1>16. CASE ErrorMessage
  BY <1>16 DEF TypeOK, ThreadRuns, PlacesTyped, FlagsTyped, ErrorMessage, ctxVars,
         mainVars, history, disk
<1>17. CASE ApiError
  BY <1>17 DEF TypeOK, ThreadRuns, PlacesTyped, FlagsTyped, ApiError, Signal, mainVars,
         poolVars, history, disk
<1>18. CASE WriteAudio
  BY <1>18 DEF TypeOK, ThreadRuns, PlacesTyped, FlagsTyped, WriteAudio, Fwrite, disk, mainVars,
         poolVars
<1>19. CASE Status
  BY <1>19 DEF TypeOK, ThreadRuns, PlacesTyped, FlagsTyped, Status, Signal, LastFrame,
         mainVars, poolVars, history, disk
<1> QED BY <1>1, <1>2, <1>3, <1>4, <1>5, <1>6, <1>7, <1>8, <1>9, <1>10, <1>11, <1>12,
       <1>13, <1>14, <1>15, <1>16, <1>17, <1>18, <1>19 DEF Next, MainStep, ServiceStep

LEMMA TypeStep == ASSUME TypeOK, Next PROVE TypeOK'
BY FlagsStep, PlacesStep, NumbersStep, ThreadStep DEF TypeOK

-----------------------------------------------------------------------------
(***************************************************************************)
(* Every step preserves the rest.                                          *)
(***************************************************************************)
LEMMA TallyStep == ASSUME IInv, Next PROVE Tally'
<1> USE DEF IInv, TypeOK, FlagsTyped, PlacesTyped, NumbersTyped, ThreadRuns, Tally
<1>1. CASE SetupFails
  BY <1>1 DEF SetupFails, ctxVars, poolVars, svcVars, history, disk
<1>2. CASE Setup
  BY <1>2 DEF Setup, ctxVars, svcVars, history, disk
<1>3. CASE SkipsWait
  BY <1>3 DEF SkipsWait, ctxVars, mainVars, poolVars, svcVars, history, disk
<1>4. CASE SendRequest
  BY <1>4 DEF SendRequest, ctxVars, mainVars, svcVars, history, disk
<1>5. CASE Wait
  BY <1>5 DEF Wait, ReadResult, ctxVars, poolVars, svcVars, history, disk
<1>6. CASE Spurious
  BY <1>6 DEF Spurious, ctxVars, mainVars, poolVars, svcVars, history, disk
<1>7. CASE TimedOut
  BY <1>7 DEF TimedOut, ReadResult, Deadline, ctxVars, poolVars, svcVars, history, disk
<1>8. CASE CloseFile
  BY <1>8 DEF CloseFile, ctxVars, poolVars, svcVars, history, disk
<1>9. CASE DestroyPool
  BY <1>9 DEF DestroyPool, ThreadExited, ctxVars, mainVars, svcVars, history, disk
<1>10. CASE Exit
  BY <1>10 DEF Exit, ctxVars, poolVars, svcVars, history, disk
<1>11. CASE OnSignal
  BY <1>11 DEF OnSignal, ctxVars, mainVars, poolVars, svcVars, history, disk
<1>12. CASE Connects
  BY <1>12 DEF Connects, ctxVars, mainVars, svcVars, history, disk
<1>13. CASE Disconnects
  BY <1>13 DEF Disconnects, ctxVars, mainVars, svcVars, history, disk
<1>14. CASE WritesRequest
  BY <1>14 DEF WritesRequest, ctxVars, mainVars, svcVars, history, disk
<1>15. CASE Message
  BY <1>15, FramesAssumption DEF Message, disk, ctxVars, mainVars, One
<1>16. CASE ErrorMessage
  BY <1>16 DEF ErrorMessage, ctxVars, mainVars, history, disk
<1>17. CASE ApiError
  BY <1>17 DEF ApiError, Signal, mainVars, poolVars, history, disk
<1>18. CASE WriteAudio
  BY <1>18 DEF WriteAudio, Fwrite, disk, mainVars, poolVars, One
<1>19. CASE Status
  BY <1>19 DEF Status, Signal, LastFrame, mainVars, poolVars, history, disk
<1> QED BY <1>1, <1>2, <1>3, <1>4, <1>5, <1>6, <1>7, <1>8, <1>9, <1>10, <1>11, <1>12,
       <1>13, <1>14, <1>15, <1>16, <1>17, <1>18, <1>19 DEF Next, MainStep, ServiceStep

LEMMA DiskStep == ASSUME IInv, Next PROVE DiskOK'
<1> USE DEF IInv, TypeOK, NumbersTyped, DiskOK
<1>1. CASE CloseFile
  <2>1. content' \in 0..content /\ UNCHANGED total_bytes
    BY <1>1 DEF CloseFile, ctxVars
  <2>2. ~cut' => ~cut /\ content' = content
    BY <1>1, Zenon DEF CloseFile
  <2> QED BY <2>1, <2>2
<1>2. CASE WriteAudio
  BY <1>2 DEF WriteAudio, Fwrite, disk
<1>3. CASE Message \/ ApiError \/ Status
  BY <1>3 DEF Message, ApiError, Status, ctxVars, history, disk
<1>4. CASE UNCHANGED <<total_bytes, disk>>
  BY <1>4 DEF disk
<1>5. CASE \/ SetupFails \/ Setup \/ SkipsWait \/ SendRequest \/ Wait \/ Spurious \/ TimedOut
           \/ DestroyPool \/ Exit \/ OnSignal \/ Connects \/ Disconnects \/ WritesRequest
           \/ ErrorMessage
  <2>1. UNCHANGED <<ctxVars, history>>
    BY <1>5 DEF SetupFails, Setup, SkipsWait, SendRequest, Wait, Spurious, TimedOut, DestroyPool,
         Exit, OnSignal, Connects, Disconnects, WritesRequest, ErrorMessage
  <2> QED BY <2>1, <1>4 DEF ctxVars, history
<1> QED BY <1>1, <1>2, <1>3, <1>5 DEF Next, MainStep, ServiceStep

LEMMA EndStep == ASSUME IInv, Next PROVE EndSeen'
<1> USE DEF IInv, TypeOK, FlagsTyped, PlacesTyped, NumbersTyped, ThreadRuns, EndSeen
<1>1. CASE SetupFails
  BY <1>1 DEF SetupFails, ctxVars, poolVars, svcVars, history, disk
<1>2. CASE Setup
  BY <1>2 DEF Setup, ctxVars, svcVars, history, disk
<1>3. CASE SkipsWait
  BY <1>3 DEF SkipsWait, ctxVars, mainVars, poolVars, svcVars, history, disk
<1>4. CASE SendRequest
  BY <1>4 DEF SendRequest, ctxVars, mainVars, svcVars, history, disk
<1>5. CASE Wait
  BY <1>5 DEF Wait, ReadResult, ctxVars, poolVars, svcVars, history, disk
<1>6. CASE Spurious
  BY <1>6 DEF Spurious, ctxVars, mainVars, poolVars, svcVars, history, disk
<1>7. CASE TimedOut
  BY <1>7 DEF TimedOut, ReadResult, Deadline, ctxVars, poolVars, svcVars, history, disk
<1>8. CASE CloseFile
  BY <1>8 DEF CloseFile, ctxVars, poolVars, svcVars, history, disk
<1>9. CASE DestroyPool
  BY <1>9 DEF DestroyPool, ThreadExited, ctxVars, mainVars, svcVars, history, disk
<1>10. CASE Exit
  BY <1>10 DEF Exit, ctxVars, poolVars, svcVars, history, disk
<1>11. CASE OnSignal
  BY <1>11 DEF OnSignal, ctxVars, mainVars, poolVars, svcVars, history, disk
<1>12. CASE Connects
  BY <1>12 DEF Connects, ctxVars, mainVars, svcVars, history, disk
<1>13. CASE Disconnects
  BY <1>13 DEF Disconnects, ctxVars, mainVars, svcVars, history, disk
<1>14. CASE WritesRequest
  BY <1>14 DEF WritesRequest, ctxVars, mainVars, svcVars, history, disk
<1>15. CASE Message
  <2>1. PICK a \in BOOLEAN : msg' = [audio |-> a, last |-> next' = Frames]
    BY <1>15 DEF Message
  <2>2. msg'.last <=> next' = Frames
    BY <2>1, Zenon
  <2>3. next < Frames /\ UNCHANGED <<done, api_code>>
    BY <1>15 DEF Message, disk, ctxVars
  <2> QED BY <2>2, <2>3
<1>16. CASE ErrorMessage
  BY <1>16 DEF ErrorMessage, ctxVars, mainVars, history, disk
<1>17. CASE ApiError
  BY <1>17 DEF ApiError, Signal, mainVars, poolVars, history, disk
<1>18. CASE WriteAudio
  BY <1>18 DEF WriteAudio, Fwrite, disk, mainVars, poolVars
<1>19. CASE Status
  BY <1>19 DEF Status, Signal, LastFrame, mainVars, poolVars, history, disk
<1> QED BY <1>1, <1>2, <1>3, <1>4, <1>5, <1>6, <1>7, <1>8, <1>9, <1>10, <1>11, <1>12,
       <1>13, <1>14, <1>15, <1>16, <1>17, <1>18, <1>19 DEF Next, MainStep, ServiceStep

LEMMA FileStep == ASSUME IInv, Next PROVE FileOK'
<1> USE DEF IInv, TypeOK, FlagsTyped, PlacesTyped, NumbersTyped, ThreadRuns, FileOK
<1>1. CASE SetupFails
  BY <1>1 DEF SetupFails, ctxVars, poolVars, svcVars, history, disk
<1>2. CASE Setup
  BY <1>2 DEF Setup, ctxVars, svcVars, history, disk
<1>3. CASE SkipsWait
  BY <1>3 DEF SkipsWait, ctxVars, mainVars, poolVars, svcVars, history, disk
<1>4. CASE SendRequest
  BY <1>4 DEF SendRequest, ctxVars, mainVars, svcVars, history, disk
<1>5. CASE Wait
  BY <1>5 DEF Wait, ReadResult, ctxVars, poolVars, svcVars, history, disk
<1>6. CASE Spurious
  BY <1>6 DEF Spurious, ctxVars, mainVars, poolVars, svcVars, history, disk
<1>7. CASE TimedOut
  BY <1>7 DEF TimedOut, ReadResult, Deadline, ctxVars, poolVars, svcVars, history, disk
<1>8. CASE CloseFile
  BY <1>8 DEF CloseFile, ctxVars, poolVars, svcVars, history, disk
<1>9. CASE DestroyPool
  BY <1>9 DEF DestroyPool, ThreadExited, ctxVars, mainVars, svcVars, history, disk
<1>10. CASE Exit
  BY <1>10 DEF Exit, ctxVars, poolVars, svcVars, history, disk
<1>11. CASE OnSignal
  BY <1>11 DEF OnSignal, ctxVars, mainVars, poolVars, svcVars, history, disk
<1>12. CASE Connects
  BY <1>12 DEF Connects, ctxVars, mainVars, svcVars, history, disk
<1>13. CASE Disconnects
  BY <1>13 DEF Disconnects, ctxVars, mainVars, svcVars, history, disk
<1>14. CASE WritesRequest
  BY <1>14 DEF WritesRequest, ctxVars, mainVars, svcVars, history, disk
<1>15. CASE Message
  BY <1>15, FramesAssumption DEF Message, disk, ctxVars, mainVars
<1>16. CASE ErrorMessage
  BY <1>16 DEF ErrorMessage, ctxVars, mainVars, history, disk
<1>17. CASE ApiError
  BY <1>17 DEF ApiError, Signal, mainVars, poolVars, history, disk
<1>18. CASE WriteAudio
  BY <1>18 DEF WriteAudio, Fwrite, disk, mainVars, poolVars
<1>19. CASE Status
  BY <1>19 DEF Status, Signal, LastFrame, mainVars, poolVars, history, disk
<1> QED BY <1>1, <1>2, <1>3, <1>4, <1>5, <1>6, <1>7, <1>8, <1>9, <1>10, <1>11, <1>12,
       <1>13, <1>14, <1>15, <1>16, <1>17, <1>18, <1>19 DEF Next, MainStep, ServiceStep

LEMMA OutcomeStep == ASSUME IInv, Next PROVE OutcomeOK'
<1> USE DEF IInv, OutcomeOK
<1>1. CASE SetupFails
  BY <1>1 DEF SetupFails, ctxVars, poolVars, svcVars, history, disk
<1>2. CASE Setup
  BY <1>2 DEF Setup, ctxVars, svcVars, history, disk
<1>3. CASE SkipsWait
  BY <1>3 DEF SkipsWait, ctxVars, mainVars, poolVars, svcVars, history, disk
<1>4. CASE SendRequest
  BY <1>4 DEF SendRequest, ctxVars, mainVars, svcVars, history, disk
<1>5. CASE Wait
  <2>1. main \in {"entering", "woken", "blocked"} /\ UNCHANGED <<next, svc, total_bytes, afterClose, exit>>
    BY <1>5 DEF Wait, ctxVars, mainVars, poolVars, svcVars, history, disk
  <2>2. outcome = "unset" /\ ~afterClose
    BY <2>1 DEF FileOK
  <2>3. CASE ReadResult
    <3>1. main' = "cleanup" /\ bytes' = total_bytes
      BY <2>3 DEF ReadResult
    <3>2. outcome' = "success" => done /\ ~api_code
      BY <2>3 DEF ReadResult
    <3>3. exit' # 0
      BY <2>1
    <3> QED BY <2>1, <2>2, <3>1, <3>2, <3>3 DEF EndSeen
  <2>4. CASE ~ReadResult
    BY <1>5, <2>1, <2>2, <2>4 DEF Wait
  <2> QED BY <2>3, <2>4
<1>6. CASE Spurious
  BY <1>6 DEF Spurious, ctxVars, mainVars, poolVars, svcVars, history, disk
<1>7. CASE TimedOut
  <2>1. main \in {"entering", "woken", "blocked"} /\ UNCHANGED <<next, svc, total_bytes, afterClose, exit>>
    BY <1>7 DEF TimedOut, Deadline, ctxVars, mainVars, poolVars, svcVars, history, disk
  <2>2. outcome = "unset" /\ ~afterClose
    BY <2>1 DEF FileOK
  <2>3. CASE ReadResult
    <3>1. main' = "cleanup" /\ bytes' = total_bytes
      BY <2>3 DEF ReadResult
    <3>2. outcome' = "success" => done /\ ~api_code
      BY <2>3 DEF ReadResult
    <3>3. exit' # 0
      BY <2>1
    <3> QED BY <2>1, <2>2, <3>1, <3>2, <3>3 DEF EndSeen
  <2> QED BY <1>7, <2>3 DEF TimedOut
<1>8. CASE CloseFile
  BY <1>8 DEF CloseFile, ctxVars, poolVars, svcVars, history, disk
<1>9. CASE DestroyPool
  BY <1>9 DEF DestroyPool, ThreadExited, ctxVars, mainVars, svcVars, history, disk
<1>10. CASE Exit
  BY <1>10 DEF Exit, ctxVars, poolVars, svcVars, history, disk
<1>11. CASE OnSignal
  BY <1>11 DEF OnSignal, ctxVars, mainVars, poolVars, svcVars, history, disk
<1>12. CASE Connects
  BY <1>12 DEF Connects, ctxVars, mainVars, svcVars, history, disk
<1>13. CASE Disconnects
  BY <1>13 DEF Disconnects, ctxVars, mainVars, svcVars, history, disk
<1>14. CASE WritesRequest
  BY <1>14 DEF WritesRequest, ctxVars, mainVars, svcVars, history, disk
<1>15. CASE Message
  BY <1>15, FramesAssumption DEF Message, disk, ctxVars, mainVars
<1>16. CASE ErrorMessage
  BY <1>16 DEF ErrorMessage, ctxVars, mainVars, history, disk
<1>17. CASE ApiError
  BY <1>17 DEF ApiError, Signal, mainVars, poolVars, history, disk
<1>18. CASE WriteAudio
  BY <1>18 DEF WriteAudio, Fwrite, disk, mainVars, poolVars
<1>19. CASE Status
  BY <1>19 DEF Status, Signal, LastFrame, mainVars, poolVars, history, disk
<1> QED BY <1>1, <1>2, <1>3, <1>4, <1>5, <1>6, <1>7, <1>8, <1>9, <1>10, <1>11, <1>12,
       <1>13, <1>14, <1>15, <1>16, <1>17, <1>18, <1>19 DEF Next, MainStep, ServiceStep

LEMMA SignalStep == ASSUME IInv, Next PROVE NoLostSignal'
<1> USE DEF IInv, TypeOK, FlagsTyped, PlacesTyped, NumbersTyped, ThreadRuns, NoLostSignal
<1>1. CASE SetupFails
  BY <1>1 DEF SetupFails, ctxVars, poolVars, svcVars, history, disk
<1>2. CASE Setup
  BY <1>2 DEF Setup, ctxVars, svcVars, history, disk
<1>3. CASE SkipsWait
  BY <1>3 DEF SkipsWait, ctxVars, mainVars, poolVars, svcVars, history, disk
<1>4. CASE SendRequest
  BY <1>4 DEF SendRequest, ctxVars, mainVars, svcVars, history, disk
<1>5. CASE Wait
  BY <1>5 DEF Wait, ReadResult, ctxVars, poolVars, svcVars, history, disk
<1>6. CASE Spurious
  BY <1>6 DEF Spurious, ctxVars, mainVars, poolVars, svcVars, history, disk
<1>7. CASE TimedOut
  BY <1>7 DEF TimedOut, ReadResult, Deadline, ctxVars, poolVars, svcVars, history, disk
<1>8. CASE CloseFile
  BY <1>8 DEF CloseFile, ctxVars, poolVars, svcVars, history, disk
<1>9. CASE DestroyPool
  BY <1>9 DEF DestroyPool, ThreadExited, ctxVars, mainVars, svcVars, history, disk
<1>10. CASE Exit
  BY <1>10 DEF Exit, ctxVars, poolVars, svcVars, history, disk
<1>11. CASE OnSignal
  BY <1>11 DEF OnSignal, ctxVars, mainVars, poolVars, svcVars, history, disk
<1>12. CASE Connects
  BY <1>12 DEF Connects, ctxVars, mainVars, svcVars, history, disk
<1>13. CASE Disconnects
  BY <1>13 DEF Disconnects, ctxVars, mainVars, svcVars, history, disk
<1>14. CASE WritesRequest
  BY <1>14 DEF WritesRequest, ctxVars, mainVars, svcVars, history, disk
<1>15. CASE Message
  BY <1>15, FramesAssumption DEF Message, disk, ctxVars, mainVars
<1>16. CASE ErrorMessage
  BY <1>16 DEF ErrorMessage, ctxVars, mainVars, history, disk
<1>17. CASE ApiError
  BY <1>17 DEF ApiError, Signal, mainVars, poolVars, history, disk
<1>18. CASE WriteAudio
  BY <1>18 DEF WriteAudio, Fwrite, disk, mainVars, poolVars
<1>19. CASE Status
  BY <1>19 DEF Status, Signal, LastFrame, mainVars, poolVars, history, disk
<1> QED BY <1>1, <1>2, <1>3, <1>4, <1>5, <1>6, <1>7, <1>8, <1>9, <1>10, <1>11, <1>12,
       <1>13, <1>14, <1>15, <1>16, <1>17, <1>18, <1>19 DEF Next, MainStep, ServiceStep

LEMMA Stutter == ASSUME IInv, UNCHANGED vars PROVE IInv'
BY DEF IInv, TypeOK, FlagsTyped, PlacesTyped, NumbersTyped, ThreadRuns, Tally,
       DiskOK, EndSeen, FileOK, OutcomeOK, NoLostSignal, vars, ctxVars, mainVars, poolVars, svcVars, history, disk

-----------------------------------------------------------------------------
\* IInv holds in every reachable state of xfyun_tts.c's two threads.
THEOREM TtsInvariance == Spec => []IInv
<1>1. IInv /\ [Next]_vars => IInv'
  <2>1. IInv /\ Next => IInv'
    BY TypeStep, TallyStep, DiskStep, EndStep, FileStep, OutcomeStep, SignalStep DEF IInv
  <2> QED BY <2>1, Stutter
<1> QED BY InitInv, <1>1, PTL DEF Spec

\* Every variable keeps its type, and on_tts_message runs only while the pool exists.
THEOREM TtsTypeCorrect == Spec => []TypeOK
<1>1. IInv => TypeOK
  BY DEF IInv
<1> QED BY TtsInvariance, <1>1, PTL

\* A program that waited and returned 0 has handed the whole answer, but for what it
\* dropped, to fwrite before the file was closed, and reports that number; the file holds
\* as much unless a write failed (xfyun_tts.c:306-307, 442-461).
THEOREM TtsSuccessMeansWhole == Spec => []SuccessMeansWhole
<1>1. IInv => SuccessMeansWhole
  BY DEF IInv, OutcomeOK, Tally, DiskOK, SuccessMeansWhole, TypeOK, NumbersTyped
<1> QED BY TtsInvariance, <1>1, PTL

\* pthread_cond_timedwait is never entered, nor stayed in, with done set
\* (xfyun_tts.c:435-441 against 284-288 and 323-326).
THEOREM TtsNoLostSignal == Spec => []NoLostSignal
<1>1. IInv => NoLostSignal
  BY DEF IInv
<1> QED BY TtsInvariance, <1>1, PTL
=============================================================================
