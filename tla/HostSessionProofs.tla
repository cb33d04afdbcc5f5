-------------------------- MODULE HostSessionProofs --------------------------
(***************************************************************************)
(* Proofs about HostSession for all intervals and bounds: types and the    *)
(* lock, that no part is shut down while a thread uses it, and the time    *)
(* within which a change of the desktop is captured.                       *)
(***************************************************************************)
EXTENDS HostSession, TLAPS

Before == {"receiver", "list", "start"}
AfterInput == {"clear", "capture", "join_capture", "encoder", "injector", "stopped"}
AfterCapture == {"encoder", "injector", "stopped"}

(* What the stage of the session thread says about the threads and parts:   *)
(* the order of Start and Stop.                                             *)
Staged ==
  /\ session \in Before <=> capturer = "off"
  /\ session \in AfterCapture => capturer = "done"
  /\ session = "streaming" => running
  /\ capturer = "done" => ~ running
  /\ session \in AfterInput => input \in {"none", "exited"}
  /\ ~ sender => session \in AfterInput
  /\ session \in AfterInput \ {"clear"} => client = "cleared"
  /\ ~ encoder => session \in {"injector", "stopped"}
  /\ ~ injector => session = "stopped"

(* The steps that leave the session's own variables alone. *)
LEMMA LatencyInNat == Latency \in Nat
  BY CaptureAssumption DEF Latency

LEMMA OlderInRange == \A t \in 0..NoChange : Older(t) \in 0..NoChange
  BY LatencyInNat DEF Older, NoChange

LEMMA FirstValues ==
  /\ 0 \in 0..MinInterval /\ MinInterval \in 0..MinInterval
  /\ 0 \in 0..(IF MaxEncode < Fallback THEN Fallback ELSE MaxEncode)
  /\ 0 \in 0..NoChange /\ NoChange \in 0..NoChange
  BY CaptureAssumption, LatencyInNat DEF NoChange

------------------------------------------------------------------------------
LEMMA InitTyped == Init => TypeOK /\ Staged
<1> SUFFICES ASSUME Init PROVE TypeOK /\ Staged
  OBVIOUS
<1>1. CaptureTypeOK
  BY FirstValues DEF Init, CaptureInit, CaptureTypeOK
<1>2. faults \in 0..MaxFaults
  BY FaultsAssumption DEF Init
<1>3. Staged
  BY DEF Init, CaptureInit, Staged, Before, AfterInput, AfterCapture
<1> QED BY <1>1, <1>2, <1>3 DEF Init, CaptureInit, TypeOK

(* Steps of the capture thread and its clock keep the capture's types.      *)
LEMMA CaptureStepTyped ==
  ASSUME CaptureTypeOK,
         \/ StartCapture \/ TriggerCapture \/ StopCapture \/ ReleaseCapture
         \/ WakeAndEnd \/ WakeTooEarly \/ WakeAndMiss \/ WakeAndCapture \/ WakeAndFail
         \/ EncodeEnds("fanout") \/ EncodeEnds("wait")
         \/ CallbackReturns("fanout", "send") \/ CallbackReturns("send", "wait")
         \/ DesktopChanges
         \/ \E blocked \in BOOLEAN : Tick(blocked)
  PROVE  CaptureTypeOK'
<1> USE FirstValues DEF CaptureTypeOK
<1>1. CASE StartCapture \/ TriggerCapture \/ StopCapture \/ ReleaseCapture
  BY <1>1 DEF StartCapture, TriggerCapture, StopCapture, ReleaseCapture
<1>2. CASE WakeAndEnd \/ WakeTooEarly \/ WakeAndMiss
  BY <1>2 DEF WakeAndEnd, WakeTooEarly, WakeAndMiss, WaitAgain
<1>3. CASE WakeAndCapture \/ WakeAndFail
  BY <1>3 DEF WakeAndCapture, WakeAndFail, WaitAgain
<1>4. CASE EncodeEnds("fanout") \/ EncodeEnds("wait")
  BY <1>4 DEF EncodeEnds
<1>5. CASE CallbackReturns("fanout", "send") \/ CallbackReturns("send", "wait")
  BY <1>5 DEF CallbackReturns
<1>6. CASE DesktopChanges
  BY <1>6 DEF DesktopChanges
<1>7. ASSUME NEW blocked \in BOOLEAN, Tick(blocked)
      PROVE  CaptureTypeOK'
  <2>1. age' \in 0..NoChange
    BY <1>7, OlderInRange DEF Tick
  <2>2. since' \in 0..MinInterval
    BY <1>7, CaptureAssumption DEF Tick
  <2>3. timer' \in 0..(IF MaxEncode < Fallback THEN Fallback ELSE MaxEncode)
    BY <1>7, CaptureAssumption DEF Tick
  <2> QED BY <1>7, <2>1, <2>2, <2>3 DEF Tick
<1> QED BY <1>1, <1>2, <1>3, <1>4, <1>5, <1>6, <1>7

LEMMA CaptureKeeps == CaptureTypeOK /\ UNCHANGED captureVars => CaptureTypeOK'
  BY DEF CaptureTypeOK, captureVars
------------------------------------------------------------------------------
(* Every step keeps the types, the lock and the order of the stages.        *)
LEMMA StepTyped == TypeOK /\ Staged /\ [Next]_vars => TypeOK' /\ Staged'
<1> SUFFICES ASSUME TypeOK, Staged, [Next]_vars PROVE TypeOK' /\ Staged'
  OBVIOUS
<1> USE DEF Before, AfterInput, AfterCapture
<1>0. CaptureTypeOK
  BY DEF TypeOK
<1>1. CASE AddClientReceiver
  <2>1. CaptureTypeOK'
    BY <1>0, <1>1, CaptureKeeps DEF AddClientReceiver
  <2>2. Staged'
    BY <1>1, <1>0 DEF Staged, CaptureTypeOK, captureVars, AddClientReceiver, Proceed
  <2> QED BY <1>1, <2>1, <2>2, FaultsAssumption DEF TypeOK, captureVars, AddClientReceiver, Proceed
<1>2. CASE AddClientList
  <2>1. CaptureTypeOK'
    BY <1>0, <1>2, CaptureKeeps DEF AddClientList
  <2>2. Staged'
    BY <1>2, <1>0 DEF Staged, CaptureTypeOK, captureVars, AddClientList, Proceed
  <2> QED BY <1>2, <2>1, <2>2, FaultsAssumption DEF TypeOK, captureVars, AddClientList, Proceed
<1>3. CASE Start
  <2>1. CaptureTypeOK'
    BY <1>0, <1>3, CaptureStepTyped DEF Start
  <2>2. Staged'
    BY <1>3, <1>0 DEF Staged, CaptureTypeOK, Start, Proceed, StartCapture
  <2> QED BY <1>3, <2>1, <2>2, FaultsAssumption DEF TypeOK, Staged, Start, Proceed, StartCapture
<1>4. CASE Stop
  <2>1. CaptureTypeOK'
    BY <1>0, <1>4, CaptureKeeps DEF Stop
  <2>2. Staged'
    BY <1>4, <1>0 DEF Staged, CaptureTypeOK, captureVars, Stop, Proceed
  <2> QED BY <1>4, <2>1, <2>2, FaultsAssumption DEF TypeOK, captureVars, Stop, Proceed
<1>5. CASE StopLock
  <2>1. CaptureTypeOK'
    BY <1>0, <1>5, CaptureKeeps DEF StopLock
  <2>2. Staged'
    BY <1>5, <1>0 DEF Staged, CaptureTypeOK, captureVars, StopLock, Proceed
  <2> QED BY <1>5, <2>1, <2>2, FaultsAssumption DEF TypeOK, captureVars, StopLock, Proceed
<1>6. CASE StopSenders
  <2>1. CaptureTypeOK'
    BY <1>0, <1>6, CaptureKeeps DEF StopSenders
  <2>2. Staged'
    BY <1>6, <1>0 DEF Staged, CaptureTypeOK, captureVars, StopSenders, Proceed
  <2> QED BY <1>6, <2>1, <2>2, FaultsAssumption DEF TypeOK, captureVars, StopSenders, Proceed
<1>7. CASE ClearClients
  <2>1. CaptureTypeOK'
    BY <1>0, <1>7, CaptureKeeps DEF ClearClients
  <2>2. Staged'
    BY <1>7, <1>0 DEF Staged, CaptureTypeOK, captureVars, ClearClients, Proceed
  <2> QED BY <1>7, <2>1, <2>2, FaultsAssumption DEF TypeOK, captureVars, ClearClients, Proceed
<1>8. CASE StopCapturing
  <2>1. CaptureTypeOK'
    BY <1>0, <1>8, CaptureStepTyped DEF StopCapturing
  <2>2. Staged'
    BY <1>8, <1>0 DEF Staged, CaptureTypeOK, StopCapturing, Proceed, StopCapture
  <2> QED BY <1>8, <2>1, <2>2, FaultsAssumption DEF TypeOK, StopCapturing, Proceed, StopCapture
<1>9. CASE JoinCapture
  <2>1. CaptureTypeOK'
    BY <1>0, <1>9, CaptureStepTyped DEF JoinCapture
  <2>2. Staged'
    BY <1>9, <1>0 DEF Staged, CaptureTypeOK, JoinCapture, Proceed, ReleaseCapture, TypeOK
  <2> QED BY <1>9, <2>1, <2>2, FaultsAssumption DEF TypeOK, JoinCapture, Proceed, ReleaseCapture
<1>10. CASE ShutdownEncoder
  <2>1. CaptureTypeOK'
    BY <1>0, <1>10, CaptureKeeps DEF ShutdownEncoder
  <2>2. Staged'
    BY <1>10, <1>0 DEF Staged, CaptureTypeOK, captureVars, ShutdownEncoder, Proceed
  <2> QED BY <1>10, <2>1, <2>2, FaultsAssumption DEF TypeOK, captureVars, ShutdownEncoder, Proceed
<1>11. CASE ShutdownInjector
  <2>1. CaptureTypeOK'
    BY <1>0, <1>11, CaptureKeeps DEF ShutdownInjector
  <2>2. Staged'
    BY <1>11, <1>0 DEF Staged, CaptureTypeOK, captureVars, ShutdownInjector, Proceed
  <2> QED BY <1>11, <2>1, <2>2, FaultsAssumption DEF TypeOK, captureVars, ShutdownInjector, Proceed
<1>12. CASE CaptureLoop
  <2>1. CaptureTypeOK'
    BY <1>0, <1>12, CaptureStepTyped DEF CaptureLoop
  <2>2. Staged'
    BY <1>12, <1>0 DEF Staged, CaptureTypeOK, CaptureLoop, WakeAndEnd, WakeTooEarly, WakeAndMiss, WakeAndCapture, WaitAgain, Due, Woken, hostVars
  <2> QED BY <1>12, <2>1, <2>2, FaultsAssumption DEF TypeOK, CaptureLoop, WakeAndEnd, WakeTooEarly, WakeAndMiss, WakeAndCapture, WaitAgain, Due, Woken, hostVars
<1>13. CASE CaptureFails
  <2>1. CaptureTypeOK'
    BY <1>0, <1>13, CaptureStepTyped DEF CaptureFails
  <2>2. Staged'
    BY <1>13, <1>0 DEF Staged, CaptureTypeOK, CaptureFails, WakeAndFail, WaitAgain, Due, Woken, Fault, hostVars
  <2> QED BY <1>13, <2>1, <2>2, FaultsAssumption DEF TypeOK, CaptureFails, WakeAndFail, WaitAgain, Due, Woken, Fault, hostVars
<1>14. CASE EncodeDone
  <2>1. CaptureTypeOK'
    BY <1>0, <1>14, CaptureStepTyped DEF EncodeDone
  <2>2. Staged'
    BY <1>14, <1>0 DEF Staged, CaptureTypeOK, EncodeDone, EncodeEnds, hostVars
  <2> QED BY <1>14, <2>1, <2>2, FaultsAssumption DEF TypeOK, EncodeDone, EncodeEnds, hostVars
<1>15. CASE EncodeFails
  <2>1. CaptureTypeOK'
    BY <1>0, <1>15, CaptureStepTyped DEF EncodeFails
  <2>2. Staged'
    BY <1>15, <1>0 DEF Staged, CaptureTypeOK, EncodeFails, EncodeEnds, Fault, hostVars
  <2> QED BY <1>15, <2>1, <2>2, FaultsAssumption DEF TypeOK, EncodeFails, EncodeEnds, Fault, hostVars
<1>16. CASE OnEncodeDone
  <2>1. CaptureTypeOK'
    BY <1>0, <1>16, CaptureStepTyped DEF OnEncodeDone
  <2>2. Staged'
    BY <1>16, <1>0 DEF Staged, CaptureTypeOK, OnEncodeDone, CallbackReturns
  <2> QED BY <1>16, <2>1, <2>2, FaultsAssumption DEF TypeOK, OnEncodeDone, CallbackReturns
<1>17. CASE FrameSent
  <2>1. CaptureTypeOK'
    BY <1>0, <1>17, CaptureStepTyped DEF FrameSent
  <2>2. Staged'
    BY <1>17, <1>0 DEF Staged, CaptureTypeOK, FrameSent, CallbackReturns
  <2> QED BY <1>17, <2>1, <2>2, FaultsAssumption DEF TypeOK, FrameSent, CallbackReturns
<1>18. CASE InputStep
  <2>1. CaptureTypeOK'
    BY <1>0, <1>18, CaptureKeeps, CaptureStepTyped
       DEF InputStep, ReceiveInput, ForceIdr, ProcessInput, Trigger, ReceiveNothing, InputLoops
  <2>2. /\ UNCHANGED <<running, capturer, session, mutex, client, sender, receiving, encoder, injector, faults>>
        /\ input \notin {"none", "exited"}
        /\ input' \in {"recv", "force_idr", "inject", "trigger", "loop", "exited"}
    BY <1>18 DEF InputStep, ReceiveInput, ForceIdr, ProcessInput, Trigger, ReceiveNothing, InputLoops,
                InputGoes, TriggerCapture, captureVars
  <2>3. Staged'
    BY <2>2 DEF Staged
  <2> QED BY <2>1, <2>2, <2>3 DEF TypeOK
<1>19. CASE Environment
  <2>1. CaptureTypeOK'
    BY <1>0, <1>19, CaptureStepTyped DEF Environment
  <2>2. UNCHANGED <<running, capturer, hostVars, faults>>
    BY <1>19 DEF Environment, DesktopChanges, Tick
  <2>3. Staged'
    BY <2>2 DEF Staged, hostVars
  <2> QED BY <2>1, <2>2, <2>3 DEF TypeOK, hostVars
<1>20. CASE UNCHANGED vars
  BY <1>0, <1>20, CaptureKeeps DEF TypeOK, Staged, vars, captureVars, hostVars
<1> QED
  BY <1>1, <1>2, <1>3, <1>4, <1>5, <1>6, <1>7, <1>8, <1>9, <1>10, <1>11, <1>12, <1>13, <1>14, <1>15, <1>16, <1>17, <1>18, <1>19, <1>20
  DEF Next, SessionStep, CaptureStep

(* Every variable keeps its type and m_clientsMutex is held by whoever is   *)
(* in the section it guards, for all intervals and any number of faults.    *)
THEOREM HostTypeCorrect == Spec => []TypeOK
<1>1. Spec => [](TypeOK /\ Staged)
  BY InitTyped, StepTyped, PTL DEF Spec
<1> QED BY <1>1, PTL

(* Whatever a thread is doing, the part of the session it is using has not  *)
(* been shut down: HostSession::Stop joins the input thread, clears the     *)
(* clients and joins the capture thread before it shuts anything down.      *)
THEOREM PartsStayAlive == Spec => []PartsAlive
<1>1. TypeOK /\ Staged => PartsAlive
  BY DEF TypeOK, CaptureTypeOK, Staged, PartsAlive, Before, AfterInput, AfterCapture
<1>2. Spec => [](TypeOK /\ Staged)
  BY InitTyped, StepTyped, PTL DEF Spec
<1> QED BY <1>1, <1>2, PTL

------------------------------------------------------------------------------
(* How long a change has waited, by what the capture thread is doing: never *)
(* longer than the last capture is ago, while that is within the minimum    *)
(* interval; as long as the encode; or one wait more than that.             *)
Slack == IF MaxEncode < MinInterval THEN MinInterval - 1 ELSE MaxEncode

Waited ==
  /\ capturer = "off" => age = 0
  /\ since < MinInterval => age <= since
  /\ capturer = "encode" => age <= timer
  /\ capturer \in {"fanout", "send"} => age <= MaxEncode
  /\ capturer = "wait" => age <= Slack + timer

Punctual ==
  /\ capturer \in {"off", "fanout", "send"} => timer = 0
  /\ capturer = "wait" => timer <= Fallback
  /\ capturer = "encode" => timer <= MaxEncode
  /\ session \in Before \union {"streaming"} /\ faults = 0 /\ age # NoChange => Waited

LEMMA SlackFacts ==
  /\ Slack \in Nat
  /\ MaxEncode <= Slack
  /\ MinInterval - 1 <= Slack
  /\ Latency = Slack + Fallback
  /\ NoChange = Slack + Fallback + 2
  BY CaptureAssumption DEF Slack, Latency, NoChange

LEMMA InitPunctual == Init => Punctual
  BY CaptureAssumption, SlackFacts DEF Init, CaptureInit, Punctual

LEMMA StepPunctual == TypeOK /\ Staged /\ Punctual /\ [Next]_vars => Punctual'
<1> SUFFICES ASSUME TypeOK, Staged, Punctual, [Next]_vars PROVE Punctual'
  OBVIOUS
<1> USE CaptureAssumption, FaultsAssumption, SlackFacts DEF Before
<1>0. /\ since \in 0..MinInterval
      /\ timer \in Nat
      /\ age \in 0..NoChange
      /\ capturer \in {"off", "wait", "encode", "fanout", "send", "done"}
      /\ faults \in Nat
  BY DEF TypeOK, CaptureTypeOK
<1>1. CASE Start
  BY <1>0, <1>1 DEF Start, Proceed, StartCapture, Punctual, Waited, Staged
<1>2. CASE AddClientReceiver \/ AddClientList
  BY <1>2 DEF AddClientReceiver, AddClientList, Proceed, captureVars, Punctual, Waited
<1>3. CASE Stop \/ StopLock \/ StopSenders \/ ClearClients \/ StopCapturing \/ JoinCapture
           \/ ShutdownEncoder \/ ShutdownInjector
  BY <1>3 DEF Stop, StopLock, StopSenders, ClearClients, StopCapturing, JoinCapture, ShutdownEncoder,
              ShutdownInjector, Proceed, StopCapture, ReleaseCapture, captureVars, Punctual
<1>4. CASE CaptureLoop
  <2>1. UNCHANGED <<session, faults>>
    BY <1>4 DEF CaptureLoop, hostVars
  <2>2. CASE WakeAndEnd
    BY <2>1, <2>2, <1>0 DEF WakeAndEnd, Woken, Punctual, Staged
  <2>3. CASE WakeTooEarly
    BY <2>1, <2>3, <1>0 DEF WakeTooEarly, WaitAgain, Woken, Punctual, Waited
  <2>4. CASE WakeAndMiss
    BY <2>1, <2>4, <1>0 DEF WakeAndMiss, Due, WaitAgain, Woken, Punctual
  <2>5. CASE WakeAndCapture
    BY <2>1, <2>5, <1>0 DEF WakeAndCapture, Due, Woken, Punctual
  <2> QED BY <1>4, <2>2, <2>3, <2>4, <2>5 DEF CaptureLoop
<1>5. CASE CaptureFails
  BY <1>0, <1>5 DEF CaptureFails, WakeAndFail, Due, Woken, WaitAgain, Fault, Punctual
<1>6. CASE EncodeDone \/ EncodeFails
  BY <1>0, <1>6 DEF EncodeDone, EncodeFails, EncodeEnds, hostVars, Fault, Punctual, Waited
<1>7. CASE OnEncodeDone \/ FrameSent
  BY <1>0, <1>7 DEF OnEncodeDone, FrameSent, CallbackReturns, Punctual, Waited
<1>8. CASE InputStep
  BY <1>8 DEF InputStep, ReceiveInput, ForceIdr, ProcessInput, Trigger, ReceiveNothing, InputLoops,
              InputGoes, TriggerCapture, captureVars, Punctual, Waited
<1>9. CASE DesktopChanges /\ UNCHANGED <<hostVars, faults>>
  BY <1>0, <1>9 DEF DesktopChanges, hostVars, Punctual, Waited
<1>10. CASE Tick(capturer = "fanout" /\ mutex = "session") /\ UNCHANGED <<hostVars, faults>>
  <2> DEFINE blocked == capturer = "fanout" /\ mutex = "session"
  <2>1. Tick(blocked) /\ UNCHANGED <<session, faults, capturer>>
    BY <1>10 DEF Tick, hostVars
  <2>2. /\ capturer # "off"
        /\ capturer \in {"fanout", "send"} => timer' = 0
        /\ capturer = "wait" => timer' <= Fallback
        /\ capturer = "encode" => timer' <= MaxEncode
    BY <2>1, <1>0 DEF Tick, Punctual
  <2>3. ASSUME session \in Before \union {"streaming"}, faults = 0, age # NoChange, Waited
        PROVE  Waited'
    <3>1. ~ blocked
      BY <2>3 DEF TypeOK
    <3>2. age <= Latency
      BY <1>0, <2>1, <2>3, <3>1 DEF Waited, Tick
    <3>3. age' = age + 1 /\ timer' = timer + 1
      BY <1>0, <2>1, <3>1, <3>2 DEF Tick, Older
    <3> QED BY <1>0, <2>1, <2>2, <2>3, <3>1, <3>3 DEF Waited, Tick
  <2>4. age' # NoChange => age # NoChange
    BY <1>0, <2>1 DEF Tick, Older
  <2> QED BY <2>1, <2>2, <2>3, <2>4 DEF Punctual
<1>11. CASE UNCHANGED vars
  BY <1>11 DEF vars, captureVars, hostVars, Punctual, Waited
<1> QED
  BY <1>1, <1>2, <1>3, <1>4, <1>5, <1>6, <1>7, <1>8, <1>9, <1>10, <1>11
  DEF Next, SessionStep, CaptureStep, Environment

(* While the session streams and no capture fails, a change of the desktop  *)
(* is captured within Latency, whatever the intervals: the triggers that    *)
(* CaptureLoop drops within the minimum interval never delay it further.    *)
THEOREM CapturedInTime == Spec => []CaptureInTime
<1>1. TypeOK /\ Staged /\ Punctual => CaptureInTime
  BY CaptureAssumption, SlackFacts
  DEF TypeOK, CaptureTypeOK, Staged, Punctual, Waited, CaptureInTime, Before
<1>2. Spec => [](TypeOK /\ Staged /\ Punctual)
  BY InitTyped, StepTyped, InitPunctual, StepPunctual, PTL DEF Spec
<1> QED BY <1>1, <1>2, PTL
=============================================================================
