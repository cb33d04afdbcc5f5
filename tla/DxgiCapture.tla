----------------------------- MODULE DxgiCapture -----------------------------
(***************************************************************************)
(* The capture thread of host/capture/dxgi_capture.cpp in discrete time.   *)
(* It captures at most every MinInterval and wakes at a trigger or after   *)
(* Fallback; a wake-up that comes too early is dropped, trigger included.  *)
(* Time stands still while the thread has something to do, except for an   *)
(* encode, which takes up to MaxEncode, and a lock somebody else holds.    *)
(***************************************************************************)
EXTENDS Naturals

CONSTANTS
  MinInterval,     (* 1000000 / fps microseconds                             *)
  Fallback,        (* 1000 / fps milliseconds: rounded down, less than the   *)
                   (* minimum interval at 60 fps                             *)
  MaxEncode        (* longest encode                                         *)

ASSUME CaptureAssumption ==
  /\ MinInterval \in Nat \ {0}
  /\ Fallback \in 1..MinInterval
  /\ MaxEncode \in Nat

VARIABLES
  running,         (* m_running                                              *)
  trigger,         (* m_triggerEvent, auto-reset                             *)
  capturer,        (* where the capture thread is                            *)
  duplication,     (* m_duplication is set                                   *)
  since,           (* time since the last capture, as far as it matters      *)
  timer,           (* time the thread has waited or encoded                  *)
  age              (* how long the desktop has shown a picture not captured  *)

captureVars == <<running, trigger, capturer, duplication, since, timer, age>>

(* What a change of the desktop waits for at most: the encode before it, or *)
(* a trigger just short of the minimum interval, and one fallback interval. *)
Latency == (IF MaxEncode < MinInterval THEN MinInterval - 1 ELSE MaxEncode) + Fallback
NoChange == Latency + 2
Older(t) == IF t > Latency THEN t ELSE t + 1

CaptureInit ==
  /\ running = FALSE
  /\ trigger = FALSE
  /\ capturer = "off"
  /\ duplication = TRUE
  /\ since = MinInterval
  /\ timer = 0
  /\ age = NoChange

StartCapture ==
  /\ running' = TRUE
  /\ capturer' = "wait"
  /\ UNCHANGED <<trigger, duplication, since, timer, age>>

TriggerCapture == trigger' = TRUE /\ UNCHANGED <<running, capturer, duplication, since, timer, age>>

(* WaitForSingleObject returns. *)
Woken == capturer = "wait" /\ (trigger \/ timer = Fallback)

WaitAgain ==
  /\ trigger' = FALSE
  /\ timer' = 0
  /\ UNCHANGED <<running, capturer>>

WakeAndEnd ==
  /\ Woken
  /\ ~ running
  /\ capturer' = "done"
  /\ trigger' = FALSE
  /\ UNCHANGED <<running, duplication, since, timer, age>>

(* Mutant of WakeTooEarly: the wake-up is remembered as the last capture. *)
EarlyWakeCounts ==
  /\ Woken
  /\ running
  /\ since < MinInterval
  /\ since' = 0
  /\ WaitAgain
  /\ UNCHANGED <<duplication, age>>

WakeTooEarly ==
  /\ Woken
  /\ running
  /\ since < MinInterval
  /\ WaitAgain
  /\ UNCHANGED <<duplication, since, age>>

Due == Woken /\ running /\ since = MinInterval

(* Mutant of WakeAndMiss: a lost duplication is not made again. *)
MissUnlessLost ==
  /\ Due
  /\ age = NoChange \/ ~ duplication
  /\ WaitAgain
  /\ UNCHANGED <<duplication, since, age>>

(* AcquireNextFrame has nothing new.  A lost duplication was made again.    *)
WakeAndMiss ==
  /\ Due
  /\ age = NoChange
  /\ WaitAgain
  /\ duplication' = TRUE
  /\ UNCHANGED <<since, age>>

(* AcquireNextFrame has a picture, perhaps only a moved pointer.            *)
WakeAndCapture ==
  /\ Due
  /\ trigger' = FALSE
  /\ capturer' = "encode"
  /\ duplication' = TRUE
  /\ since' = 0
  /\ timer' = 0
  /\ age' = NoChange
  /\ UNCHANGED running

(* Access is lost, making the duplication fails, or another error.          *)
WakeAndFail ==
  /\ Due
  /\ WaitAgain
  /\ duplication' \in BOOLEAN
  /\ UNCHANGED <<since, age>>

(* The callback: EncodeFrame, then OnEncodeDone unless the encode failed.   *)
EncodeEnds(next) ==
  /\ capturer = "encode"
  /\ capturer' = next
  /\ timer' = 0
  /\ UNCHANGED <<running, trigger, duplication, since, age>>

CallbackReturns(from, next) ==
  /\ capturer = from
  /\ capturer' = next
  /\ UNCHANGED <<running, trigger, duplication, since, timer, age>>

(* Stop, before and after the join. *)
StopCapture ==
  /\ running' = FALSE
  /\ trigger' = TRUE
  /\ UNCHANGED <<capturer, duplication, since, timer, age>>

ReleaseCapture ==
  /\ capturer \in {"off", "done"}
  /\ duplication' = FALSE
  /\ UNCHANGED <<running, trigger, capturer, since, timer, age>>

(* External: the desktop shows a new picture. *)
DesktopChanges ==
  /\ age = NoChange
  /\ age' = 0
  /\ UNCHANGED <<running, trigger, capturer, duplication, since, timer>>

Tick(blocked) ==
  /\ \/ capturer = "wait" /\ ~ trigger /\ timer < Fallback
     \/ capturer = "encode" /\ timer < MaxEncode
     \/ blocked
  /\ since' = IF since < MinInterval THEN since + 1 ELSE since
  /\ timer' = IF blocked THEN timer ELSE timer + 1
  /\ age' = Older(age)
  /\ UNCHANGED <<running, trigger, capturer, duplication>>

CaptureTypeOK ==
  /\ running \in BOOLEAN
  /\ trigger \in BOOLEAN
  /\ capturer \in {"off", "wait", "encode", "fanout", "send", "done"}
  /\ duplication \in BOOLEAN
  /\ since \in 0..MinInterval
  /\ timer \in 0..(IF MaxEncode < Fallback THEN Fallback ELSE MaxEncode)
  /\ age \in 0..NoChange
=============================================================================
