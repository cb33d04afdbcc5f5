----------------------------- MODULE HostSession -----------------------------
(***************************************************************************)
(* HostSession (host/host_session.cpp) at run time: the session thread in  *)
(* Init, Start and Stop, the capture thread that encodes and fans out      *)
(* under m_clientsMutex, and the input thread of the client.  main.cpp     *)
(* serves the one client Init adds.                                        *)
(***************************************************************************)
EXTENDS DxgiCapture

CONSTANT MaxFaults (* bound: captures and encodes that fail                  *)

ASSUME FaultsAssumption == MaxFaults \in Nat

VARIABLES
  session,         (* the next step of the session thread                    *)
  mutex,           (* who holds m_clientsMutex                               *)
  client,          (* the entry of m_clients: "none", "listed", "cleared"    *)
  sender,          (* its videoSender is open                                *)
  receiving,       (* its inputReceiver's m_running                          *)
  input,           (* where the input thread is                              *)
  encoder,         (* m_encoder: initialised and not shut down               *)
  injector,        (* m_inputInjector: likewise                              *)
  faults

hostVars == <<session, mutex, client, sender, receiving, input, encoder, injector>>
vars == <<captureVars, hostVars, faults>>

(* Init has made injector, capture and encoder and calls AddClient. *)
Init ==
  /\ CaptureInit
  /\ session = "receiver"
  /\ mutex = "free"
  /\ client = "none"
  /\ sender = TRUE
  /\ receiving = FALSE
  /\ input = "none"
  /\ encoder = TRUE
  /\ injector = TRUE
  /\ faults = 0

Fault == faults < MaxFaults /\ faults' = faults + 1
Proceed(from, to) == session = from /\ session' = to

------------------------------------------------------------------------------
(* Session thread. *)

(* The input receiver starts, and with it its thread, before the client is  *)
(* listed; without its port the session goes on.                            *)
AddClientReceiver ==
  /\ Proceed("receiver", "list")
  /\ \/ receiving' = TRUE /\ input' = "recv"
     \/ UNCHANGED <<receiving, input>>
  /\ UNCHANGED <<captureVars, mutex, client, sender, encoder, injector, faults>>

AddClientList ==
  /\ Proceed("list", "start")
  /\ mutex = "free"
  /\ client' = "listed"
  /\ UNCHANGED <<captureVars, mutex, sender, receiving, input, encoder, injector, faults>>

Start ==
  /\ Proceed("start", "streaming")
  /\ StartCapture
  /\ UNCHANGED <<mutex, client, sender, receiving, input, encoder, injector, faults>>

Stop ==
  /\ Proceed("streaming", "lock")
  /\ UNCHANGED <<captureVars, mutex, client, sender, receiving, input, encoder, injector, faults>>

StopLock ==
  /\ Proceed("lock", "join_input")
  /\ mutex = "free"
  /\ mutex' = "session"
  /\ receiving' = FALSE
  /\ UNCHANGED <<captureVars, client, sender, input, encoder, injector, faults>>

(* The input thread is joined, the senders are shut down ... *)
StopSenders ==
  /\ Proceed("join_input", "clear")
  /\ input \in {"none", "exited"}
  /\ sender' = FALSE
  /\ UNCHANGED <<captureVars, mutex, client, receiving, input, encoder, injector, faults>>

(* Mutant of ClearClients: the lock is kept until the session has stopped. *)
ClearClientsLocked ==
  /\ Proceed("clear", "capture")
  /\ client' = "cleared"
  /\ UNCHANGED <<captureVars, mutex, sender, receiving, input, encoder, injector, faults>>

(* ... and m_clients is cleared before the lock is released. *)
ClearClients ==
  /\ Proceed("clear", "capture")
  /\ client' = "cleared"
  /\ mutex' = "free"
  /\ UNCHANGED <<captureVars, sender, receiving, input, encoder, injector, faults>>

StopCapturing ==
  /\ Proceed("capture", "join_capture")
  /\ StopCapture
  /\ UNCHANGED <<mutex, client, sender, receiving, input, encoder, injector, faults>>

(* Mutant of JoinCapture: the thread is left to end by itself. *)
DetachCapture ==
  /\ Proceed("join_capture", "encoder")
  /\ UNCHANGED <<captureVars, mutex, client, sender, receiving, input, encoder, injector, faults>>

JoinCapture ==
  /\ Proceed("join_capture", "encoder")
  /\ ReleaseCapture
  /\ UNCHANGED <<mutex, client, sender, receiving, input, encoder, injector, faults>>

ShutdownEncoder ==
  /\ Proceed("encoder", "injector")
  /\ encoder' = FALSE
  /\ UNCHANGED <<captureVars, mutex, client, sender, receiving, input, injector, faults>>

ShutdownInjector ==
  /\ Proceed("injector", "stopped")
  /\ injector' = FALSE
  /\ UNCHANGED <<captureVars, mutex, client, sender, receiving, input, encoder, faults>>

------------------------------------------------------------------------------
(* Capture thread. *)

CaptureLoop ==
  /\ WakeAndEnd \/ WakeTooEarly \/ WakeAndMiss \/ WakeAndCapture
  /\ UNCHANGED <<hostVars, faults>>

CaptureFails == WakeAndFail /\ Fault /\ UNCHANGED hostVars

EncodeDone == EncodeEnds("fanout") /\ UNCHANGED <<hostVars, faults>>

EncodeFails == EncodeEnds("wait") /\ Fault /\ UNCHANGED hostVars

(* Mutant of OnEncodeDone: no lock is taken. *)
OnEncodeDoneUnlocked == CallbackReturns("fanout", "send") /\ UNCHANGED <<hostVars, faults>>

(* OnEncodeDone: the frame goes to the client that is listed.               *)
OnEncodeDone ==
  /\ mutex = "free"
  /\ mutex' = "capture"
  /\ CallbackReturns("fanout", "send")
  /\ UNCHANGED <<session, client, sender, receiving, input, encoder, injector, faults>>

FrameSent ==
  /\ mutex = "capture"
  /\ mutex' = "free"
  /\ CallbackReturns("send", "wait")
  /\ UNCHANGED <<session, client, sender, receiving, input, encoder, injector, faults>>

------------------------------------------------------------------------------
(* Input thread: RecvLoop and OnInputReceived. *)

InputGoes(from, to) ==
  /\ input = from
  /\ input' = to
  /\ UNCHANGED <<session, mutex, client, sender, receiving, encoder, injector, faults>>

ReceiveInput == \E next \in {"force_idr", "inject"} : InputGoes("recv", next) /\ UNCHANGED captureVars
ForceIdr == InputGoes("force_idr", "loop") /\ UNCHANGED captureVars
ProcessInput == InputGoes("inject", "trigger") /\ UNCHANGED captureVars
Trigger == InputGoes("trigger", "loop") /\ TriggerCapture
ReceiveNothing == InputGoes("recv", "loop") /\ UNCHANGED captureVars
InputLoops == InputGoes("loop", IF receiving THEN "recv" ELSE "exited") /\ UNCHANGED captureVars

------------------------------------------------------------------------------
SessionStep ==
  \/ AddClientReceiver \/ AddClientList \/ Start
  \/ StopLock \/ StopSenders \/ ClearClients \/ StopCapturing \/ JoinCapture \/ ShutdownEncoder \/ ShutdownInjector

CaptureStep == CaptureLoop \/ CaptureFails \/ EncodeDone \/ EncodeFails \/ OnEncodeDone \/ FrameSent
InputStep == ReceiveInput \/ ForceIdr \/ ProcessInput \/ Trigger \/ ReceiveNothing \/ InputLoops

Environment ==
  \/ DesktopChanges /\ UNCHANGED <<hostVars, faults>>
  \/ Tick(capturer = "fanout" /\ mutex = "session") /\ UNCHANGED <<hostVars, faults>>

Next == SessionStep \/ Stop \/ CaptureStep \/ InputStep \/ Environment

Spec == Init /\ [][Next]_vars

(* Each thread runs, every Recv ends within its timeout of 100 ms, and time *)
(* passes however often triggers wake the capture thread.  That thread may  *)
(* take the lock again and again, but Stop gets it in the end.              *)
Fairness ==
  /\ WF_vars(SessionStep) /\ SF_vars(StopLock)
  /\ WF_vars(CaptureStep)
  /\ WF_vars(InputStep)
  /\ SF_vars(Tick(FALSE) /\ UNCHANGED <<hostVars, faults>>)

FairSpec == Spec /\ Fairness

------------------------------------------------------------------------------
(* Every variable of the host's run time keeps its type, and m_clientsMutex *)
(* is held by whoever is in a section it guards.                            *)
TypeOK ==
  /\ CaptureTypeOK
  /\ session \in {"receiver", "list", "start", "streaming", "lock", "join_input", "clear", "capture",
                  "join_capture", "encoder", "injector", "stopped"}
  /\ mutex \in {"free", "session", "capture"}
  /\ client \in {"none", "listed", "cleared"}
  /\ sender \in BOOLEAN /\ receiving \in BOOLEAN /\ encoder \in BOOLEAN /\ injector \in BOOLEAN
  /\ input \in {"none", "recv", "force_idr", "inject", "trigger", "loop", "exited"}
  /\ faults \in 0..MaxFaults
  /\ mutex = "capture" <=> capturer = "send"
  /\ mutex = "session" <=> session \in {"join_input", "clear"}

(* Whatever a thread is doing, the part of the session it is using has not  *)
(* been shut down: the order of Stop holds against every interleaving.      *)
PartsAlive ==
  /\ capturer = "encode" => encoder
  /\ capturer = "send" /\ client = "listed" => sender
  /\ input = "force_idr" => encoder
  /\ input = "inject" => injector

(* "Input-triggered capture": while the session streams and nothing fails,  *)
(* a change of the desktop is captured within Latency, even though triggers *)
(* that come within the minimum interval are dropped.                       *)
CaptureInTime == session = "streaming" /\ faults = 0 /\ age # NoChange => age <= Latency

(* Captures that fail, and a duplication that is lost, do not keep the      *)
(* desktop from being captured again.                                       *)
ChangesCaptured == age # NoChange /\ session = "streaming" ~> age = NoChange \/ session # "streaming"

(* Stop returns, although it joins the input thread under the lock that the *)
(* capture thread needs to get on.                                          *)
StopReturns == session = "lock" ~> session = "stopped"
=============================================================================
