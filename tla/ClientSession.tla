---------------------------- MODULE ClientSession ----------------------------
(***************************************************************************)
(* ClientSession (client/client_session.cpp) at run time: Init starts the  *)
(* client's parts one by one, each with a thread and what it opens; Stop   *)
(* ends them in another order while the threads still use each other's.    *)
(***************************************************************************)
EXTENDS FrameFeedback, Sequences

VARIABLES
  session,         (* the session thread: what it is doing, and how far      *)
  running,         (* the workers whose m_running is set                     *)
  thread,          (* worker -> where its thread is                          *)
  open             (* sockets, events and devices that are open              *)

sessionVars == <<session, running, thread, open>>
vars == <<sessionVars, feedbackVars>>

(* The parts with a thread, in the order in which Init starts them.         *)
StartOrder == <<"receive", "decode", "render", "poll", "audio", "feedback", "haptic">>
Workers == {StartOrder[i] : i \in 1..Len(StartOrder)}

(* Mutant of StopOrder: the receiver goes before the decoder. *)
ReceiverFirst == <<"feedback", "haptic", "poll", "audio", "render", "receive", "decode">>

(* The order in which Stop joins them.                                      *)
StopOrder == <<"feedback", "haptic", "poll", "audio", "render", "decode", "receive">>

(* What a part opens before its thread starts and closes after joining it,  *)
(* or before that (ToldFirst).  The renderer's device is there before       *)
(* anything starts; the decoder counts its own references to it.            *)
Owns(w) ==
  CASE w = "receive"  -> {"video_socket", "frame_event"}
    [] w = "decode"   -> {}
    [] w = "render"   -> {"device"}
    [] w = "poll"     -> {"input_socket"}
    [] w = "audio"    -> {"audio_socket"}
    [] w = "feedback" -> {"feedback_socket"}
    [] w = "haptic"   -> {"haptic_socket"}

(* What a thread uses until it ends: the decoder waits for the receiver's   *)
(* event and asks for IDR frames through the poll thread's socket.          *)
Uses(w) == IF w = "decode" THEN {"frame_event", "input_socket"} ELSE Owns(w)

Optional == {"audio", "haptic"}
ToldFirst == {"feedback", "haptic"}

Doing(what) == session.doing = what
Phase(what, i) == [doing |-> what, step |-> i]

Init ==
  /\ FeedbackInit
  /\ session = Phase("init", 1)
  /\ running = {}
  /\ thread = [w \in Workers |-> "none"]
  /\ open = {"device"}

------------------------------------------------------------------------------
(* Session thread. *)

AfterStart == IF session.step = Len(StartOrder) THEN Phase("streaming", 0) ELSE Phase("init", session.step + 1)

StartWorker ==
  LET w == StartOrder[session.step]
  IN /\ Doing("init")
     /\ session' = AfterStart
     /\ running' = running \cup {w}
     /\ thread' = [thread EXCEPT ![w] = "loop"]
     /\ open' = open \cup Owns(w)
     /\ UNCHANGED feedbackVars

(* A port that is taken: no sound, no rumble, but without video no session. *)
(* A socket that could not be bound stays open until Stop.                  *)
StartFails ==
  LET w == StartOrder[session.step]
  IN /\ Doing("init")
     /\ w \in Optional \cup {"receive"}
     /\ session' = IF w = "receive" THEN Phase("failed", 0) ELSE AfterStart
     /\ open' = open \cup (Owns(w) \cap {"video_socket", "haptic_socket"})
     /\ UNCHANGED <<running, thread, feedbackVars>>

Stop ==
  /\ Doing("streaming") \/ Doing("failed")
  /\ session' = Phase("flags", 0)
  /\ UNCHANGED <<running, thread, open, feedbackVars>>

(* Mutant of StopFlags: the haptic thread is not told. *)
StopFeedbackOnly ==
  /\ Doing("flags")
  /\ session' = Phase("close", 0)
  /\ running' = running \ {"feedback"}
  /\ UNCHANGED <<thread, open, feedbackVars>>

(* Feedback and haptic thread are told first, together, ...                 *)
StopFlags ==
  /\ Doing("flags")
  /\ session' = Phase("close", 0)
  /\ running' = running \ ToldFirst
  /\ UNCHANGED <<thread, open, feedbackVars>>

(* ... and their sockets closed under them.                                 *)
StopCloses ==
  /\ Doing("close")
  /\ session' = Phase("join", 1)
  /\ open' = open \ UNION {Owns(w) : w \in ToldFirst}
  /\ UNCHANGED <<running, thread, feedbackVars>>

StopSignal ==
  /\ Doing("signal")
  /\ session' = Phase("join", session.step)
  /\ running' = running \ {StopOrder[session.step]}
  /\ UNCHANGED <<thread, open, feedbackVars>>

StopJoin ==
  LET w == StopOrder[session.step]
  IN /\ Doing("join")
     /\ thread[w] \in {"none", "ended"}
     /\ open' = open \ Owns(w)
     /\ session' = IF session.step = Len(StopOrder) THEN Phase("stopped", 0)
                   ELSE Phase(IF StopOrder[session.step + 1] \in ToldFirst THEN "join" ELSE "signal", session.step + 1)
     /\ UNCHANGED <<running, thread, feedbackVars>>

------------------------------------------------------------------------------
(* The other threads.  Every wait ends within 100 ms. *)

Goes(w, from, to) ==
  /\ thread[w] = from
  /\ thread' = [thread EXCEPT ![w] = to]
  /\ UNCHANGED <<session, running, open>>

EndLoop(w) == w \notin running /\ Goes(w, "loop", "ended") /\ UNCHANGED feedbackVars

(* The decode thread has decoded a frame and handed it to the renderer: the *)
(* next, or one the network delivered late or twice.                        *)
DecodeFrame(frame) ==
  /\ "decode" \in running
  /\ frames < MaxFrames
  /\ Goes("decode", "loop", "shifted")
  /\ ShiftBitmap(frame)

FrameDecoded ==
  \/ Goes("decode", "shifted", "record") /\ SetBit
  \/ Goes("decode", "record", "loop") /\ RecordNumber

(* A closed socket sends nothing.                                           *)
SendIfOpen == IF "feedback_socket" \in open THEN SendReport ELSE UNCHANGED feedbackVars

(* Mutant of SendFeedback: one packet and no more. *)
SendOnce ==
  \/ "feedback" \in running /\ Goes("feedback", "loop", "read") /\ ReadNumber
  \/ Goes("feedback", "read", "ended") /\ SendIfOpen

SendFeedback ==
  \/ "feedback" \in running /\ Goes("feedback", "loop", "read") /\ ReadNumber
  \/ Goes("feedback", "read", "loop") /\ SendIfOpen

------------------------------------------------------------------------------
SessionStep == StartWorker \/ StartFails \/ StopFlags \/ StopCloses \/ StopSignal \/ StopJoin

WorkerStep(w) ==
  \/ EndLoop(w)
  \/ w = "decode" /\ FrameDecoded
  \/ w = "feedback" /\ SendFeedback

Environment == Stop \/ \E f \in {newest + j : j \in Jumps} \cup 1..newest : DecodeFrame(f)

Next == SessionStep \/ (\E w \in Workers : WorkerStep(w)) \/ Environment

Spec == Init /\ [][Next]_vars

(* Every thread runs; frames may stop coming, and the user may never stop.  *)
Fairness ==
  /\ WF_vars(SessionStep)
  /\ \A w \in Workers : WF_vars(WorkerStep(w))

FairSpec == Spec /\ Fairness

------------------------------------------------------------------------------
(* Every variable keeps its type, and a thread that is told to run has been *)
(* started and has not ended.                                               *)
TypeOK ==
  /\ FeedbackTypeOK
  /\ session.doing \in {"init", "failed", "streaming", "flags", "close", "signal", "join", "stopped"}
  /\ session.step \in 0..Len(StartOrder)
  /\ running \subseteq Workers
  /\ thread \in [Workers -> {"none", "loop", "shifted", "record", "read", "ended"}]
  /\ open \subseteq UNION {Owns(w) : w \in Workers}
  /\ \A w \in running : thread[w] \notin {"none", "ended"}

(* Whatever a thread uses is open, in whatever order Init and Stop start    *)
(* and end the threads, but for two cases.  Stop closes the feedback and    *)
(* the haptic socket under their threads, once these have been told to      *)
(* stop; and the decoder, which ends after the poll thread, may ask for an  *)
(* IDR frame through a socket that InputCapture has closed, or not yet      *)
(* opened.  In both the call fails and nothing is sent.                     *)
OpenWhileNeeded ==
  \A w \in Workers : thread[w] \notin {"none", "ended"} =>
    \A r \in Uses(w) \ open :
      \/ w \in ToldFirst \ running
      \/ w = "decode" /\ r = "input_socket" /\ thread["poll"] \in {"none", "ended"}

(* The map of a report, which the feedback thread reads while the decode    *)
(* thread writes, shows the frames decoded before the last one, no more and *)
(* no fewer, of those since a frame last came late: a late frame makes the  *)
(* report forget all that came before it.  Only the last frame's own bit    *)
(* and the report's number may lag behind, and only if the decode thread    *)
(* was writing at the time.                                                 *)
FeedbackTruthful ==
  /\ ~ sent.lapped => sent.map \subseteq sent.kept /\ sent.kept \subseteq sent.map \cup {0}
  /\ sent.clean => sent.last = sent.of /\ (~ sent.lapped => sent.map = sent.kept)

(* A report spoiled by the race is put right by a later one, for as long as *)
(* the session streams.                                                     *)
FeedbackCatchesUp ==
  \A n \in FrameNumbers :
    Doing("streaming") /\ lastFrameRecv = n
      ~> (sent.last = n /\ sent.clean) \/ lastFrameRecv # n \/ ~ Doing("streaming")

(* Stop joins all seven threads and returns, however far Init has got.      *)
StopReturns == Doing("flags") ~> Doing("stopped")
=============================================================================
