---------------------------- MODULE IdrRecovery ----------------------------
(***************************************************************************)
(* The IDR loop: encoder, video path, decoder, and the requests that go    *)
(* back over the input path to ForceIdr.  The video path is abstracted to  *)
(* what FrameStream promises of it, an in-order stream with gaps.          *)
(***************************************************************************)
EXTENDS NvencEncoder, FrameDecoder, Naturals, Sequences

CONSTANTS
  MaxInFlight,     (* bound: frames between sender and decoder slot          *)
  MaxRequests,     (* bound: requests in flight; one more makes no difference *)
  MaxFaults,       (* bound: frames and requests lost, frames overwritten,   *)
                   (* good frames the codec refuses                          *)
  MaxEncodeFaults  (* bound: encodes that fail                               *)

ASSUME BoundsAssumption ==
  /\ MaxInFlight \in Nat \ {0}
  /\ MaxRequests \in Nat \ {0}
  /\ MaxFaults \in Nat
  /\ MaxEncodeFaults \in Nat

VARIABLES
  stream,          (* frames in flight, oldest first *)
  requests,        (* RequestIdr datagrams in flight *)
  init,            (* how far ClientSession::Init has come *)
  faults,
  encodeFaults

loopVars == <<stream, requests, init>>
budgets == <<faults, encodeFaults>>
vars == <<encoderVars, decoderVars, loopVars, budgets>>

(* The client is in Init, its video receiver just started. *)
Init ==
  /\ EncoderInit
  /\ DecoderInit
  /\ stream = << >>
  /\ requests = 0
  /\ init = "receiver"
  /\ faults = 0
  /\ encodeFaults = 0

Fault == faults < MaxFaults /\ faults' = faults + 1 /\ UNCHANGED encodeFaults
EncodeFault == encodeFaults < MaxEncodeFaults /\ encodeFaults' = encodeFaults + 1 /\ UNCHANGED faults

------------------------------------------------------------------------------
(* Host, capture thread. *)

Encode ==
  /\ BeginPicture \/ ClearRequest \/ Submit
  /\ UNCHANGED <<decoderVars, loopVars, budgets>>

EncodeFails ==
  /\ SubmitFails \/ OutputLost
  /\ EncodeFault
  /\ UNCHANGED <<decoderVars, loopVars>>

SendFrame ==
  /\ Len(stream) < MaxInFlight
  /\ Output
  /\ stream' = Append(stream, OutputFrame)
  /\ UNCHANGED <<decoderVars, requests, init, budgets>>

(* Host, input thread: OnInputReceived. *)
RequestArrives ==
  /\ requests > 0
  /\ requests' = requests - 1
  /\ ForceIdr
  /\ UNCHANGED <<decoderVars, stream, init, budgets>>

------------------------------------------------------------------------------
(* The network. *)

LoseRequest ==
  /\ requests > 0
  /\ requests' = requests - 1
  /\ Fault
  /\ UNCHANGED <<encoderVars, decoderVars, stream, init>>

(* A frame is lost; the frame after it, sent or not, has lost its reference. *)
LoseFrame ==
  /\ stream # << >>
  /\ IF Len(stream) = 1
     THEN /\ linked' = FALSE
          /\ stream' = << >>
     ELSE /\ stream' = [Tail(stream) EXCEPT ![1] = Unlinked(@)]
          /\ UNCHANGED linked
  /\ Fault
  /\ UNCHANGED <<forceIdr, picture, started, owed, decoderVars, requests, init>>

------------------------------------------------------------------------------
(* Client, receive thread. *)

FrameArrives ==
  /\ stream # << >>
  /\ slot = NoFrame
  /\ SubmitFrame(Head(stream))
  /\ stream' = Tail(stream)
  /\ UNCHANGED <<encoderVars, requests, init, budgets>>

FrameOverwrites ==
  /\ stream # << >>
  /\ slot # NoFrame
  /\ SubmitFrame(Head(stream))
  /\ stream' = Tail(stream)
  /\ Fault
  /\ UNCHANGED <<encoderVars, requests, init>>

Signal == SignalFrame /\ UNCHANGED <<encoderVars, loopVars, budgets>>

(* Client, session thread: the rest of ClientSession::Init.  Requests the  *)
(* decode thread makes before the input sender is ready are not sent.      *)
InitDecoder ==
  /\ init = "receiver"
  /\ StartDecoder
  /\ init' = "decoder"
  /\ UNCHANGED <<encoderVars, stream, requests, budgets>>

InitInput ==
  /\ init = "decoder"
  /\ init' = "input"
  /\ UNCHANGED <<encoderVars, decoderVars, stream, requests, budgets>>

(* ClientSession::RequestIdr. *)
RequestIdr ==
  requests' = IF init \in {"input", "running"} /\ requests < MaxRequests THEN requests + 1 ELSE requests

InitRequest ==
  /\ init = "input"
  /\ init' = "running"
  /\ RequestIdr
  /\ UNCHANGED <<encoderVars, decoderVars, stream, budgets>>

(* Client, decode thread. *)
TakeFrame == (Wake \/ Grab) /\ UNCHANGED <<encoderVars, loopVars, budgets>>

DropFrame ==
  /\ \/ DropAndRequest /\ RequestIdr
     \/ DropQuietly /\ UNCHANGED requests
  /\ UNCHANGED <<encoderVars, stream, init, budgets>>

DecodeFrame == DecodeSucceeds /\ UNCHANGED <<encoderVars, loopVars, budgets>>

RefuseFrame ==
  /\ DecodeFails
  /\ RequestIdr
  /\ IF HasReference(grabbed) THEN Fault ELSE UNCHANGED budgets
  /\ UNCHANGED <<encoderVars, stream, init>>

Time == Cool /\ UNCHANGED <<encoderVars, loopVars, budgets>>

------------------------------------------------------------------------------
Next ==
  \/ Encode \/ EncodeFails \/ SendFrame \/ RequestArrives
  \/ LoseRequest \/ LoseFrame
  \/ FrameArrives \/ FrameOverwrites \/ Signal
  \/ InitDecoder \/ InitInput \/ InitRequest
  \/ TakeFrame \/ DropFrame \/ DecodeFrame \/ RefuseFrame
  \/ Time

Spec == Init /\ [][Next]_vars

(* The desktop keeps changing, so pictures keep being captured; each       *)
(* thread keeps running; what is not lost arrives; time passes.  Faults    *)
(* are never forced.                                                       *)
Fairness ==
  /\ WF_vars(Encode \/ SendFrame)
  /\ WF_vars(RequestArrives)
  /\ WF_vars(FrameArrives \/ Signal)
  /\ WF_vars(InitDecoder \/ InitInput \/ InitRequest)
  /\ WF_vars(TakeFrame \/ DropFrame \/ DecodeFrame \/ RefuseFrame)
  /\ WF_vars(Time)

FairSpec == Spec /\ Fairness

------------------------------------------------------------------------------
(* Every variable of the IDR loop keeps its type. *)
TypeOK ==
  /\ EncoderTypeOK
  /\ DecoderTypeOK
  /\ stream \in Seq(Frame) /\ Len(stream) <= MaxInFlight
  /\ requests \in 0..MaxRequests
  /\ init \in {"receiver", "decoder", "input", "running"}
  /\ faults \in 0..MaxFaults
  /\ encodeFaults \in 0..MaxEncodeFaults

(* "Force an IDR frame on the next encode" (encoder.h): an EncodeFrame     *)
(* call that starts after ForceIdr, with no IDR sent in between, encodes   *)
(* an IDR, however requests interleave with the reading and clearing of    *)
(* the flag.  Only a failed encode, which does not set the flag again, can *)
(* lose a request.                                                         *)
ForceIdrHonoured == encodeFaults = 0 /\ picture.asked => picture.idr

(* A decoder that waits for an IDR gets one once faults have stopped:      *)
(* requests are repeated, survive the race with a picture being encoded,   *)
(* and the rate limit never silences them for good.                        *)
DecoderRecovers == needsIdr ~> ~ needsIdr

(* The loop comes to rest: once faults have stopped, requests die out and  *)
(* the encoder is not left forcing IDR pictures.                           *)
RequestsSubside == <>[](requests = 0 /\ ~ forceIdr)

(* "Client requests keyframe on corruption": the decoder showing pictures  *)
(* decoded without their reference notices and asks for an IDR.            *)
CorruptionNoticed == (~ needsIdr /\ ~ intact) ~> (needsIdr \/ intact)
=============================================================================
