---------------------------- MODULE FrameDecoder ----------------------------
(***************************************************************************)
(* D3D11Decoder (src/client/decode/d3d11_decoder.cpp): the receive thread  *)
(* puts a frame into the one pending slot and then sets the auto-reset     *)
(* event the decode thread waits for.  Waiting for an IDR the decoder      *)
(* drops other frames, and asks for one at most every 500 ms.              *)
(***************************************************************************)
EXTENDS EncodedFrame

VARIABLES
  slot,        (* m_pending; NoFrame unless ready *)
  event,       (* the receiver's m_frameReady *)
  submitted,   (* the receive thread has filled the slot and not yet set the event *)
  thread,      (* where DecodeLoop is *)
  grabbed,     (* the frame it is working on *)
  needsIdr,    (* m_needsIdr *)
  cooled,      (* 500 ms have passed since lastIdrRequest *)
  intact       (* the codec holds the picture encoded before the next one in the pipeline *)

decoderVars == <<slot, event, submitted, thread, grabbed, needsIdr, cooled, intact>>

DecoderInit ==
  /\ slot = NoFrame
  /\ event = FALSE
  /\ submitted = FALSE
  /\ thread = "stopped"
  /\ grabbed = NoFrame
  /\ needsIdr = TRUE
  /\ cooled = TRUE
  /\ intact = FALSE

------------------------------------------------------------------------------
(* The receive thread, TryAssembleFrame: SubmitFrame, then SetEvent. *)

(* A frame still in the slot is overwritten. *)
SubmitFrame(f) ==
  /\ ~ submitted
  /\ slot' = IF slot = NoFrame THEN f ELSE Unlinked(f)
  /\ submitted' = TRUE
  /\ UNCHANGED <<event, thread, grabbed, needsIdr, cooled, intact>>

SignalOnlyIdle ==
  /\ submitted
  /\ submitted' = FALSE
  /\ event' = (event \/ thread = "waiting")
  /\ UNCHANGED <<slot, thread, grabbed, needsIdr, cooled, intact>>

SignalFrame ==
  /\ submitted
  /\ submitted' = FALSE
  /\ event' = TRUE
  /\ UNCHANGED <<slot, thread, grabbed, needsIdr, cooled, intact>>

------------------------------------------------------------------------------
(* The decode thread. *)

StartDecoder ==
  /\ thread = "stopped"
  /\ thread' = "waiting"
  /\ UNCHANGED <<slot, event, submitted, grabbed, needsIdr, cooled, intact>>

(* The wait ends and resets the event; its 100 ms timeout changes nothing. *)
Wake ==
  /\ thread = "waiting"
  /\ event
  /\ event' = FALSE
  /\ thread' = "woken"
  /\ UNCHANGED <<slot, submitted, grabbed, needsIdr, cooled, intact>>

GrabUnchecked ==
  /\ thread = "woken"
  /\ thread' = "decoding"
  /\ grabbed' = slot
  /\ slot' = NoFrame
  /\ UNCHANGED <<event, submitted, needsIdr, cooled, intact>>

(* An event may outlive its frame, taken on the wake-up before. *)
Grab ==
  /\ thread = "woken"
  /\ thread' = IF slot = NoFrame THEN "waiting" ELSE "decoding"
  /\ grabbed' = slot
  /\ slot' = NoFrame
  /\ UNCHANGED <<event, submitted, needsIdr, cooled, intact>>

Done == thread = "decoding" /\ thread' = "waiting" /\ grabbed' = NoFrame

(* Waiting for an IDR: the frame is dropped, and an IDR requested if the   *)
(* last request is 500 ms old.                                             *)
DropAndRequest ==
  /\ Done
  /\ needsIdr /\ ~ grabbed.idr
  /\ cooled
  /\ cooled' = FALSE
  /\ UNCHANGED <<slot, event, submitted, needsIdr, intact>>

DropQuietly ==
  /\ Done
  /\ needsIdr /\ ~ grabbed.idr
  /\ ~ cooled
  /\ UNCHANGED <<slot, event, submitted, needsIdr, cooled, intact>>

Cool ==
  /\ ~ cooled
  /\ cooled' = TRUE
  /\ UNCHANGED <<slot, event, submitted, thread, grabbed, needsIdr, intact>>

(* FFmpeg: a picture whose reference is there decodes as the encoder meant *)
(* it; without it the decoder, told to output corrupt pictures, may fail   *)
(* or hand out something else.  An IDR picture is flushed for and needs no *)
(* reference.                                                              *)
HasReference(f) == f.linked /\ (f.idr \/ intact)

Decodes == Done /\ (needsIdr => grabbed.idr)

DecodeSucceeds ==
  /\ Decodes
  /\ needsIdr' = FALSE
  /\ intact' = HasReference(grabbed)
  /\ UNCHANGED <<slot, event, submitted, cooled>>

(* DecodeFrame returns false: an IDR is requested at once. *)
DecodeFails ==
  /\ Decodes
  /\ needsIdr' = TRUE
  /\ intact' = FALSE
  /\ UNCHANGED <<slot, event, submitted, cooled>>

------------------------------------------------------------------------------
DecoderTypeOK ==
  /\ slot \in Frame \cup {NoFrame}
  /\ event \in BOOLEAN
  /\ submitted \in BOOLEAN
  /\ thread \in {"stopped", "waiting", "woken", "decoding"}
  /\ grabbed \in Frame \cup {NoFrame}
  /\ thread = "decoding" <=> grabbed # NoFrame
  /\ needsIdr \in BOOLEAN
  /\ cooled \in BOOLEAN
  /\ intact \in BOOLEAN

(* No frame is left in the slot with nobody about to take it: the event is *)
(* set, about to be set, or the decode thread is on its way to the slot.   *)
NoLostWakeup == slot # NoFrame => event \/ submitted \/ thread = "woken"
=============================================================================
