------------------------- MODULE IdrRecoveryProofs -------------------------
(***************************************************************************)
(* Proofs about IdrRecovery for all bounds: types, no lost wake-up of the  *)
(* decode thread, and ForceIdr's promise until an encode fails.            *)
(***************************************************************************)
EXTENDS IdrRecovery, SequenceTheorems, TLAPS

(* Breaking a frame's link leaves a frame. *)
LEMMA UnlinkedFrame == \A f \in Frame : Unlinked(f) \in Frame
  BY DEF Frame, Unlinked

(* What remains of a stream whose first frame is gone is a stream, and     *)
(* stays one when the next frame loses its link.                           *)
LEMMA LostHead ==
  ASSUME NEW s \in Seq(Frame), s # << >>
  PROVE  /\ Head(s) \in Frame
         /\ Tail(s) \in Seq(Frame) /\ Len(Tail(s)) = Len(s) - 1
         /\ LET r == [Tail(s) EXCEPT ![1] = Unlinked(@)]
            IN Len(s) # 1 => r \in Seq(Frame) /\ Len(r) = Len(s) - 1
<1>1. Head(s) \in Frame /\ Tail(s) \in Seq(Frame) /\ Len(Tail(s)) = Len(s) - 1 /\ Len(s) >= 1
  BY HeadTailProperties, EmptySeq, LenProperties
<1>2. ASSUME Len(s) # 1
      PROVE  1 \in 1..Len(Tail(s)) /\ Unlinked(Tail(s)[1]) \in Frame
  BY <1>1, <1>2, UnlinkedFrame, ElementOfSeq
<1> QED BY <1>1, <1>2, ExceptSeq

------------------------------------------------------------------------------
LEMMA InitTyped == Init => TypeOK
<1> SUFFICES ASSUME Init PROVE TypeOK
  OBVIOUS
<1>1. EncoderTypeOK
  BY DEF Init, EncoderInit, EncoderTypeOK, NoPicture
<1>2. DecoderTypeOK
  BY DEF Init, DecoderInit, DecoderTypeOK
<1>3. stream \in Seq(Frame) /\ Len(stream) = 0
  BY DEF Init
<1> QED BY <1>1, <1>2, <1>3, BoundsAssumption DEF Init, TypeOK

(* The steps that touch only the encoder. *)
LEMMA EncoderStepTyped ==
  ASSUME EncoderTypeOK,
         ForceIdr \/ BeginPicture \/ ClearRequest \/ Submit \/ SubmitFails \/ OutputLost \/ Output
  PROVE  EncoderTypeOK'
<1> USE DEF EncoderTypeOK, NoPicture
<1>1. CASE ForceIdr
  BY <1>1 DEF ForceIdr
<1>2. CASE BeginPicture
  BY <1>2 DEF BeginPicture
<1>3. CASE ClearRequest
  BY <1>3 DEF ClearRequest
<1>4. CASE Submit
  BY <1>4 DEF Submit
<1>5. CASE SubmitFails
  BY <1>5 DEF SubmitFails
<1>6. CASE OutputLost
  BY <1>6 DEF OutputLost
<1>7. CASE Output
  <2>1. owed' \in BOOLEAN
    BY <1>7 DEF Output
  <2> QED BY <1>7, <2>1 DEF Output
<1> QED BY <1>1, <1>2, <1>3, <1>4, <1>5, <1>6, <1>7

(* The steps that touch only the decoder. *)
LEMMA DecoderStepTyped ==
  ASSUME DecoderTypeOK,
         \/ \E f \in Frame : SubmitFrame(f)
         \/ SignalFrame \/ StartDecoder \/ Wake \/ Grab
         \/ DropAndRequest \/ DropQuietly \/ Cool \/ DecodeSucceeds \/ DecodeFails
  PROVE  DecoderTypeOK'
<1> USE DEF DecoderTypeOK
<1>1. CASE \E f \in Frame : SubmitFrame(f)
  BY <1>1, UnlinkedFrame DEF SubmitFrame
<1>2. CASE SignalFrame \/ StartDecoder \/ Wake \/ Cool
  BY <1>2 DEF SignalFrame, StartDecoder, Wake, Cool
<1>3. CASE Grab
  BY <1>3 DEF Grab
<1>4. CASE DropAndRequest \/ DropQuietly
  BY <1>4 DEF DropAndRequest, DropQuietly, Done
<1>5. CASE DecodeSucceeds \/ DecodeFails
  BY <1>5 DEF DecodeSucceeds, DecodeFails, Decodes, Done, HasReference, Frame, NoFrame
<1> QED BY <1>1, <1>2, <1>3, <1>4, <1>5

LEMMA EncoderKeeps == EncoderTypeOK /\ UNCHANGED encoderVars => EncoderTypeOK'
  BY DEF EncoderTypeOK, encoderVars

LEMMA DecoderKeeps == DecoderTypeOK /\ UNCHANGED decoderVars => DecoderTypeOK'
  BY DEF DecoderTypeOK, decoderVars

(* What an encoder puts out is a frame. *)
LEMMA OutputTyped == EncoderTypeOK => OutputFrame \in Frame
  BY DEF EncoderTypeOK, OutputFrame, Frame

LEMMA StepTyped == TypeOK /\ [Next]_vars => TypeOK'
<1> SUFFICES ASSUME TypeOK, [Next]_vars PROVE TypeOK'
  OBVIOUS
<1> USE BoundsAssumption, EncoderKeeps, DecoderKeeps DEF TypeOK, loopVars, budgets
<1>1. CASE Encode
  BY <1>1, EncoderStepTyped DEF Encode
<1>2. CASE EncodeFails
  BY <1>2, EncoderStepTyped DEF EncodeFails, EncodeFault
<1>3. CASE SendFrame
  <2>1. EncoderTypeOK' /\ DecoderTypeOK'
    BY <1>3, EncoderStepTyped DEF SendFrame
  <2>2. stream' \in Seq(Frame) /\ Len(stream') <= MaxInFlight
    BY <1>3, OutputTyped DEF SendFrame
  <2> QED BY <1>3, <2>1, <2>2 DEF SendFrame
<1>4. CASE RequestArrives
  BY <1>4, EncoderStepTyped DEF RequestArrives
<1>5. CASE LoseRequest
  BY <1>5 DEF LoseRequest, Fault
<1>6. CASE LoseFrame
  <2>1. EncoderTypeOK' /\ DecoderTypeOK'
    BY <1>6 DEF LoseFrame, EncoderTypeOK
  <2>2. stream' \in Seq(Frame) /\ Len(stream') <= MaxInFlight
    <3>1. CASE Len(stream) = 1
      BY <1>6, <3>1 DEF LoseFrame
    <3>2. CASE Len(stream) # 1
      <4>1. stream # << >> /\ stream' = [Tail(stream) EXCEPT ![1] = Unlinked(@)]
        BY <1>6, <3>2 DEF LoseFrame
      <4>2. stream' \in Seq(Frame) /\ Len(stream') = Len(stream) - 1
        BY <3>2, <4>1, LostHead
      <4> QED BY <4>2, LenProperties
    <3> QED BY <3>1, <3>2
  <2> QED BY <1>6, <2>1, <2>2 DEF LoseFrame, Fault
<1>7. CASE FrameArrives \/ FrameOverwrites
  <2>1. Head(stream) \in Frame /\ Tail(stream) \in Seq(Frame) /\ Len(Tail(stream)) = Len(stream) - 1
    BY <1>7, LostHead DEF FrameArrives, FrameOverwrites
  <2>2. EncoderTypeOK' /\ DecoderTypeOK'
    BY <1>7, <2>1, DecoderStepTyped DEF FrameArrives, FrameOverwrites
  <2>3. stream' \in Seq(Frame) /\ Len(stream') <= MaxInFlight
    BY <1>7, <2>1, LenProperties DEF FrameArrives, FrameOverwrites
  <2> QED BY <1>7, <2>2, <2>3 DEF FrameArrives, FrameOverwrites, Fault
<1>8. CASE Signal
  BY <1>8, DecoderStepTyped DEF Signal
<1>9. CASE InitDecoder
  BY <1>9, DecoderStepTyped DEF InitDecoder
<1>10. CASE InitInput \/ InitRequest
  BY <1>10 DEF InitInput, InitRequest, RequestIdr
<1>11. CASE TakeFrame
  BY <1>11, DecoderStepTyped DEF TakeFrame
<1>12. CASE DropFrame
  BY <1>12, DecoderStepTyped DEF DropFrame, RequestIdr
<1>13. CASE DecodeFrame
  BY <1>13, DecoderStepTyped DEF DecodeFrame
<1>14. CASE RefuseFrame
  BY <1>14, DecoderStepTyped DEF RefuseFrame, RequestIdr, Fault
<1>15. CASE Time
  BY <1>15, DecoderStepTyped DEF Time
<1>16. CASE UNCHANGED vars
  BY <1>16 DEF vars
<1> QED
  BY <1>1, <1>2, <1>3, <1>4, <1>5, <1>6, <1>7, <1>8, <1>9, <1>10, <1>11, <1>12,
     <1>13, <1>14, <1>15, <1>16 DEF Next

(* Every variable of the IDR loop keeps its type, for all bounds. *)
THEOREM LoopTypeCorrect == Spec => []TypeOK
  BY InitTyped, StepTyped, PTL DEF Spec

------------------------------------------------------------------------------
(* Only the receive thread and the decode thread touch slot and event, and *)
(* each keeps the promise: a frame in the slot will be looked for.         *)
LEMMA StepWakes == NoLostWakeup /\ [Next]_vars => NoLostWakeup'
<1> SUFFICES ASSUME NoLostWakeup, [Next]_vars PROVE NoLostWakeup'
  OBVIOUS
<1> USE DEF NoLostWakeup
<1>1. CASE UNCHANGED decoderVars
  BY <1>1 DEF decoderVars
<1>2. CASE FrameArrives \/ FrameOverwrites
  BY <1>2 DEF FrameArrives, FrameOverwrites, SubmitFrame
<1>3. CASE Signal
  BY <1>3 DEF Signal, SignalFrame
<1>4. CASE InitDecoder
  BY <1>4 DEF InitDecoder, StartDecoder
<1>5. CASE TakeFrame
  BY <1>5 DEF TakeFrame, Wake, Grab
<1>6. CASE DropFrame \/ DecodeFrame \/ RefuseFrame
  BY <1>6 DEF DropFrame, DropAndRequest, DropQuietly, DecodeFrame, DecodeSucceeds,
              RefuseFrame, DecodeFails, Decodes, Done
<1>7. CASE Time
  BY <1>7 DEF Time, Cool
<1> QED
  BY <1>1, <1>2, <1>3, <1>4, <1>5, <1>6, <1>7
  DEF Next, vars, Encode, EncodeFails, SendFrame, RequestArrives, LoseRequest, LoseFrame,
      InitInput, InitRequest

(* The decode thread never sleeps on a frame: TryAssembleFrame fills the   *)
(* slot before it sets the event, and the thread empties the slot only     *)
(* after it has consumed the event.                                        *)
THEOREM DecoderWakes == Spec => []NoLostWakeup
<1>1. Init => NoLostWakeup
  BY DEF Init, DecoderInit, NoLostWakeup
<1> QED BY <1>1, StepWakes, PTL DEF Spec

------------------------------------------------------------------------------
(* Until an encode fails, a request that is owed is still flagged or being *)
(* encoded.                                                                *)
RequestKept ==
  encodeFaults = 0 =>
    /\ owed => forceIdr \/ picture.idr
    /\ picture.asked => picture.idr
    /\ picture.stage = "flagged" => picture.idr

LEMMA StepKeepsRequest == TypeOK /\ RequestKept /\ [Next]_vars => RequestKept'
<1> SUFFICES ASSUME TypeOK, RequestKept, [Next]_vars PROVE RequestKept'
  OBVIOUS
<1> USE DEF RequestKept
<1>1. CASE UNCHANGED <<forceIdr, picture, owed>> /\ encodeFaults' = encodeFaults
  BY <1>1
<1>2. CASE Encode
  <2>1. CASE BeginPicture
    BY <1>2, <2>1 DEF Encode, budgets, BeginPicture, NoPicture
  <2>2. CASE ClearRequest \/ Submit
    BY <1>2, <2>2 DEF Encode, budgets, ClearRequest, Submit, TypeOK, EncoderTypeOK
  <2> QED BY <1>2, <2>1, <2>2 DEF Encode
<1>3. CASE EncodeFails
  <2>1. encodeFaults \in Nat /\ encodeFaults' = encodeFaults + 1
    BY <1>3, BoundsAssumption DEF EncodeFails, EncodeFault, TypeOK
  <2> QED BY <2>1
<1>4. CASE SendFrame
  BY <1>4 DEF SendFrame, budgets, Output, NoPicture
<1>5. CASE RequestArrives
  BY <1>5 DEF RequestArrives, budgets, ForceIdr
<1> QED
  BY <1>1, <1>2, <1>3, <1>4, <1>5
  DEF Next, vars, encoderVars, budgets, Fault, LoseRequest, LoseFrame, FrameArrives,
      FrameOverwrites, Signal, InitDecoder, InitInput, InitRequest, TakeFrame, DropFrame,
      DecodeFrame, RefuseFrame, Time

(* As long as no encode fails ForceIdr keeps its promise, although the flag *)
(* is read and cleared in two steps while requests arrive.                  *)
THEOREM ForcedIdrEncoded == Spec => []ForceIdrHonoured
<1>1. Init => RequestKept
  BY DEF Init, EncoderInit, NoPicture, RequestKept
<1>2. RequestKept => ForceIdrHonoured
  BY DEF RequestKept, ForceIdrHonoured
<1> QED BY <1>1, <1>2, LoopTypeCorrect, StepKeepsRequest, PTL DEF Spec
=============================================================================
