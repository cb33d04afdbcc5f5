------------------------ MODULE RendererFramesProofs ------------------------
(***************************************************************************)
(* Proofs about RendererFrames for any number of frames: types, frames in  *)
(* use are not freed, and nothing is lost or freed twice without a race.   *)
(***************************************************************************)
EXTENDS RendererFrames, TLAPS

LEMMA InitTyped == Init => TypeOK
<1> SUFFICES ASSUME Init PROVE TypeOK
  OBVIOUS
<1>1. HeapOK
  <2>1. produced \in 0..MaxFrames /\ pending \in 0..produced /\ deferred \in 0..produced
    BY FramesAssumption DEF Init, None
  <2>2. freed \in SUBSET Frames
    BY DEF Init
  <2>3. corrupted \in BOOLEAN /\ raced \in BOOLEAN /\ event \in BOOLEAN
    BY DEF Init
  <2> QED BY <2>1, <2>2, <2>3 DEF HeapOK
<1>2. SubmitOK
  BY DEF Init, SubmitOK, Submitting, None
<1>3. RenderOK
  BY DEF Init, RenderOK, None
<1>4. StopOK
  BY DEF Init, StopOK
<1> QED BY <1>1, <1>2, <1>3, <1>4 DEF TypeOK

(* The four parts of TypeOK, one by one. *)
LEMMA HeapStep ==
  ASSUME TypeOK, [Next]_vars
  PROVE  HeapOK'
<1> USE DEF HeapOK, heapVars, slotVars
<1>0. HeapOK /\ SubmitOK /\ RenderOK
  BY DEF TypeOK
<1>1. CASE DecodeFrame
  BY <1>0, <1>1, FramesAssumption DEF DecodeFrame
<1>2. CASE StoreFrame
  BY <1>0, <1>2 DEF StoreFrame, SubmitOK
<1>3. CASE TakeStale
  BY <1>0, <1>3 DEF TakeStale, Cleaning
<1>4. CASE FreeStale
  BY <1>0, <1>4, FramesAssumption DEF FreeStale, FreeDeferred, SubmitOK, Frames, None
<1>5. CASE DisplaceFrame
  BY <1>0, <1>5 DEF DisplaceFrame, SubmitOK
<1>8. CASE Grab
  BY <1>0, <1>8, FramesAssumption DEF Grab, None
<1>9. CASE TakeDeferred
  BY <1>0, <1>9 DEF TakeDeferred, Submitting
<1>10. CASE FreeShown
  BY <1>0, <1>10, FramesAssumption DEF FreeShown, FreeDeferred, RenderOK, Frames, None
<1>11. CASE KeepShown
  BY <1>0, <1>11 DEF KeepShown, RenderOK
<1>12. CASE SignalFrame \/ ExitDecode \/ Wake \/ ExitRender \/ StopRenderer \/ StopThread
  BY <1>0, <1>12 DEF SignalFrame, ExitDecode, Wake, ExitRender, StopRenderer, StopThread, StopDecoder, Stopped
<1>13. CASE UNCHANGED vars
  BY <1>0, <1>13 DEF vars
<1> QED
  BY <1>1, <1>2, <1>3, <1>4, <1>5, <1>8, <1>9, <1>10, <1>11, <1>12, <1>13
  DEF Next, DecodeThread, RenderThread

LEMMA SubmitStep ==
  ASSUME TypeOK, [Next]_vars
  PROVE  SubmitOK'
<1> USE DEF SubmitOK, submitVars
<1>0. HeapOK /\ SubmitOK
  BY DEF TypeOK
<1>1. CASE DecodeFrame
  BY <1>0, <1>1, FramesAssumption DEF DecodeFrame, HeapOK, Submitting, None
<1>2. CASE StoreFrame
  BY <1>0, <1>2, FramesAssumption DEF StoreFrame, HeapOK, heapVars, Submitting, None
<1>3. CASE TakeStale
  BY <1>0, <1>3 DEF TakeStale, HeapOK, heapVars, slotVars, Submitting, None
<1>4. CASE FreeStale
  BY <1>0, <1>4, FramesAssumption DEF FreeStale, FreeDeferred, HeapOK, Submitting, None
<1>5. CASE DisplaceFrame
  BY <1>0, <1>5, FramesAssumption DEF DisplaceFrame, HeapOK, heapVars, Submitting, None
<1>6. CASE SignalFrame \/ ExitDecode
  BY <1>0, <1>6 DEF SignalFrame, ExitDecode, heapVars, slotVars, Submitting
<1>7. CASE Grab
  BY <1>0, <1>7 DEF Grab, heapVars, Submitting
<1>8. CASE FreeShown
  BY <1>0, <1>8 DEF FreeShown, FreeDeferred, Submitting
<1>9. CASE KeepShown
  BY <1>0, <1>9 DEF KeepShown, heapVars, Submitting
<1>10. CASE UNCHANGED <<heapVars, slotVars, submitVars>>
  BY <1>0, <1>10 DEF heapVars, slotVars, Submitting
<1> QED
  BY <1>1, <1>2, <1>3, <1>4, <1>5, <1>6, <1>7, <1>8, <1>9, <1>10
  DEF Next, DecodeThread, RenderThread, StopThread, vars, Wake, TakeDeferred, ExitRender,
      StopRenderer, StopDecoder, Stopped

LEMMA RenderStep ==
  ASSUME TypeOK, [Next]_vars
  PROVE  RenderOK'
<1> USE DEF RenderOK, renderVars
<1>0. HeapOK /\ RenderOK
  BY DEF TypeOK
<1>1. CASE DecodeFrame
  BY <1>0, <1>1, FramesAssumption DEF DecodeFrame, HeapOK
<1>2. CASE FreeStale
  BY <1>0, <1>2 DEF FreeStale, FreeDeferred
<1>3. CASE Wake \/ ExitRender
  BY <1>0, <1>3 DEF Wake, ExitRender, heapVars
<1>4. CASE Grab
  BY <1>0, <1>4, FramesAssumption DEF Grab, HeapOK, heapVars, None
<1>5. CASE TakeDeferred
  BY <1>0, <1>5 DEF TakeDeferred, HeapOK, heapVars, slotVars
<1>6. CASE FreeShown
  BY <1>0, <1>6, FramesAssumption DEF FreeShown, FreeDeferred, HeapOK, None
<1>7. CASE KeepShown
  BY <1>0, <1>7, FramesAssumption DEF KeepShown, HeapOK, heapVars, None
<1>8. CASE UNCHANGED <<heapVars, renderVars>>
  BY <1>0, <1>8 DEF heapVars
<1> QED
  BY <1>1, <1>2, <1>3, <1>4, <1>5, <1>6, <1>7, <1>8
  DEF Next, DecodeThread, RenderThread, StopThread, vars, StoreFrame, TakeStale, DisplaceFrame,
      SignalFrame, ExitDecode, StopRenderer, StopDecoder, Stopped

LEMMA StopStep ==
  ASSUME TypeOK, [Next]_vars
  PROVE  StopOK'
<1> USE DEF StopOK, stopVars
<1>0. StopOK
  BY DEF TypeOK
<1>1. CASE StopRenderer \/ StopThread
  BY <1>0, <1>1 DEF StopRenderer, StopThread, StopDecoder, Stopped
<1>2. CASE UNCHANGED stopVars
  BY <1>0, <1>2
<1> QED
  BY <1>1, <1>2
  DEF Next, DecodeThread, RenderThread, vars, DecodeFrame, StoreFrame, TakeStale, FreeStale,
      DisplaceFrame, SignalFrame, ExitDecode, Wake, Grab, TakeDeferred, FreeShown, KeepShown, ExitRender

(* Every variable has its type and a thread holds a frame only where it    *)
(* may, for any number of frames.                                          *)
THEOREM RendererTypeCorrect == Spec => []TypeOK
<1>1. TypeOK /\ [Next]_vars => TypeOK'
  BY HeapStep, SubmitStep, RenderStep, StopStep DEF TypeOK
<1> QED BY <1>1, InitTyped, PTL DEF Spec

------------------------------------------------------------------------------
(* A frame in use is in one place and is not among those about to be freed. *)
InUse(f) == f # None /\ f \in {pending, hand, fresh}

Owned ==
  /\ freed \subseteq 1..produced
  /\ \A f \in 1..produced : InUse(f) => f \notin freed \cup {deferred, submitVictim, renderVictim}
  /\ pending # None => pending \notin {hand, fresh}
  /\ hand # None => hand # fresh

(* Where frames are. *)
LEMMA Places == TypeOK => /\ produced \in Nat
                          /\ {pending, deferred, hand, fresh, submitVictim, renderVictim} \subseteq 0..produced
  BY FramesAssumption DEF TypeOK, HeapOK, SubmitOK, RenderOK

LEMMA Victims == TypeOK => ({submitVictim, renderVictim} \ {None}) \subseteq 1..produced
  BY FramesAssumption DEF TypeOK, HeapOK, SubmitOK, RenderOK, None

(* What av_frame_free does. *)
LEMMA Freeing ==
  ASSUME NEW v, FreeDeferred(v)
  PROVE  /\ produced' = produced
         /\ freed' = freed \cup ({v} \ {None})
         /\ deferred' = IF v = None THEN deferred ELSE None
         /\ ~ corrupted /\ v \notin freed => ~ corrupted'
  BY DEF FreeDeferred

LEMMA StepOwned ==
  ASSUME TypeOK, Owned, [Next]_vars
  PROVE  Owned'
<1> USE Places DEF Owned, InUse, None
<1>1. CASE DecodeFrame
  BY <1>1 DEF DecodeFrame, slotVars, renderVars
<1>2. CASE StoreFrame
  BY <1>2 DEF StoreFrame, heapVars, renderVars
<1>3. CASE TakeStale
  BY <1>3 DEF TakeStale, heapVars, slotVars, renderVars
<1>4. CASE FreeStale
  <2>1. FreeDeferred(submitVictim) /\ submitVictim' = None /\ UNCHANGED <<pending, fresh, hand, renderVictim>>
    BY <1>4 DEF FreeStale, renderVars
  <2>2. /\ produced' = produced /\ freed' = freed \cup ({submitVictim} \ {None})
        /\ deferred' \in {deferred, None}
    BY <2>1, Freeing
  <2>3. freed' \subseteq 1..produced'
    BY <2>2, Victims
  <2>4. ASSUME NEW f \in 1..produced, InUse(f)'
        PROVE  f \notin freed' \cup {deferred', submitVictim', renderVictim'}
    BY <2>1, <2>2, <2>4
  <2> QED BY <2>1, <2>2, <2>3, <2>4
<1>5. CASE DisplaceFrame
  BY <1>5 DEF DisplaceFrame, heapVars, renderVars
<1>6. CASE Grab
  BY <1>6 DEF Grab, heapVars, submitVars
<1>7. CASE TakeDeferred
  BY <1>7 DEF TakeDeferred, heapVars, slotVars, submitVars
<1>8. CASE FreeShown
  <2>1. FreeDeferred(renderVictim) /\ renderVictim' = None /\ UNCHANGED <<pending, hand, fresh, submitVictim>>
    BY <1>8 DEF FreeShown, submitVars
  <2>2. /\ produced' = produced /\ freed' = freed \cup ({renderVictim} \ {None})
        /\ deferred' \in {deferred, None}
    BY <2>1, Freeing
  <2>3. freed' \subseteq 1..produced'
    BY <2>2, Victims
  <2>4. ASSUME NEW f \in 1..produced, InUse(f)'
        PROVE  f \notin freed' \cup {deferred', submitVictim', renderVictim'}
    BY <2>1, <2>2, <2>4
  <2> QED BY <2>1, <2>2, <2>3, <2>4
<1>9. CASE KeepShown
  BY <1>9 DEF KeepShown, heapVars, submitVars
<1>10. CASE UNCHANGED <<heapVars, slotVars, fresh, submitVictim, hand, renderVictim>>
  BY <1>10 DEF heapVars, slotVars
<1> QED
  BY <1>1, <1>2, <1>3, <1>4, <1>5, <1>6, <1>7, <1>8, <1>9, <1>10
  DEF Next, DecodeThread, RenderThread, StopThread, vars, SignalFrame, ExitDecode, Wake, ExitRender,
      StopRenderer, StopDecoder, Stopped, submitVars, renderVars

(* SubmitFrame and RenderLoop never free the frame that is pending or      *)
(* being shown, although they race for m_deferredFreeFrame.                *)
THEOREM ShownFramesLive == Spec => []InUseLive
<1>1. Init => Owned
  BY DEF Init, Owned, InUse, None
<1>2. TypeOK /\ Owned => InUseLive
  <2> SUFFICES ASSUME TypeOK, Owned, NEW f \in {pending, hand, fresh}, f \in freed PROVE FALSE
    BY DEF InUseLive
  <2>1. f \in 1..produced /\ f # None
    BY FramesAssumption DEF Owned, TypeOK, None
  <2> QED BY <2>1 DEF Owned, InUse
<1> QED BY <1>1, <1>2, RendererTypeCorrect, StepOwned, PTL DEF Spec

------------------------------------------------------------------------------
(* What m_deferredFreeFrame means to a thread that has it to itself. *)
Undisturbed ==
  /\ ~ (Submitting /\ Cleaning)
  /\ submitter = "freeing" => submitVictim = deferred
  /\ renderer = "freeing" => renderVictim = deferred
  /\ submitter = "aside" => deferred = None
  /\ renderer = "keeping" => deferred = None
  /\ deferred \notin freed
  /\ ~ corrupted
  /\ Lost = {}

Orderly ==
  /\ submitter # "freeing" => submitVictim = None
  /\ renderer # "freeing" => renderVictim = None
  /\ ~ raced => Undisturbed

(* A thread about to take a frame has none. *)
LEMMA Ready ==
  TypeOK => /\ submitter \in {"idle", "stored"} => fresh = None
            /\ renderer = "woken" => hand = None
  BY DEF TypeOK, SubmitOK, RenderOK

LEMMA StepOrderly ==
  ASSUME TypeOK, Owned, Orderly, [Next]_vars
  PROVE  Orderly'
<1> USE Places DEF Owned, InUse, None, Orderly, Undisturbed, Lost, Submitting, Cleaning
<1>1. CASE DecodeFrame
  BY <1>1, Ready DEF DecodeFrame, slotVars, renderVars
<1>2. CASE StoreFrame
  BY <1>2 DEF StoreFrame, heapVars, renderVars
<1>3. CASE TakeStale
  BY <1>3 DEF TakeStale, heapVars, slotVars, renderVars
<1>4. CASE FreeStale
  <2>1. /\ FreeDeferred(submitVictim) /\ submitVictim' = None
        /\ submitter = "freeing" /\ submitter' = "aside"
        /\ UNCHANGED <<raced, pending, fresh, renderer, hand, renderVictim>>
    BY <1>4 DEF FreeStale, renderVars
  <2> QED BY <2>1, Freeing
<1>5. CASE DisplaceFrame
  BY <1>5 DEF DisplaceFrame, heapVars, renderVars
<1>6. CASE Grab
  BY <1>6, Ready DEF Grab, heapVars, submitVars
<1>7. CASE TakeDeferred
  BY <1>7 DEF TakeDeferred, heapVars, slotVars, submitVars
<1>8. CASE FreeShown
  <2>1. /\ FreeDeferred(renderVictim) /\ renderVictim' = None
        /\ renderer = "freeing" /\ renderer' = "keeping"
        /\ UNCHANGED <<raced, pending, hand, submitter, fresh, submitVictim>>
    BY <1>8 DEF FreeShown, submitVars
  <2> QED BY <2>1, Freeing
<1>9. CASE KeepShown
  BY <1>9 DEF KeepShown, heapVars, submitVars
<1>10. CASE SignalFrame \/ ExitDecode
  BY <1>10 DEF SignalFrame, ExitDecode, heapVars, slotVars, renderVars
<1>11. CASE Wake \/ ExitRender
  BY <1>11 DEF Wake, ExitRender, heapVars, slotVars, submitVars
<1>12. CASE UNCHANGED <<heapVars, raced, slotVars, submitVars, renderVars>>
  BY <1>12 DEF heapVars, slotVars, submitVars, renderVars
<1> QED
  BY <1>1, <1>2, <1>3, <1>4, <1>5, <1>6, <1>7, <1>8, <1>9, <1>10, <1>11, <1>12
  DEF Next, DecodeThread, RenderThread, StopThread, vars, StopRenderer, StopDecoder, Stopped

(* Frames are lost or freed twice only after the two threads have been at  *)
(* m_deferredFreeFrame, which no lock protects on the render thread's      *)
(* side, at once.                                                          *)
THEOREM OnlyRacesLose == Spec => []LossNeedsRace
<1>1. Init => Owned /\ Orderly
  BY DEF Init, Owned, InUse, None, Orderly, Undisturbed, Lost, Submitting, Cleaning
<1>2. Orderly => LossNeedsRace
  BY DEF Orderly, Undisturbed, LossNeedsRace
<1> QED BY <1>1, <1>2, RendererTypeCorrect, StepOwned, StepOrderly, PTL DEF Spec
=============================================================================
