--------------------------- MODULE RendererFrames ---------------------------
(***************************************************************************)
(* Who owns a decoded frame: the decode thread hands it to Renderer        *)
(* (src/client/render/renderer.cpp) through the one pending slot, and the  *)
(* render thread frees it one iteration after it has shown it.  A frame    *)
(* never shown is put aside, too, by SubmitFrame.  SubmitFrame holds       *)
(* m_pendingLock; RenderLoop holds it for its grab but not when it frees   *)
(* and replaces m_deferredFreeFrame.                                       *)
(***************************************************************************)
EXTENDS Naturals

CONSTANT MaxFrames   (* bound: frames decoded *)

ASSUME FramesAssumption == MaxFrames \in Nat

None == 0
Frames == 1..MaxFrames

VARIABLES
  produced,      (* frames decoded so far; frames are named in this order *)
  freed,         (* frames given back to FFmpeg *)
  corrupted,     (* a frame has been freed twice *)
  raced,         (* history: both threads have been at m_deferredFreeFrame at once *)
  pending,       (* m_pending.frame, None unless ready *)
  deferred,      (* m_deferredFreeFrame *)
  event,         (* m_frameSubmittedEvent *)
  submitter,     (* where the decode thread is *)
  fresh,         (* the frame it submits *)
  submitVictim,  (* the frame it is freeing *)
  renderer,      (* where the render thread is *)
  hand,          (* the frame it shows *)
  renderVictim,  (* the frame it is freeing *)
  running,       (* the Renderer's m_running *)
  decoding,      (* the decoder's m_running *)
  stop           (* how far ClientSession::Stop has come *)

heapVars == <<produced, freed, corrupted>>
slotVars == <<pending, deferred>>
submitVars == <<submitter, fresh, submitVictim>>
renderVars == <<renderer, hand, renderVictim>>
stopVars == <<running, decoding, stop>>
vars == <<heapVars, raced, slotVars, event, submitVars, renderVars, stopVars>>

Init ==
  /\ produced = 0
  /\ freed = {}
  /\ corrupted = FALSE
  /\ raced = FALSE
  /\ pending = None
  /\ deferred = None
  /\ event = FALSE
  /\ submitter = "idle"
  /\ fresh = None
  /\ submitVictim = None
  /\ renderer = "waiting"
  /\ hand = None
  /\ renderVictim = None
  /\ running = TRUE
  /\ decoding = TRUE
  /\ stop = "streaming"

ForgetDeferred(victim) ==
  /\ deferred' = None
  /\ UNCHANGED <<produced, freed, corrupted>>

(* av_frame_free(&m_deferredFreeFrame), the pointer having been read before. *)
FreeDeferred(victim) ==
  /\ freed' = freed \cup ({victim} \ {None})
  /\ corrupted' = (corrupted \/ victim \in freed)
  /\ deferred' = IF victim = None THEN deferred ELSE None
  /\ UNCHANGED produced

------------------------------------------------------------------------------
(* The decode thread: DecodeLoop's callback, SubmitFrame. *)

Submitting == submitter \in {"freeing", "aside"}
Cleaning == renderer \in {"freeing", "keeping"}

DecodeFrame ==
  /\ submitter = "idle"
  /\ decoding
  /\ produced < MaxFrames
  /\ produced' = produced + 1
  /\ fresh' = produced'
  /\ submitter' = "decoded"
  /\ UNCHANGED <<freed, corrupted, raced, slotVars, event, submitVictim, renderVars, stopVars>>

StoreFrame ==
  /\ submitter = "decoded"
  /\ pending = None
  /\ pending' = fresh
  /\ fresh' = None
  /\ submitter' = "stored"
  /\ UNCHANGED <<heapVars, raced, deferred, event, submitVictim, renderVars, stopVars>>

(* The frame pending was never shown.  From here to DisplaceFrame the lock is held. *)
TakeStale ==
  /\ submitter = "decoded"
  /\ pending # None
  /\ submitVictim' = deferred
  /\ submitter' = "freeing"
  /\ raced' = (raced \/ Cleaning)
  /\ UNCHANGED <<heapVars, slotVars, event, fresh, renderVars, stopVars>>

FreeStale ==
  /\ submitter = "freeing"
  /\ FreeDeferred(submitVictim)
  /\ submitVictim' = None
  /\ submitter' = "aside"
  /\ UNCHANGED <<raced, pending, event, fresh, renderVars, stopVars>>

DisplaceFrame ==
  /\ submitter = "aside"
  /\ deferred' = pending
  /\ pending' = fresh
  /\ fresh' = None
  /\ submitter' = "stored"
  /\ UNCHANGED <<heapVars, raced, event, submitVictim, renderVars, stopVars>>

SignalUnlessBusy ==
  /\ submitter = "stored"
  /\ event' = (event \/ renderer = "waiting")
  /\ submitter' = "idle"
  /\ UNCHANGED <<heapVars, raced, slotVars, fresh, submitVictim, renderVars, stopVars>>

SignalFrame ==
  /\ submitter = "stored"
  /\ event' = TRUE
  /\ submitter' = "idle"
  /\ UNCHANGED <<heapVars, raced, slotVars, fresh, submitVictim, renderVars, stopVars>>

ExitDecode ==
  /\ submitter = "idle"
  /\ ~ decoding
  /\ submitter' = "exited"
  /\ UNCHANGED <<heapVars, raced, slotVars, event, fresh, submitVictim, renderVars, stopVars>>

------------------------------------------------------------------------------
(* The render thread: RenderLoop. *)

(* The 100 ms timeout of the wait only matters for ExitRender. *)
Wake ==
  /\ renderer = "waiting"
  /\ event
  /\ running
  /\ event' = FALSE
  /\ renderer' = "woken"
  /\ UNCHANGED <<heapVars, raced, slotVars, submitVars, hand, renderVictim, stopVars>>

GrabUnchecked ==
  /\ renderer = "woken"
  /\ ~ Submitting
  /\ hand' = pending
  /\ pending' = None
  /\ renderer' = "showing"
  /\ UNCHANGED <<heapVars, raced, deferred, event, submitVars, renderVictim, stopVars>>

GrabAndKeep ==
  /\ renderer = "woken"
  /\ ~ Submitting
  /\ hand' = pending
  /\ renderer' = IF pending = None THEN "waiting" ELSE "showing"
  /\ UNCHANGED <<heapVars, raced, slotVars, event, submitVars, renderVictim, stopVars>>

Grab ==
  /\ renderer = "woken"
  /\ ~ Submitting
  /\ hand' = pending
  /\ pending' = None
  /\ renderer' = IF pending = None THEN "waiting" ELSE "showing"
  /\ UNCHANGED <<heapVars, raced, deferred, event, submitVars, renderVictim, stopVars>>

(* RenderFrame, overlay and Present have run; the old frame is read. *)
TakeDeferred ==
  /\ renderer = "showing"
  /\ renderVictim' = deferred
  /\ renderer' = "freeing"
  /\ raced' = (raced \/ Submitting)
  /\ UNCHANGED <<heapVars, slotVars, event, submitVars, hand, stopVars>>

FreeShown ==
  /\ renderer = "freeing"
  /\ FreeDeferred(renderVictim)
  /\ renderVictim' = None
  /\ renderer' = "keeping"
  /\ UNCHANGED <<raced, pending, event, submitVars, hand, stopVars>>

KeepShown ==
  /\ renderer = "keeping"
  /\ deferred' = hand
  /\ hand' = None
  /\ renderer' = "waiting"
  /\ UNCHANGED <<heapVars, raced, pending, event, submitVars, renderVictim, stopVars>>

ExitRender ==
  /\ renderer = "waiting"
  /\ ~ running
  /\ renderer' = "exited"
  /\ UNCHANGED <<heapVars, raced, slotVars, event, submitVars, hand, renderVictim, stopVars>>

------------------------------------------------------------------------------
(* The session thread: ClientSession::Stop ends the renderer, then the decoder. *)

SignalOnly ==
  /\ stop = "streaming"
  /\ event' = TRUE
  /\ stop' = "joining_renderer"
  /\ UNCHANGED <<heapVars, raced, slotVars, submitVars, renderVars, running, decoding>>

StopRenderer ==
  /\ stop = "streaming"
  /\ running' = FALSE
  /\ event' = TRUE
  /\ stop' = "joining_renderer"
  /\ UNCHANGED <<heapVars, raced, slotVars, submitVars, renderVars, decoding>>

StopDecoder ==
  /\ stop = "joining_renderer"
  /\ renderer = "exited"
  /\ decoding' = FALSE
  /\ stop' = "joining_decoder"
  /\ UNCHANGED <<heapVars, raced, slotVars, event, submitVars, renderVars, running>>

Stopped ==
  /\ stop = "joining_decoder"
  /\ submitter = "exited"
  /\ stop' = "done"
  /\ UNCHANGED <<heapVars, raced, slotVars, event, submitVars, renderVars, running, decoding>>

------------------------------------------------------------------------------
DecodeThread == StoreFrame \/ TakeStale \/ FreeStale \/ DisplaceFrame \/ SignalFrame \/ ExitDecode
RenderThread == Wake \/ Grab \/ TakeDeferred \/ FreeShown \/ KeepShown \/ ExitRender
StopThread == StopDecoder \/ Stopped

Next == DecodeFrame \/ DecodeThread \/ RenderThread \/ StopRenderer \/ StopThread

Spec == Init /\ [][Next]_vars

(* Every thread keeps running; nobody has to decode or to stop. *)
FairSpec ==
  /\ Spec
  /\ WF_vars(DecodeThread)
  /\ WF_vars(RenderThread)
  /\ WF_vars(StopThread)

------------------------------------------------------------------------------
HeapOK ==
  /\ produced \in 0..MaxFrames
  /\ freed \in SUBSET Frames
  /\ corrupted \in BOOLEAN
  /\ raced \in BOOLEAN
  /\ event \in BOOLEAN
  /\ pending \in 0..produced
  /\ deferred \in 0..produced

SubmitOK ==
  /\ submitter \in {"idle", "decoded", "freeing", "aside", "stored", "exited"}
  /\ fresh \in 0..produced
  /\ submitVictim \in 0..produced
  /\ fresh # None <=> submitter \in {"decoded", "freeing", "aside"}
  /\ Submitting => pending # None

RenderOK ==
  /\ renderer \in {"waiting", "woken", "showing", "freeing", "keeping", "exited"}
  /\ hand \in 0..produced
  /\ renderVictim \in 0..produced
  /\ hand # None <=> renderer \in {"showing", "freeing", "keeping"}

StopOK ==
  /\ running \in BOOLEAN
  /\ decoding \in BOOLEAN
  /\ stop \in {"streaming", "joining_renderer", "joining_decoder", "done"}

(* Every variable has its type; a thread holds a frame only where it may. *)
TypeOK == HeapOK /\ SubmitOK /\ RenderOK /\ StopOK

(* A frame on its way to the screen is not freed: neither the one pending  *)
(* nor the one being shown, even while the threads race for the deferred   *)
(* one.  (A double free is undefined behaviour: like the properties below  *)
(* this one says nothing of what follows it.)                              *)
InUseLive == ~ corrupted => {pending, hand, fresh} \cap freed = {}

(* Frames that were decoded, are not freed, and that nobody knows of any more. *)
Lost == (1..produced) \ (freed \cup {pending, deferred, fresh, submitVictim, hand, renderVictim})

(* While the two threads keep out of each other's way at                   *)
(* m_deferredFreeFrame no frame is freed twice and none is lost, however   *)
(* frames are shown or displaced.                                          *)
LossNeedsRace == Lost # {} \/ corrupted => raced

(* "Free THIS frame on the NEXT iteration": frames are freed once. *)
FreedOnce == ~ corrupted

(* The latest frame does not stay in the slot: it is shown or displaced,   *)
(* unless the renderer is stopped.                                         *)
LatestTaken ==
  \A f \in Frames : pending = f ~> pending # f \/ ~ running \/ corrupted

(* ClientSession::Stop returns, whatever the threads are doing. *)
StopReturns == stop = "joining_renderer" ~> stop = "done" \/ corrupted
=============================================================================
