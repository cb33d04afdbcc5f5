---------------------------- MODULE NvencEncoder ----------------------------
(***************************************************************************)
(* NvencEncoder (src/host/encode/nvenc_encoder.cpp) on the capture thread, *)
(* with ForceIdr called from the input receiver's thread.  m_forceIdr is a *)
(* plain bool that EncodeFrame reads and then clears.  Calls that return   *)
(* before they read it (missed deadline, registration or mapping failed)   *)
(* change nothing and are not steps.                                       *)
(***************************************************************************)
EXTENDS EncodedFrame

VARIABLES
  forceIdr,    (* m_forceIdr *)
  picture,     (* the EncodeFrame call under way *)
  started,     (* NVENC has encoded a picture: the first is always an IDR *)
  linked,      (* the picture encoded last has been sent and not been lost *)
  owed         (* history: ForceIdr was called and no IDR has come out since *)

encoderVars == <<forceIdr, picture, started, linked, owed>>

NoPicture == [stage |-> "none", idr |-> FALSE, asked |-> FALSE]

(* A client may join before the capture starts or in the middle of the stream. *)
EncoderInit ==
  /\ forceIdr = FALSE
  /\ picture = NoPicture
  /\ started \in BOOLEAN
  /\ linked = FALSE
  /\ owed = FALSE

ForceIdr ==
  /\ forceIdr' = TRUE
  /\ owed' = TRUE
  /\ UNCHANGED <<picture, started, linked>>

(* EncodeFrame up to its test of m_forceIdr. *)
BeginPicture ==
  /\ picture = NoPicture
  /\ picture' = [stage |-> IF forceIdr THEN "flagged" ELSE "ready",
                 idr   |-> forceIdr \/ ~ started,
                 asked |-> owed]
  /\ UNCHANGED <<forceIdr, started, linked, owed>>

NeverClears ==
  /\ picture.stage = "flagged"
  /\ picture' = [picture EXCEPT !.stage = "ready"]
  /\ UNCHANGED <<forceIdr, started, linked, owed>>

ClearRequest ==
  /\ picture.stage = "flagged"
  /\ forceIdr' = FALSE
  /\ picture' = [picture EXCEPT !.stage = "ready"]
  /\ UNCHANGED <<started, linked, owed>>

ClearsWhenSubmitting ==
  /\ picture.stage = "ready"
  /\ picture' = [picture EXCEPT !.stage = "encoding"]
  /\ started' = TRUE
  /\ forceIdr' = FALSE
  /\ UNCHANGED <<linked, owed>>

Submit ==
  /\ picture.stage = "ready"
  /\ picture' = [picture EXCEPT !.stage = "encoding"]
  /\ started' = TRUE
  /\ UNCHANGED <<forceIdr, linked, owed>>

(* nvEncEncodePicture fails: nothing was encoded. *)
SubmitFails ==
  /\ picture.stage = "ready"
  /\ picture' = NoPicture
  /\ UNCHANGED <<forceIdr, started, linked, owed>>

(* The wait times out or the bitstream cannot be locked: the picture was   *)
(* encoded, the next one refers to it, and nobody will send it.            *)
OutputLost ==
  /\ picture.stage = "encoding"
  /\ picture' = NoPicture
  /\ linked' = FALSE
  /\ UNCHANGED <<forceIdr, started, owed>>

(* The bitstream goes to OnEncodeDone and from there to the sender. *)
OutputFrame == [idr |-> picture.idr, linked |-> linked \/ picture.idr]

Output ==
  /\ picture.stage = "encoding"
  /\ picture' = NoPicture
  /\ linked' = TRUE
  /\ owed' = (owed /\ ~ picture.idr)
  /\ UNCHANGED <<forceIdr, started>>

EncoderTypeOK ==
  /\ forceIdr \in BOOLEAN
  /\ picture \in [stage : {"none", "flagged", "ready", "encoding"}, idr : BOOLEAN, asked : BOOLEAN]
  /\ picture.stage = "none" => picture = NoPicture
  /\ started \in BOOLEAN
  /\ linked \in BOOLEAN
  /\ owed \in BOOLEAN
=============================================================================
