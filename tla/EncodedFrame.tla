---------------------------- MODULE EncodedFrame ----------------------------
(***************************************************************************)
(* What encoder and decoder know a frame by: whether it is an IDR picture, *)
(* and whether the picture it refers to, the one encoded before it, comes  *)
(* immediately before it at this point of the pipeline.  A stage that      *)
(* loses a frame thereby breaks the link of the next.                      *)
(***************************************************************************)
Frame == [idr : BOOLEAN, linked : BOOLEAN]

NoFrame == [idr |-> FALSE, linked |-> FALSE, none |-> TRUE]

(* An IDR picture refers to none, so its link cannot break. *)
Unlinked(f) == [f EXCEPT !.linked = f.idr]
=============================================================================
