--------------------------- MODULE MCIdrRecovery ---------------------------
(***************************************************************************)
(* Model-checking instance of IdrRecovery; the Idr*.cfg files give the     *)
(* constants their values.                                                 *)
(***************************************************************************)
EXTENDS IdrRecovery
=============================================================================
