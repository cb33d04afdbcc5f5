-------------------------- MODULE MCVideoTransport --------------------------
(***************************************************************************)
(* Model-checking instance of VideoTransport; the Transport*.cfg files     *)
(* give the constants their values.                                        *)
(***************************************************************************)
EXTENDS VideoTransport
=============================================================================
