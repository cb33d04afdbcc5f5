--------------------------- MODULE MCClientSession ---------------------------
(***************************************************************************)
(* Model-checking instance of ClientSession; ClientRuntime.cfg gives the   *)
(* constants their values.                                                 *)
(***************************************************************************)
EXTENDS ClientSession
=============================================================================
