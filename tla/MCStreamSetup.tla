---------------------------- MODULE MCStreamSetup ----------------------------
(***************************************************************************)
(* Model-checking instance of StreamSetup; the Setup*.cfg files give the   *)
(* constants their values.                                                 *)
(***************************************************************************)
EXTENDS StreamSetup
=============================================================================
