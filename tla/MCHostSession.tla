---------------------------- MODULE MCHostSession ----------------------------
(***************************************************************************)
(* Model-checking instance of HostSession; HostRuntime.cfg gives the       *)
(* constants their values.                                                 *)
(***************************************************************************)
EXTENDS HostSession
=============================================================================
