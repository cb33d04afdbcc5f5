-------------------------- MODULE MCRendererFrames --------------------------
(***************************************************************************)
(* Model-checking instance of RendererFrames; the Renderer*.cfg files give *)
(* the constant its value.                                                 *)
(***************************************************************************)
EXTENDS RendererFrames
=============================================================================
