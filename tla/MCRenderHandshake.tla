-------------------------- MODULE MCRenderHandshake --------------------------
(* Instances of RenderHandshake for TLC.                                   *)
EXTENDS RenderHandshake
=============================================================================
