----------------------------- MODULE MC_Module -----------------------------
(* CameraModule for TLC: two cameras, opened one after the other, together
   and in turns.                                                           *)
EXTENDS CameraModule
=============================================================================
