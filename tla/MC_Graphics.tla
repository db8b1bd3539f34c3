----------------------------- MODULE MC_Graphics -----------------------------
(* MinuiGraphics for TLC: framebuffers with room for one and for two screens. *)
EXTENDS MinuiGraphics
=============================================================================
