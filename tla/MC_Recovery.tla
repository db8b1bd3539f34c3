----------------------------- MODULE MC_Recovery -----------------------------
(* PseudoRecovery for TLC: a user with two boot scripts, or none.          *)
EXTENDS PseudoRecovery
=============================================================================
