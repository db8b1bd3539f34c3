------------------------------ MODULE MC_Input ------------------------------
(* NmeaInput for TLC: lines below, at and above the size of a buffer of a few
   characters, with more commas than there are tokens.                     *)
EXTENDS NmeaInput
=============================================================================
