----------------------------- MODULE MC_Stream -----------------------------
(* MemoryStream for TLC: pictures smaller than, as long as and longer than
   the buffer, and a pipe that holds less than any of them.               *)
EXTENDS MemoryStream
=============================================================================
