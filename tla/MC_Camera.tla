------------------------------ MODULE MC_Camera ------------------------------
(* CameraHardware for TLC.  Which device nodes capture, and which calls may
   fail, differ from run to run.                                           *)
EXTENDS CameraHardware

CONSTANTS surface, lost

=============================================================================
