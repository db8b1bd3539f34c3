--------------------------- MODULE PreviewSession ---------------------------
(***************************************************************************)
(* What the camera HAL promises the camera service about callbacks: frames *)
(* only while a preview session lasts, at most one more after the service  *)
(* asked for the end of the session, none once stopPreview has returned,   *)
(* pictures only outside a session, and one callback at a time.            *)
(* CameraHardware implements it.                                           *)
(***************************************************************************)
EXTENDS Naturals

VARIABLES
    mode,      \* "off", "on", or "stopping" once stopPreview was called
    callback,  \* the data callback in progress
    late       \* frames sent while stopping

sessionVars == <<mode, callback, late>>

Init == mode = "off" /\ callback = "none" /\ late = 0

Start ==
    /\ mode = "off" /\ callback = "none"
    /\ mode' = "on" /\ late' = 0
    /\ UNCHANGED callback

RequestStop ==
    /\ mode = "on"
    /\ mode' = "stopping"
    /\ UNCHANGED <<callback, late>>

SendFrame ==
    /\ callback = "none"
    /\ \/ mode = "on" /\ UNCHANGED late
       \/ mode = "stopping" /\ late = 0 /\ late' = 1
    /\ callback' = "frame"
    /\ UNCHANGED mode

SendPicture ==
    /\ callback = "none" /\ mode = "off"
    /\ callback' = "picture"
    /\ UNCHANGED <<mode, late>>

CallbackReturns ==
    /\ callback # "none"
    /\ callback' = "none"
    /\ UNCHANGED <<mode, late>>

Stopped ==
    /\ mode = "stopping" /\ callback = "none"
    /\ mode' = "off"
    /\ UNCHANGED <<callback, late>>

Next == Start \/ RequestStop \/ SendFrame \/ SendPicture \/ CallbackReturns
        \/ Stopped

Spec == Init /\ [][Next]_sessionVars
=============================================================================
