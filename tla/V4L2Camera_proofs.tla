-------------------------- MODULE V4L2Camera_proofs --------------------------
(***************************************************************************)
(* What the calls of the V4L2Camera class preserve, whoever makes them.    *)
(***************************************************************************)
EXTENDS V4L2Camera, TLAPS

\* Every call, successful or failing, and the driver's own step keep the
\* object well formed; in particular a buffer that holds a captured frame is
\* always one that the driver owns.
LEMMA CallKeepsCamType == CamTypeOK /\ Call => CamTypeOK'
<1> SUFFICES ASSUME CamTypeOK, Call PROVE CamTypeOK'
  OBVIOUS
<1>1. CASE OpenOk \/ OpenNoDevice \/ Close
  BY <1>1 DEF OpenOk, OpenNoDevice, Close, CamTypeOK, camVars
<1>2. CASE OpenLeaks
  BY <1>2 DEF OpenLeaks, Fault, CamTypeOK
<1>3. CASE InitOk
  BY <1>3, BufferAssumption DEF InitOk, CamTypeOK, Buffers
<1>4. CASE InitFails
  <2>1. faults' \in Nat
    BY <1>4 DEF InitFails, Fault, CamTypeOK
  <2>2. CASE UNCHANGED <<queued, filled, mapped, outstanding, index>>
    BY <1>4, <2>1, <2>2 DEF InitFails, CamTypeOK
  <2>3. ASSUME NEW n \in 0 .. NB_BUFFER - 1, NEW m \in {0, 1},
               queued' = 1 .. n, filled' = {},
               mapped' = mapped \cup 1 .. n + m,
               outstanding' = outstanding + n, index' = n + 1
        PROVE  CamTypeOK'
    <3>1. /\ 1 .. n \subseteq Buffers /\ 1 .. n + m \subseteq Buffers
          /\ n + 1 \in Buffers
      BY <2>3, BufferAssumption DEF Buffers
    <3>2. UNCHANGED <<fd, leaked, driverOn, isStreaming>>
      BY <1>4 DEF InitFails
    <3> QED
      BY <2>1, <2>3, <3>1, <3>2 DEF CamTypeOK, Buffers
  <2> QED
    BY <1>4, <2>2, <2>3 DEF InitFails
<1>5. CASE UninitTake
  BY <1>5 DEF UninitTake, Dequeue, DequeueFails, Fault, CamTypeOK
<1>6. CASE UninitReset
  BY <1>6 DEF UninitReset, CamTypeOK
<1>7. CASE StartStreamingOk
  <2>1. driverOn' \in BOOLEAN /\ isStreaming' \in BOOLEAN
    BY <1>7 DEF StartStreamingOk, CamTypeOK
  <2> QED
    BY <1>7, <2>1 DEF StartStreamingOk, CamTypeOK
<1>8. CASE StartStreamingFails \/ StopStreamingFails
  BY <1>8 DEF StartStreamingFails, StopStreamingFails, Fault, CamTypeOK
<1>9. CASE StopStreamingOk
  BY <1>9 DEF StopStreamingOk, CamTypeOK
<1>10. CASE GrabOk
  BY <1>10 DEF GrabOk, Dequeue, CamTypeOK
<1>11. CASE GrabFails
  BY <1>11 DEF GrabFails, DequeueFails, Fault, CamTypeOK
<1>12. CASE ReleasePreviewFrame
  BY <1>12 DEF ReleasePreviewFrame, Enqueue, EnqueueFails, Fault, CamTypeOK
<1>13. CASE JpegRequeueOk
  BY <1>13 DEF JpegRequeueOk, Enqueue, CamTypeOK
<1>14. CASE JpegRequeueFails
  BY <1>14 DEF JpegRequeueFails, EnqueueFails, Fault, CamTypeOK
<1>15. CASE DriverFill
  BY <1>15 DEF DriverFill, CamTypeOK
<1> QED
  BY <1>1, <1>2, <1>3, <1>4, <1>5, <1>6, <1>7, <1>8, <1>9, <1>10, <1>11,
     <1>12, <1>13, <1>14, <1>15 DEF Call
=============================================================================
