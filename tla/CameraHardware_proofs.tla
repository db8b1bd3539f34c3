------------------------ MODULE CameraHardware_proofs ------------------------
(***************************************************************************)
(* Proofs about CameraHardware, for every number of buffers, every set of  *)
(* windows, messages and nodes, and every choice of the calls that fail    *)
(* and how often.                                                          *)
(*                                                                         *)
(* TypeStep collects the typing of the device (V4L2Camera_proofs) and of   *)
(* the control state; ControlStep is the inductive step of ControlInv,     *)
(* from which the safety theorems follow and which the refinement needs.   *)
(***************************************************************************)
EXTENDS CameraHardware, V4L2Camera_proofs, FiniteSetTheorems

----------------------------------------------------------------------------
(* Types.  The flags and the other variables are kept apart: the first are *)
(* a matter of propositional reasoning, the second of sets and numbers.    *)

HwBooleans ==
    /\ exitPending \in BOOLEAN
    /\ mPreviewThread \in BOOLEAN
    /\ previewStopped \in BOOLEAN
    /\ mRecordRunning \in BOOLEAN
    /\ crashed \in BOOLEAN

HwOthers ==
    /\ mLock \in {"free", "service", "preview"}
    /\ svc \in SvcStates
    /\ job \in Jobs
    /\ node \in MIN_VIDEONODE - 1 .. MAX_VIDEONODE
    /\ taken \in Nat
    /\ pv \in PvStates
    /\ pvWindow \in Windows \cup {NULL}
    /\ mNativeWindow \in Windows \cup {NULL}
    /\ mMsgEnabled \subseteq Msgs
    /\ picture \in {"none", NULL, "jpeg"}
    /\ late \in Nat

\* No step of any thread takes a flag of CameraHardware out of its type.
LEMMA BooleansStep == HwBooleans /\ [Next]_vars => HwBooleans'
<1> SUFFICES ASSUME HwBooleans, [Next]_vars PROVE HwBooleans'
  OBVIOUS
<1> USE DEF HwBooleans
<1>1. ASSUME NEW w \in Windows \cup {NULL}, SetPreviewWindow(w)
      PROVE  HwBooleans'
  BY <1>1 DEF SetPreviewWindow, ThreadVars
<1>2. ASSUME NEW m \in Msgs, EnableMsgType(m)
      PROVE  HwBooleans'
  BY <1>2 DEF EnableMsgType, ThreadVars
<1>3. ASSUME NEW m \in Msgs, DisableMsgType(m)
      PROVE  HwBooleans'
  BY <1>3 DEF DisableMsgType, ThreadVars
<1>4. ASSUME NEW on \in BOOLEAN, SetRecording(on)
      PROVE  HwBooleans'
  BY <1>4 DEF SetRecording, ThreadVars
<1>5. CASE Release
  BY <1>5 DEF Release, ThreadVars
<1>6. CASE StartPreview
  BY <1>6 DEF StartPreview, ThreadVars
<1>7. ASSUME NEW why \in {"stop", "picture"}, StopPreview(why)
      PROVE  HwBooleans'
  BY <1>7 DEF StopPreview, ThreadVars
<1>8. CASE OpenNode
  BY <1>8 DEF OpenNode, ThreadVars, ClientVars
<1>9. CASE OpenGivesUp
  BY <1>9 DEF OpenGivesUp, ThreadVars, ClientVars
<1>10. CASE InitDevice
  BY <1>10 DEF InitDevice, ThreadVars, ClientVars
<1>11. CASE StartStreamingForPreview
  BY <1>11 DEF StartStreamingForPreview, ClientVars
<1>12. CASE StartStreamingForPicture
  BY <1>12 DEF StartStreamingForPicture, ThreadVars, ClientVars
<1>13. CASE StartStreamingFailsForPreview
  BY <1>13 DEF StartStreamingFailsForPreview, ThreadVars, ClientVars
<1>14. CASE SetStopped
  BY <1>14 DEF SetStopped, ClientVars
<1>15. CASE CopyThread
  BY <1>15 DEF CopyThread, ThreadVars, ClientVars
<1>16. CASE RequestExit
  BY <1>16 DEF RequestExit, ClientVars
<1>17. CASE Join
  BY <1>17 DEF Join, ThreadVars, ClientVars
<1>18. CASE GrabJpeg
  BY <1>18 DEF GrabJpeg, ThreadVars, ClientVars
<1>19. CASE RequeueJpeg
  BY <1>19 DEF RequeueJpeg, ThreadVars, ClientVars
<1>20. CASE EncodeJpeg
  BY <1>20 DEF EncodeJpeg, ThreadVars, ClientVars
<1>21. CASE DeliverPicture
  BY <1>21 DEF DeliverPicture, ThreadVars, ClientVars
<1>22. CASE Drain
  BY <1>22 DEF Drain, ThreadVars, ClientVars
<1>23. CASE DrainEnds
  BY <1>23 DEF DrainEnds, ThreadVars, ClientVars
<1>24. CASE StopStreaming
  BY <1>24 DEF StopStreaming, ThreadVars, ClientVars
<1>25. CASE CloseDevice
  BY <1>25 DEF CloseDevice, ThreadVars, ClientVars
<1>26. CASE ClearThread
  BY <1>26 DEF ClearThread, ClientVars
<1>27. CASE CheckExit
  BY <1>27 DEF CheckExit, SvcVars
<1>28. CASE ReadStopped
  BY <1>28 DEF ReadStopped, SvcVars
<1>29. CASE LockForFrame
  BY <1>29 DEF LockForFrame, SvcVars
<1>30. CASE DequeueWindow
  BY <1>30 DEF DequeueWindow, SvcVars
<1>31. CASE GrabFrame
  BY <1>31 DEF GrabFrame, SvcVars
<1>32. CASE ConvertFrame
  BY <1>32 DEF ConvertFrame, SvcVars
<1>33. CASE DeliverFrame
  BY <1>33 DEF DeliverFrame, SvcVars
<1>34. CASE ReleaseFrame
  BY <1>34 DEF ReleaseFrame, SvcVars
<1>35. CASE Unlock
  BY <1>35 DEF Unlock, SvcVars
<1>36. CASE Driver
  BY <1>36 DEF Driver, hwVars
<1>37. CASE UNCHANGED vars
  BY <1>37 DEF vars, hwVars
<1> QED
  BY <1>1, <1>2, <1>3, <1>4, <1>5, <1>6, <1>7, <1>8, <1>9, <1>10, <1>11,
     <1>12, <1>13, <1>14, <1>15, <1>16, <1>17, <1>18, <1>19, <1>20, <1>21,
     <1>22, <1>23, <1>24, <1>25, <1>26, <1>27, <1>28, <1>29, <1>30, <1>31,
     <1>32, <1>33, <1>34, <1>35, <1>36, <1>37
     DEF Next, Client, ServiceStep, PreviewStep

\* No step of any thread takes another variable of CameraHardware out of its
\* type.
LEMMA OthersStep == HwOthers /\ [Next]_vars => HwOthers'
<1> SUFFICES ASSUME HwOthers, [Next]_vars PROVE HwOthers'
  OBVIOUS
<1> USE DEF HwOthers, Jobs, SvcStates, PvStates, MIN_VIDEONODE, MAX_VIDEONODE
<1>1. ASSUME NEW w \in Windows \cup {NULL}, SetPreviewWindow(w)
      PROVE  HwOthers'
  BY <1>1 DEF SetPreviewWindow, PlaceVars, ThreadVars
<1>2. ASSUME NEW m \in Msgs, EnableMsgType(m)
      PROVE  HwOthers'
  BY <1>2 DEF EnableMsgType, PlaceVars, ThreadVars
<1>3. ASSUME NEW m \in Msgs, DisableMsgType(m)
      PROVE  HwOthers'
  BY <1>3 DEF DisableMsgType, PlaceVars, ThreadVars
<1>4. ASSUME NEW on \in BOOLEAN, SetRecording(on)
      PROVE  HwOthers'
  BY <1>4 DEF SetRecording, PlaceVars, ThreadVars
<1>5. CASE Release
  BY <1>5 DEF Release, PlaceVars, ThreadVars
<1>6. CASE StartPreview
  BY <1>6 DEF StartPreview, ThreadVars
<1>7. ASSUME NEW why \in {"stop", "picture"}, StopPreview(why)
      PROVE  HwOthers'
  BY <1>7 DEF StopPreview, ThreadVars
<1>8. CASE OpenNode
  BY <1>8 DEF OpenNode, At, Goto, ThreadVars, ClientVars
<1>9. CASE OpenGivesUp
  BY <1>9 DEF OpenGivesUp, At, Return, ThreadVars, ClientVars
<1>10. CASE InitDevice
  BY <1>10 DEF InitDevice, At, Goto, ThreadVars, ClientVars
<1>11. CASE StartStreamingForPreview
  BY <1>11 DEF StartStreamingForPreview, At, Return, ClientVars
<1>12. CASE StartStreamingForPicture
  BY <1>12 DEF StartStreamingForPicture, At, Goto, ThreadVars, ClientVars
<1>13. CASE StartStreamingFailsForPreview
  BY <1>13 DEF StartStreamingFailsForPreview, At, Goto, ThreadVars,
      ClientVars
<1>14. CASE SetStopped
  BY <1>14 DEF SetStopped, At, Goto, ClientVars
<1>15. CASE CopyThread
  BY <1>15 DEF CopyThread, At, Goto, ThreadVars, ClientVars
<1>16. CASE RequestExit
  BY <1>16 DEF RequestExit, At, Goto, ClientVars
<1>17. CASE Join
  BY <1>17 DEF Join, At, Goto, ThreadVars, ClientVars
<1>18. CASE GrabJpeg
  BY <1>18 DEF GrabJpeg, At, Goto, ThreadVars, ClientVars
<1>19. CASE RequeueJpeg
  BY <1>19 DEF RequeueJpeg, At, Goto, ThreadVars, ClientVars
<1>20. CASE EncodeJpeg
  BY <1>20 DEF EncodeJpeg, At, Goto, ThreadVars, ClientVars
<1>21. CASE DeliverPicture
  BY <1>21 DEF DeliverPicture, At, Goto, ThreadVars, ClientVars
<1>22. CASE Drain
  BY <1>22 DEF Drain, At, ThreadVars, ClientVars
<1>23. CASE DrainEnds
  BY <1>23 DEF DrainEnds, At, Goto, ThreadVars, ClientVars
<1>24. CASE StopStreaming
  BY <1>24 DEF StopStreaming, At, Goto, ThreadVars, ClientVars
<1>25. CASE CloseDevice
  BY <1>25 DEF CloseDevice, At, Goto, Return, ThreadVars, ClientVars
<1>26. CASE ClearThread
  BY <1>26 DEF ClearThread, At, Return, ClientVars
<1>27. CASE CheckExit
  BY <1>27 DEF CheckExit, AtPv, SvcVars
<1>28. CASE ReadStopped
  BY <1>28 DEF ReadStopped, AtPv, SvcVars
<1>29. CASE LockForFrame
  BY <1>29 DEF LockForFrame, AtPv, SvcVars
<1>30. CASE DequeueWindow
  BY <1>30 DEF DequeueWindow, AtPv, SvcVars
<1>31. CASE GrabFrame
  BY <1>31 DEF GrabFrame, AtPv, SvcVars
<1>32. CASE ConvertFrame
  BY <1>32 DEF ConvertFrame, AtPv, SvcVars
<1>33. CASE DeliverFrame
  BY <1>33 DEF DeliverFrame, AtPv, SvcVars
<1>34. CASE ReleaseFrame
  BY <1>34 DEF ReleaseFrame, AtPv, SvcVars
<1>35. CASE Unlock
  BY <1>35 DEF Unlock, AtPv, SvcVars
<1>36. CASE Driver
  BY <1>36 DEF Driver, hwVars
<1>37. CASE UNCHANGED vars
  BY <1>37 DEF vars, hwVars
<1> QED
  BY <1>1, <1>2, <1>3, <1>4, <1>5, <1>6, <1>7, <1>8, <1>9, <1>10, <1>11,
     <1>12, <1>13, <1>14, <1>15, <1>16, <1>17, <1>18, <1>19, <1>20, <1>21,
     <1>22, <1>23, <1>24, <1>25, <1>26, <1>27, <1>28, <1>29, <1>30, <1>31,
     <1>32, <1>33, <1>34, <1>35, <1>36, <1>37
     DEF Next, Client, ServiceStep, PreviewStep

\* Every step of CameraHardware makes one call of the device class, or none,
\* or is one of the two that touch the device state in another way: release()
\* and a window that fails.
LEMMA DeviceSteps ==
    [Next]_vars => \/ Call \/ UNCHANGED camVars
                   \/ Release \/ DequeueWindow
<1> SUFFICES ASSUME [Next]_vars
             PROVE  \/ Call \/ UNCHANGED camVars \/ Release \/ DequeueWindow
  OBVIOUS
<1>1. CASE Client
  BY <1>1 DEF Client, SetPreviewWindow, EnableMsgType, DisableMsgType,
      SetRecording, StartPreview, StopPreview
<1>2. CASE ServiceStep
  BY <1>2 DEF ServiceStep, Call, OpenNode, OpenGivesUp, InitDevice,
      StartStreamingForPreview, StartStreamingForPicture,
      StartStreamingFailsForPreview, SetStopped, CopyThread, RequestExit,
      Join, GrabJpeg, RequeueJpeg, EncodeJpeg, DeliverPicture, Drain,
      DrainEnds, StopStreaming, CloseDevice, ClearThread
<1>3. CASE PreviewStep
  BY <1>3 DEF PreviewStep, Call, CheckExit, ReadStopped, LockForFrame,
      GrabFrame, ConvertFrame, DeliverFrame, ReleaseFrame, Unlock
<1>4. CASE Driver
  BY <1>4 DEF Driver, Call
<1>5. CASE UNCHANGED vars
  BY <1>5 DEF vars
<1> QED
  BY <1>1, <1>2, <1>3, <1>4, <1>5 DEF Next

\* The device stays well formed whatever CameraHardware does with it.
LEMMA CamTypeStep == CamTypeOK /\ [Next]_vars => CamTypeOK'
<1> SUFFICES ASSUME CamTypeOK, [Next]_vars PROVE CamTypeOK'
  OBVIOUS
<1>1. CASE UNCHANGED camVars
  BY <1>1 DEF CamTypeOK, camVars
<1>2. CASE Release
  <2>1. CASE UNCHANGED camVars
    BY <1>1, <2>1
  <2>2. CASE ~UNCHANGED camVars
    <3>1. /\ fd' = "closed" /\ driverOn' \in BOOLEAN /\ queued' = {}
          /\ filled' = {} /\ faults' = faults + 1
          /\ UNCHANGED <<leaked, index, mapped, isStreaming, outstanding>>
      BY <1>2, <2>2 DEF Release, Fault
    <3> QED
      BY <3>1 DEF CamTypeOK
  <2> QED
    BY <2>1, <2>2
<1>3. CASE DequeueWindow
  BY <1>3 DEF DequeueWindow, Fault, CamTypeOK
<1> QED
  BY <1>1, <1>2, <1>3, CallKeepsCamType, DeviceSteps

\* TypeOK is preserved by every step.
LEMMA TypeStep == TypeOK /\ [Next]_vars => TypeOK'
<1>1. HwTypeOK <=> HwBooleans /\ HwOthers
  BY DEF HwTypeOK, HwBooleans, HwOthers
<1>2. HwTypeOK' <=> HwBooleans' /\ HwOthers'
  BY DEF HwTypeOK, HwBooleans, HwOthers
<1> QED
  BY <1>1, <1>2, BooleansStep, OthersStep, CamTypeStep DEF TypeOK

\* Type correctness: every state of CameraHardware and of the device is well
\* formed.
THEOREM TypeCorrect == Spec => []TypeOK
<1>1. Init => CamTypeOK
  <2> SUFFICES ASSUME CamInit PROVE CamTypeOK
    BY DEF Init
  <2>1. /\ fd = "closed" /\ leaked = 0 /\ queued = {} /\ filled = {}
        /\ index = 1 /\ mapped = {} /\ outstanding = 0 /\ faults = 0
        /\ driverOn \in BOOLEAN /\ isStreaming \in BOOLEAN
    BY DEF CamInit
  <2> QED
    BY <2>1, BufferAssumption DEF CamTypeOK, Buffers
<1>2. Init => HwBooleans
  BY DEF Init, HwBooleans
<1>3. Init => HwOthers
  BY DEF Init, HwOthers, SvcStates, Jobs, PvStates, MIN_VIDEONODE,
         MAX_VIDEONODE
<1>4. HwBooleans /\ HwOthers => HwTypeOK
  BY DEF HwTypeOK, HwBooleans, HwOthers
<1> QED
  BY <1>1, <1>2, <1>3, <1>4, TypeStep, PTL DEF Spec, TypeOK

----------------------------------------------------------------------------
(* The lock, the join and the flag.                                        *)

\* ControlInv is preserved by every step.
LEMMA ControlStep == TypeOK /\ ControlInv /\ [Next]_vars => ControlInv'
<1> SUFFICES ASSUME HwTypeOK, ControlInv, [Next]_vars PROVE ControlInv'
  BY DEF TypeOK
<1> USE DEF ControlInv, ThreadInv, DeviceInv, LockInv, WindowInv, LateInv,
            JobInv, SvcOnDevice, PvInFrame
<1>1. ASSUME NEW w \in Windows \cup {NULL}, SetPreviewWindow(w)
      PROVE  ControlInv'
  BY <1>1 DEF SetPreviewWindow, Locked, PlaceVars, ThreadVars, Caller
<1>2. ASSUME NEW m \in Msgs, EnableMsgType(m)
      PROVE  ControlInv'
  BY <1>2 DEF EnableMsgType, Locked, PlaceVars, ThreadVars, Caller
<1>3. ASSUME NEW m \in Msgs, DisableMsgType(m)
      PROVE  ControlInv'
  BY <1>3 DEF DisableMsgType, Locked, PlaceVars, ThreadVars, Caller
<1>4. ASSUME NEW on \in BOOLEAN, SetRecording(on)
      PROVE  ControlInv'
  BY <1>4 DEF SetRecording, Locked, Caller, PlaceVars, ThreadVars
<1>5. CASE Release
  BY <1>5 DEF Release, Caller, PlaceVars, ThreadVars
<1>6. CASE StartPreview
  BY <1>6 DEF StartPreview, Locked, ThreadVars, Caller
<1>7. ASSUME NEW why \in {"stop", "picture"}, StopPreview(why)
      PROVE  ControlInv'
  BY <1>7 DEF StopPreview, Caller, ThreadVars
<1>8. CASE OpenNode
  BY <1>8 DEF OpenNode, At, Goto, ThreadVars, ClientVars
<1>9. CASE OpenGivesUp
  BY <1>9 DEF OpenGivesUp, At, Return, ThreadVars, ClientVars
<1>10. CASE InitDevice
  BY <1>10 DEF InitDevice, At, Goto, ThreadVars, ClientVars
<1>11. CASE StartStreamingForPreview
  BY <1>11 DEF StartStreamingForPreview, At, Return, ClientVars
<1>12. CASE StartStreamingForPicture
  BY <1>12 DEF StartStreamingForPicture, At, Goto, ThreadVars, ClientVars
<1>13. CASE StartStreamingFailsForPreview
  BY <1>13 DEF StartStreamingFailsForPreview, At, Goto, ThreadVars,
      ClientVars
<1>14. CASE SetStopped
  BY <1>14 DEF SetStopped, At, Goto, ClientVars
<1>15. CASE CopyThread
  BY <1>15 DEF CopyThread, At, Goto, ThreadVars, ClientVars
<1>16. CASE RequestExit
  BY <1>16 DEF RequestExit, At, Goto, ClientVars
<1>17. CASE Join
  BY <1>17 DEF Join, At, Goto, ThreadVars, ClientVars
<1>18. CASE GrabJpeg
  BY <1>18 DEF GrabJpeg, At, Goto, ThreadVars, ClientVars
<1>19. CASE RequeueJpeg
  BY <1>19 DEF RequeueJpeg, At, Goto, ThreadVars, ClientVars
<1>20. CASE EncodeJpeg
  BY <1>20 DEF EncodeJpeg, At, Goto, ThreadVars, ClientVars
<1>21. CASE DeliverPicture
  BY <1>21 DEF DeliverPicture, At, Goto, ThreadVars, ClientVars
<1>22. CASE Drain
  BY <1>22 DEF Drain, At, ThreadVars, ClientVars
<1>23. CASE DrainEnds
  BY <1>23 DEF DrainEnds, At, Goto, ThreadVars, ClientVars
<1>24. CASE StopStreaming
  BY <1>24 DEF StopStreaming, At, Goto, ThreadVars, ClientVars
<1>25. CASE CloseDevice
  BY <1>25 DEF CloseDevice, At, Goto, Return, ThreadVars, ClientVars
<1>26. CASE ClearThread
  BY <1>26 DEF ClearThread, At, Return, ClientVars
<1>27. CASE CheckExit
  BY <1>27 DEF CheckExit, AtPv, SvcVars
<1>28. CASE ReadStopped
  BY <1>28 DEF ReadStopped, AtPv, SvcVars
<1>29. CASE LockForFrame
  BY <1>29 DEF LockForFrame, AtPv, SvcVars
<1>30. CASE DequeueWindow
  BY <1>30 DEF DequeueWindow, AtPv, SvcVars
<1>31. CASE GrabFrame
  BY <1>31 DEF GrabFrame, AtPv, SvcVars
<1>32. CASE ConvertFrame
  BY <1>32 DEF ConvertFrame, AtPv, SvcVars, HwTypeOK
<1>33. CASE DeliverFrame
  BY <1>33 DEF DeliverFrame, AtPv, SvcVars
<1>34. CASE ReleaseFrame
  BY <1>34 DEF ReleaseFrame, AtPv, SvcVars
<1>35. CASE Unlock
  BY <1>35 DEF Unlock, AtPv, SvcVars
<1>36. CASE Driver
  BY <1>36 DEF Driver, hwVars
<1>37. CASE UNCHANGED vars
  BY <1>37 DEF vars, hwVars
<1> QED
  BY <1>1, <1>2, <1>3, <1>4, <1>5, <1>6, <1>7, <1>8, <1>9, <1>10, <1>11,
     <1>12, <1>13, <1>14, <1>15, <1>16, <1>17, <1>18, <1>19, <1>20, <1>21,
     <1>22, <1>23, <1>24, <1>25, <1>26, <1>27, <1>28, <1>29, <1>30, <1>31,
     <1>32, <1>33, <1>34, <1>35, <1>36, <1>37
     DEF Next, Client, ServiceStep, PreviewStep

\* The inductive invariant holds in every behaviour.
THEOREM ControlCorrect == Spec => []ControlInv
<1>1. Init => ControlInv
  BY DEF Init, ControlInv, ThreadInv, DeviceInv, LockInv, WindowInv, LateInv,
         JobInv, SvcOnDevice, PvInFrame
<1> QED
  BY <1>1, ControlStep, TypeCorrect, PTL DEF Spec

\* The service thread and the preview thread are never on the device at the
\* same time, although stopPreview and pictureThread use it without mLock.
THEOREM DeviceExclusionHolds == Spec => []DeviceExclusion
<1>1. ControlInv => DeviceExclusion
  BY DEF ControlInv, DeviceInv, DeviceExclusion, PvInFrame
<1> QED
  BY <1>1, ControlCorrect, PTL

\* A preview thread in the middle of a frame works on the current window.
THEOREM WindowStableHolds == Spec => []WindowStable
<1>1. ControlInv => WindowStable
  BY DEF ControlInv, WindowInv, WindowStable
<1> QED
  BY <1>1, ControlCorrect, PTL

\* At most one frame is sent after stopPreview has set previewStopped.
THEOREM OneLateFrameHolds == Spec => []OneLateFrame
<1>1. ControlInv => OneLateFrame
  BY DEF ControlInv, LateInv, OneLateFrame
<1> QED
  BY <1>1, ControlCorrect, PTL

----------------------------------------------------------------------------
(* The device, between sessions and in them.                               *)

\* The number of failed calls only grows, up to its bound.
LEMMA FaultsGrow ==
    CamTypeOK /\ [Next]_vars =>
        /\ faults' \in Nat /\ faults' >= faults
        /\ faults <= MaxFaults => faults' <= MaxFaults
<1> SUFFICES ASSUME CamTypeOK, [Next]_vars
             PROVE  /\ faults' \in Nat /\ faults' >= faults
                    /\ faults <= MaxFaults => faults' <= MaxFaults
  OBVIOUS
<1>0. faults \in Nat /\ MaxFaults \in Nat
  BY FaultAssumption DEF CamTypeOK
<1>1. CASE UNCHANGED camVars
  BY <1>0, <1>1 DEF camVars
<1>2. CASE Release \/ DequeueWindow
  BY <1>0, <1>2 DEF Release, DequeueWindow, Fault, camVars
<1>3. CASE Call
  BY <1>0, <1>3 DEF Call, OpenOk, OpenNoDevice, OpenLeaks, Close, InitOk,
      InitFails, UninitTake, UninitReset, StartStreamingOk,
      StartStreamingFails, StopStreamingOk, StopStreamingFails, GrabOk,
      GrabFails, ReleasePreviewFrame, JpegRequeueOk, JpegRequeueFails,
      DriverFill, Fault, DequeueFails, EnqueueFails, camVars
<1> QED
  BY <1>1, <1>2, <1>3, DeviceSteps

\* While the preview thread is in a frame the service thread is not on the
\* device and the thread has not been dropped.
LEMMA FrameIsPreviewing ==
    ASSUME TypeOK, ControlInv, PvInFrame
    PROVE  Previewing
BY DEF TypeOK, HwTypeOK, ControlInv, ThreadInv, DeviceInv, SvcOnDevice,
       SvcStates, PvInFrame, Previewing

\* SessionInv is preserved by every step.
LEMMA DeviceStep ==
    TypeOK /\ ControlInv /\ SessionInv /\ [Next]_vars => SessionInv'
<1> SUFFICES ASSUME TypeOK, ControlInv, SessionInv, [Next]_vars
             PROVE  SessionInv'
  OBVIOUS
<1>0. /\ faults \in Nat /\ faults' \in Nat /\ faults' >= faults
      /\ faults' <= MaxFaults /\ leaked \in Nat
      /\ queued \subseteq Buffers /\ filled \subseteq queued
      /\ mPreviewThread \in BOOLEAN
  BY FaultsGrow DEF TypeOK, CamTypeOK, HwTypeOK, SessionInv, FdInv
<1> USE <1>0 DEF SessionInv, FdInv, HeldInv, StreamInv, CountInv, FrameInv,
        PoolInv, FlagKept, CountKept, DeviceClosed, Previewing,
        BufferConservation, ControlInv, ThreadInv, DeviceInv, LockInv, JobInv,
        SvcOnDevice, PvInFrame
<1>1. ASSUME NEW w \in Windows \cup {NULL}, SetPreviewWindow(w)
      PROVE  SessionInv'
  BY <1>1 DEF SetPreviewWindow, Locked, PlaceVars, ThreadVars, Caller, camVars
<1>2. ASSUME NEW m \in Msgs, EnableMsgType(m)
      PROVE  SessionInv'
  BY <1>2 DEF EnableMsgType, Locked, PlaceVars, ThreadVars, Caller, camVars
<1>3. ASSUME NEW m \in Msgs, DisableMsgType(m)
      PROVE  SessionInv'
  BY <1>3 DEF DisableMsgType, Locked, PlaceVars, ThreadVars, Caller, camVars
<1>4. ASSUME NEW on \in BOOLEAN, SetRecording(on)
      PROVE  SessionInv'
  BY <1>4 DEF SetRecording, Locked, Caller, PlaceVars, ThreadVars, camVars
<1>5. CASE Release
  BY <1>5 DEF Release, Caller, PlaceVars, ThreadVars, camVars, Fault
<1>6. CASE StartPreview
  BY <1>6 DEF StartPreview, Locked, ThreadVars, Caller, camVars
<1>7. ASSUME NEW why \in {"stop", "picture"}, StopPreview(why)
      PROVE  SessionInv'
  BY <1>7 DEF StopPreview, Caller, ThreadVars, camVars
<1>8. CASE OpenNode
  BY <1>8 DEF OpenNode, At, Goto, ThreadVars, ClientVars, OpenOk,
      OpenNoDevice, OpenLeaks, Fault, camVars
<1>9. CASE OpenGivesUp
  BY <1>9 DEF OpenGivesUp, At, Return, ThreadVars, ClientVars, camVars
<1>10. CASE InitDevice
  BY <1>10 DEF InitDevice, At, Goto, ThreadVars, ClientVars, InitOk,
      InitFails, Fault
<1>11. CASE StartStreamingForPreview
  BY <1>11 DEF StartStreamingForPreview, At, Return, ClientVars,
      StartStreamingOk
<1>12. CASE StartStreamingForPicture
  <2>1. /\ svc = "streamon" /\ svc' \in {"grabJpeg", "drain"} /\ job = "shot"
        /\ job' = job /\ pv' = pv /\ mPreviewThread' = mPreviewThread
        /\ UNCHANGED <<picture, crashed>>
    BY <1>12 DEF StartStreamingForPicture, At, Goto, ThreadVars, ClientVars
  <2>2. CASE StartStreamingOk
    <3>1. FlagKept => driverOn'
      BY <2>1, <2>2 DEF StartStreamingOk
    <3>2. FdInv'
      BY <2>1, <2>2 DEF StartStreamingOk
    <3> QED
      BY <2>1, <2>2, <3>1, <3>2 DEF StartStreamingOk
  <2>3. CASE StartStreamingFails
    BY <2>1, <2>3 DEF StartStreamingFails, Fault
  <2> QED
    BY <1>12, <2>2, <2>3 DEF StartStreamingForPicture
<1>13. CASE StartStreamingFailsForPreview
  BY <1>13 DEF StartStreamingFailsForPreview, At, Goto, ThreadVars,
      ClientVars, StartStreamingFails, Fault
<1>14. CASE SetStopped
  BY <1>14 DEF SetStopped, At, Goto, ClientVars, camVars
<1>15. CASE CopyThread
  BY <1>15 DEF CopyThread, At, Goto, ThreadVars, ClientVars, camVars
<1>16. CASE RequestExit
  BY <1>16 DEF RequestExit, At, Goto, ClientVars, camVars
<1>17. CASE Join
  BY <1>17 DEF Join, At, Goto, ThreadVars, ClientVars, camVars
<1>18. CASE GrabJpeg
  BY <1>18 DEF GrabJpeg, At, Goto, ThreadVars, ClientVars, GrabOk, GrabFails,
      Dequeue, DequeueFails, Fault
<1>19. CASE RequeueJpeg
  BY <1>19 DEF RequeueJpeg, At, Goto, ThreadVars, ClientVars, JpegRequeueOk,
      JpegRequeueFails, Enqueue, EnqueueFails, Fault
<1>20. CASE EncodeJpeg
  BY <1>20 DEF EncodeJpeg, At, Goto, ThreadVars, ClientVars, camVars, NULL
<1>21. CASE DeliverPicture
  BY <1>21 DEF DeliverPicture, At, Goto, ThreadVars, ClientVars, camVars, NULL
<1>22. CASE Drain
  BY <1>22 DEF Drain, At, ThreadVars, ClientVars, UninitTake, Dequeue,
      DequeueFails, Fault
<1>23. CASE DrainEnds
  BY <1>23 DEF DrainEnds, At, Goto, ThreadVars, ClientVars, UninitReset
<1>24. CASE StopStreaming
  <2>1. /\ svc = "streamoff" /\ svc' = "close"
        /\ job' = job /\ pv' = pv /\ mPreviewThread' = mPreviewThread
        /\ UNCHANGED <<picture, crashed>>
    BY <1>24 DEF StopStreaming, At, Goto, ThreadVars, ClientVars
  <2>2. CASE StopStreamingOk
    BY <2>1, <2>2 DEF StopStreamingOk
  <2>3. CASE StopStreamingFails
    <3>1. ~FlagKept'
      BY <2>1, <2>3 DEF StopStreamingFails, Fault
    <3> QED
      BY <2>1, <2>3 DEF StopStreamingFails, Fault
  <2> QED
    BY <1>24, <2>2, <2>3 DEF StopStreaming
<1>25. CASE CloseDevice
  <2>1. /\ svc = "close" /\ fd' = "closed" /\ driverOn' = FALSE /\ queued' = {}
        /\ UNCHANGED <<mPreviewThread, pv, picture, crashed, leaked, index,
                       mapped, isStreaming, outstanding, faults>>
    BY <1>25 DEF CloseDevice, At, ThreadVars, ClientVars, Close
  <2>2. \/ svc' = "clear"
        \/ svc' = "idle" /\ ~mPreviewThread
    BY <1>25 DEF CloseDevice, At, Goto, Return, TypeOK, HwTypeOK, Jobs
  <2>3. pv \in {"none", "exited"}
    BY <2>1
  <2> QED
    BY <2>1, <2>2, <2>3
<1>26. CASE ClearThread
  BY <1>26 DEF ClearThread, At, Return, ClientVars, camVars
<1>27. CASE CheckExit
  BY <1>27 DEF CheckExit, AtPv, SvcVars, camVars
<1>28. CASE ReadStopped
  BY <1>28 DEF ReadStopped, AtPv, SvcVars, camVars
<1>29. CASE LockForFrame
  BY <1>29 DEF LockForFrame, AtPv, SvcVars, camVars
<1>30. CASE DequeueWindow
  BY <1>30 DEF DequeueWindow, AtPv, SvcVars, Fault
<1>31. CASE GrabFrame
  <2>1. /\ pv = "grab" /\ svc' = svc /\ mPreviewThread' = mPreviewThread
        /\ UNCHANGED <<picture, job>>
    BY <1>31 DEF GrabFrame, AtPv, SvcVars
  <2>2. Previewing
    BY <2>1, FrameIsPreviewing
  <2>3. CASE GrabOk /\ pv' = "frame" /\ UNCHANGED crashed
    <3>1. PICK b \in filled : queued' = queued \ {b} /\ index' = b
      BY <2>3 DEF GrabOk, Dequeue
    <3>2. UNCHANGED <<fd, leaked, driverOn, mapped, isStreaming, faults>>
      BY <2>3 DEF GrabOk
    <3>3. /\ ~DeviceClosed
          /\ svc \notin {"init", "streamoff", "close", "requeue", "streamon"}
      BY <2>2
    <3> QED
      BY <2>1, <2>2, <2>3, <3>1, <3>2, <3>3
  <2>4. CASE GrabFails /\ crashed' = TRUE /\ UNCHANGED pv
    <3>1. UNCHANGED <<fd, leaked, driverOn, queued, index, mapped, isStreaming,
                      outstanding>>
      BY <2>4 DEF GrabFails, DequeueFails
    <3>2. FlagKept => "dqbuf" \in FaultKinds /\ faults' # 0
      BY <2>2, <2>4 DEF GrabFails, DequeueFails, Fault
    <3> QED
      BY <2>1, <2>2, <2>4, <3>1, <3>2
  <2> QED
    BY <1>31, <2>3, <2>4 DEF GrabFrame
<1>32. CASE ConvertFrame
  BY <1>32 DEF ConvertFrame, AtPv, SvcVars, camVars
<1>33. CASE DeliverFrame
  BY <1>33 DEF DeliverFrame, AtPv, SvcVars, camVars
<1>34. CASE ReleaseFrame
  <2>1. /\ pv = "release" /\ pv' = "unlock" /\ svc' = svc
        /\ UNCHANGED <<mPreviewThread, picture, job, crashed>>
    BY <1>34 DEF ReleaseFrame, AtPv, SvcVars
  <2>2. Previewing
    BY <2>1, FrameIsPreviewing
  <2>3. UNCHANGED <<fd, leaked, driverOn, index, mapped, isStreaming>>
    BY <1>34 DEF ReleaseFrame, ReleasePreviewFrame
  <2>4. /\ ~DeviceClosed
        /\ svc \notin {"init", "streamoff", "close", "requeue", "streamon"}
    BY <2>2
  <2>5. faults' = 0 => queued' = queued \cup {index}
    BY <1>34, <2>1, <2>2 DEF ReleaseFrame, ReleasePreviewFrame, Enqueue,
        EnqueueFails, Fault
  <2>6. index \in Buffers
    BY DEF TypeOK, CamTypeOK
  <2> QED
    BY <2>1, <2>2, <2>3, <2>4, <2>5, <2>6
<1>35. CASE Unlock
  BY <1>35 DEF Unlock, AtPv, SvcVars, camVars
<1>36. CASE Driver
  BY <1>36 DEF Driver, hwVars, DriverFill
<1>37. CASE UNCHANGED vars
  BY <1>37 DEF vars, hwVars, camVars
<1> QED
  BY <1>1, <1>2, <1>3, <1>4, <1>5, <1>6, <1>7, <1>8, <1>9, <1>10, <1>11,
     <1>12, <1>13, <1>14, <1>15, <1>16, <1>17, <1>18, <1>19, <1>20, <1>21,
     <1>22, <1>23, <1>24, <1>25, <1>26, <1>27, <1>28, <1>29, <1>30, <1>31,
     <1>32, <1>33, <1>34, <1>35, <1>36, <1>37
     DEF Next, Client, ServiceStep, PreviewStep

\* The driver's queue is a finite set, and the pool has NB_BUFFER buffers.
LEMMA BuffersFinite ==
    ASSUME CamTypeOK
    PROVE  /\ IsFiniteSet(queued) /\ Cardinality(queued) \in Nat
           /\ Cardinality(Buffers) = NB_BUFFER
<1>1. IsFiniteSet(Buffers) /\ Cardinality(Buffers) = NB_BUFFER
  BY FS_Interval, BufferAssumption DEF Buffers
<1>2. IsFiniteSet(queued)
  BY <1>1, FS_Subset DEF CamTypeOK
<1> QED
  BY <1>1, <1>2, FS_CardinalityType

\* A dequeue takes one buffer from the driver.
LEMMA DequeueTakesOne ==
    ASSUME CamTypeOK, Dequeue
    PROVE  Cardinality(queued') = Cardinality(queued) - 1 /\ driverOn
<1>1. PICK b \in filled : queued' = queued \ {b}
  BY DEF Dequeue
<1>2. b \in queued
  BY <1>1 DEF CamTypeOK
<1> QED
  BY <1>1, <1>2, BuffersFinite, FS_RemoveElement DEF Dequeue

\* A successful VIDIOC_QBUF gives it one.
LEMMA EnqueueGivesOne ==
    ASSUME CamTypeOK, Enqueue
    PROVE  Cardinality(queued') = Cardinality(queued) + 1
BY BuffersFinite, FS_AddElement DEF Enqueue

\* DebtInv is preserved by every step: what is counted as queued and is not
\* the driver's has been lost by a failing VIDIOC_QBUF.
LEMMA DebtStep ==
    TypeOK /\ ControlInv /\ SessionInv /\ DebtInv /\ [Next]_vars => DebtInv'
<1> SUFFICES ASSUME TypeOK, ControlInv, SessionInv, DebtInv, [Next]_vars,
                    CountKept'
             PROVE  /\ InUse' => outstanding' <= Cardinality(queued') + Lost'
                    /\ (svc = "drain" /\ driverOn)' =>
                           outstanding' - taken' <=
                               Cardinality(queued') + Lost'
  BY DEF DebtInv
<1> DEFINE Goal ==
      /\ InUse' => outstanding' <= Cardinality(queued') + Lost'
      /\ (svc = "drain" /\ driverOn)' =>
             outstanding' - taken' <= Cardinality(queued') + Lost'
<1>0. /\ CamTypeOK /\ CountKept
      /\ faults \in Nat /\ faults' \in Nat /\ faults' >= faults
      /\ outstanding \in Int /\ taken \in Nat /\ NB_BUFFER \in Nat
      /\ Lost \in Nat /\ Lost' \in Nat /\ Lost' >= Lost
      /\ Cardinality(queued) \in Nat /\ Cardinality(Buffers) = NB_BUFFER
  BY FaultsGrow, BuffersFinite, BufferAssumption
     DEF TypeOK, CamTypeOK, HwTypeOK, Lost, CountKept
<1>3. /\ InUse => outstanding <= Cardinality(queued) + Lost
      /\ svc = "drain" /\ driverOn =>
             outstanding - taken <= Cardinality(queued) + Lost
  BY <1>0 DEF DebtInv
<1>4. NB_BUFFER <= NB_BUFFER + Lost'
  <2>1. \A m, n \in Nat : m <= m + n
    OBVIOUS
  <2> QED
    BY <1>0, <2>1, Zenon
<1> USE <1>0, <1>3 DEF InUse
<1>1. CASE Client
  <2>1. /\ svc = "idle" /\ svc' \notin {"streamon", "drain"}
        /\ UNCHANGED camVars \/ ~driverOn'
    BY <1>1 DEF Client, SetPreviewWindow, EnableMsgType, DisableMsgType,
      SetRecording, Release, StartPreview, StopPreview, Locked, Caller,
      PlaceVars
  <2> QED
    BY <2>1 DEF camVars
<1>2. ASSUME \/ OpenNode \/ OpenGivesUp \/ SetStopped \/ CopyThread
             \/ RequestExit \/ ClearThread
      PROVE  Goal
  BY <1>2 DEF OpenNode, OpenGivesUp, SetStopped, CopyThread, RequestExit,
      ClearThread, At, Return, Goto, OpenOk, OpenNoDevice, OpenLeaks, camVars
<1>10. CASE InitDevice
  <2>1. svc = "init" /\ ~driverOn
    BY <1>10 DEF InitDevice, At, SessionInv, FdInv
  <2>2. CASE InitOk /\ Goto("streamon")
    <3>1. outstanding = 0
      BY <2>1 DEF SessionInv, CountInv
    <3>2. queued' = Buffers /\ outstanding' = NB_BUFFER /\ svc' = "streamon"
      BY <2>2, <3>1 DEF InitOk, Goto
    <3>3. Cardinality(queued') = NB_BUFFER
      BY <3>2
    <3>4. outstanding' <= Cardinality(queued') + Lost'
      BY <1>4, <3>2, <3>3, Zenon
    <3> QED
      BY <3>2, <3>4
  <2>3. ~InitFails
    BY DEF InitFails, Fault, CountKept
  <2> QED
    BY <1>10, <2>1, <2>2, <2>3 DEF InitDevice
<1>11. CASE StartStreamingForPreview
  BY <1>11 DEF StartStreamingForPreview, At, Return, StartStreamingOk
<1>12. CASE StartStreamingForPicture \/ StartStreamingFailsForPreview
  BY <1>12 DEF StartStreamingForPicture, StartStreamingFailsForPreview, At,
      Goto, StartStreamingOk, StartStreamingFails
<1>17. CASE Join \/ EncodeJpeg \/ DeliverPicture
  BY <1>17 DEF Join, EncodeJpeg, DeliverPicture, At, Goto, camVars
<1>18. CASE GrabJpeg
  <2>1. svc = "grabJpeg" /\ svc' \in {"requeue", "deliver"}
    BY <1>18 DEF GrabJpeg, At, Goto
  <2>2. CASE GrabOk
    BY <2>1, <2>2, DequeueTakesOne DEF GrabOk
  <2>3. CASE GrabFails
    BY <2>1, <2>3 DEF GrabFails, DequeueFails
  <2> QED
    BY <1>18, <2>2, <2>3 DEF GrabJpeg
<1>19. CASE RequeueJpeg
  <2>1. svc = "requeue" /\ svc' \in {"encode", "deliver"}
    BY <1>19 DEF RequeueJpeg, At, Goto
  <2>2. CASE JpegRequeueOk
    BY <2>1, <2>2, EnqueueGivesOne DEF JpegRequeueOk
  <2>3. CASE JpegRequeueFails
    BY <2>1, <2>3 DEF JpegRequeueFails, EnqueueFails
  <2> QED
    BY <1>19, <2>2, <2>3 DEF RequeueJpeg
<1>22. CASE Drain
  <2>1. /\ svc = "drain" /\ svc' = svc /\ taken' = taken + 1
        /\ UNCHANGED <<driverOn, outstanding>>
    BY <1>22 DEF Drain, At, UninitTake
  <2>2. CASE Dequeue
    BY <2>1, <2>2, DequeueTakesOne
  <2>3. CASE DequeueFails
    BY <2>1, <2>3 DEF DequeueFails
  <2> QED
    BY <1>22, <2>2, <2>3 DEF Drain, UninitTake
<1>23. CASE DrainEnds
  BY <1>23 DEF DrainEnds, At, Goto
<1>24. CASE StopStreaming
  BY <1>24 DEF StopStreaming, At, Goto
<1>25. CASE CloseDevice
  <2>1. ~driverOn' /\ svc' # "streamon"
    BY <1>25 DEF CloseDevice, Close, Goto, Return
  <2> QED
    BY <2>1
<1>27. ASSUME \/ CheckExit \/ ReadStopped \/ LockForFrame \/ DequeueWindow
              \/ ConvertFrame \/ DeliverFrame \/ Unlock
       PROVE  Goal
  <2>1. UNCHANGED <<svc, taken, driverOn, queued, outstanding>>
    BY <1>27 DEF CheckExit, ReadStopped, LockForFrame, DequeueWindow,
        ConvertFrame, DeliverFrame, Unlock, SvcVars, camVars
  <2> QED
    BY <2>1
<1>31. CASE GrabFrame
  <2>1. svc' = svc /\ svc \notin {"drain", "streamon"}
    BY <1>31, FrameIsPreviewing
       DEF GrabFrame, AtPv, SvcVars, PvInFrame, Previewing
  <2>2. CASE GrabOk
    BY <2>1, <2>2, DequeueTakesOne DEF GrabOk
  <2>3. CASE GrabFails
    BY <2>1, <2>3 DEF GrabFails, DequeueFails
  <2> QED
    BY <1>31, <2>2, <2>3 DEF GrabFrame
<1>34. CASE ReleaseFrame
  <2>1. /\ svc' = svc /\ svc \notin {"drain", "streamon"}
        /\ outstanding' = outstanding + 1 /\ driverOn' = driverOn
    BY <1>34, FrameIsPreviewing DEF ReleaseFrame, ReleasePreviewFrame, AtPv,
        SvcVars, PvInFrame, Previewing
  <2>2. CASE Enqueue
    BY <2>1, <2>2, EnqueueGivesOne
  <2>3. CASE EnqueueFails
    <3>1. index \notin queued
      BY <1>34 DEF ReleaseFrame, AtPv, SessionInv, HeldInv
    <3>2. driverOn => faults' = faults + 1 /\ "qbuf" \in FaultKinds
      BY <2>3, <3>1 DEF EnqueueFails, Fault, SessionInv, FdInv
    <3>3. driverOn => Lost' = Lost + 1
      BY <3>2 DEF Lost
    <3> QED
      BY <2>1, <2>3, <3>3 DEF EnqueueFails
  <2> QED
    BY <1>34, <2>2, <2>3 DEF ReleaseFrame, ReleasePreviewFrame
<1>36. CASE Driver
  BY <1>36 DEF Driver, hwVars, DriverFill
<1>37. CASE UNCHANGED vars
  BY <1>37 DEF vars, hwVars, camVars
<1> QED
  BY <1>1, <1>2, <1>10, <1>11, <1>12, <1>17, <1>18, <1>19, <1>22, <1>23,
      <1>24, <1>25, <1>27, <1>31,
     <1>34, <1>36, <1>37
     DEF Next, ServiceStep, PreviewStep

\* The inductive invariant of the camera holds in every behaviour, whatever
\* fails.
THEOREM CameraCorrect == Spec => []CameraInv
<1>1. Init => SessionInv /\ DebtInv
  BY FaultAssumption
     DEF Init, CamInit, SessionInv, FdInv, HeldInv, StreamInv, CountInv,
         FrameInv, PoolInv, BufferConservation, DebtInv, InUse, DeviceClosed,
         Previewing, NULL
<1>2. TypeOK /\ ControlInv /\ SessionInv /\ DebtInv /\ [Next]_vars =>
          SessionInv' /\ DebtInv'
  BY DeviceStep, DebtStep
<1>3. Spec => [](SessionInv /\ DebtInv)
  BY <1>1, <1>2, TypeCorrect, ControlCorrect, PTL DEF Spec
<1> QED
  BY <1>3, ControlCorrect, PTL DEF CameraInv

\* As long as no call has failed, the driver has every buffer between two
\* frames, and all but the one in hand in the middle of one.
THEOREM BufferConservationHolds == Spec => []BufferConservation
<1>1. CameraInv => BufferConservation
  BY DEF CameraInv, SessionInv, PoolInv
<1> QED
  BY <1>1, CameraCorrect, PTL

\* What the three properties below need of the device.
LEMMA StateAtRest ==
    ASSUME CameraInv, TypeOK
    PROVE  /\ FlagKept /\ CountKept => SessionClean
           /\ FlagKept /\ (faults = 0 \/ "dqbuf" \notin FaultKinds) =>
                  NeverNullFrame
           /\ CountKept /\ Lost <= 1 => DrainNeverStarves
<1>1. FlagKept /\ CountKept => SessionClean
  <2>1. Off => DeviceClosed
    BY DEF Off, DeviceClosed
  <2> QED
    BY <2>1 DEF SessionClean, CameraInv, SessionInv, FdInv, StreamInv, CountInv
<1>2. FlagKept /\ (faults = 0 \/ "dqbuf" \notin FaultKinds) => NeverNullFrame
  BY DEF NeverNullFrame, CameraInv, SessionInv, FrameInv
<1>3. CountKept /\ Lost <= 1 => DrainNeverStarves
  <2> SUFFICES ASSUME CountKept, Lost <= 1, svc = "drain",
                      taken < outstanding - 1, driverOn, queued = {}
               PROVE  FALSE
    BY DEF DrainNeverStarves, UninitTakesMore
  <2>1. outstanding - taken <= Cardinality(queued) + Lost
    BY DEF CameraInv, DebtInv
  <2>2. Cardinality(queued) = 0
    BY FS_EmptySet
  <2>3. taken \in Nat /\ outstanding \in Int /\ Lost \in Nat
    BY DEF TypeOK, CamTypeOK, HwTypeOK, Lost
  <2> QED
    BY <2>1, <2>2, <2>3
<1> QED
  BY <1>1, <1>2, <1>3

\* While the device works, nothing of a session is left to the next one, no
\* frame or picture is NULL, and Uninit takes no buffer that is not there:
\* whichever calls may fail, up to the first one that does.
THEOREM WorkingDevice ==
    Spec => [](faults = 0 =>
                   SessionClean /\ NeverNullFrame /\ DrainNeverStarves)
<1>1. CameraInv /\ TypeOK =>
          (faults = 0 => SessionClean /\ NeverNullFrame /\ DrainNeverStarves)
  BY StateAtRest DEF FlagKept, CountKept, Lost
<1> QED
  BY <1>1, CameraCorrect, TypeCorrect, PTL

\* Nothing of a session is left to the next one, though any calls fail, if
\* Init, VIDIOC_STREAMOFF and release() are not among them.
THEOREM SessionCleanHolds ==
    ASSUME FaultKinds \cap {"init", "streamoff", "release"} = {}
    PROVE  Spec => []SessionClean
<1>1. CameraInv /\ TypeOK => SessionClean
  BY StateAtRest DEF FlagKept, CountKept
<1> QED
  BY <1>1, CameraCorrect, TypeCorrect, PTL

\* No NULL frame is converted, though any calls fail, if VIDIOC_DQBUF does
\* not and capture is on whenever the thread takes a frame.
THEOREM NeverNullFrameHolds ==
    ASSUME FaultKinds \cap {"dqbuf", "streamoff", "release"} = {}
    PROVE  Spec => []NeverNullFrame
<1>1. CameraInv /\ TypeOK => NeverNullFrame
  BY StateAtRest DEF FlagKept
<1> QED
  BY <1>1, CameraCorrect, TypeCorrect, PTL

\* Uninit never waits for a buffer that the driver does not have: the `- 1' of
\* its loop allows one buffer to be lost by a VIDIOC_QBUF that fails.
THEOREM DrainNeverStarvesHolds ==
    ASSUME "init" \notin FaultKinds, "qbuf" \notin FaultKinds \/ MaxFaults <= 1
    PROVE  Spec => []DrainNeverStarves
<1>1. CameraInv /\ TypeOK => DrainNeverStarves
  <2> SUFFICES ASSUME CameraInv, TypeOK PROVE CountKept /\ Lost <= 1
    BY StateAtRest
  <2>1. faults \in Nat /\ faults <= MaxFaults
    BY DEF TypeOK, CamTypeOK, CameraInv, SessionInv, FdInv
  <2> QED
    BY <2>1, FaultAssumption DEF CountKept, Lost
<1> QED
  BY <1>1, CameraCorrect, TypeCorrect, PTL

----------------------------------------------------------------------------
(* The promise to the client.                                              *)

\* Every step of the two threads is a step of PreviewSession or leaves it
\* alone: frames are sent only in a session and at most one after its end was
\* asked for, pictures only outside one, callbacks one at a time.
LEMMA SessionStep ==
    TypeOK /\ ControlInv /\ [Next]_vars =>
        [Session!Next]_(Session!sessionVars)
<1> SUFFICES ASSUME HwTypeOK, ControlInv, [Next]_vars
             PROVE  [Session!Next]_(Session!sessionVars)
  BY DEF TypeOK
<1> USE DEF Session!Next, Session!sessionVars
<1>1. CASE Client
  BY <1>1 DEF Client, SetPreviewWindow, EnableMsgType, DisableMsgType,
      SetRecording, Release, StartPreview, StopPreview, Locked, Caller,
      PlaceVars, ThreadVars
<1>2. ASSUME \/ OpenNode \/ OpenGivesUp \/ InitDevice
             \/ StartStreamingForPicture \/ StartStreamingFailsForPreview
             \/ CopyThread \/ RequestExit \/ Join
             \/ Drain \/ DrainEnds \/ StopStreaming \/ CloseDevice
      PROVE  UNCHANGED Session!sessionVars
  BY <1>2 DEF OpenNode, OpenGivesUp, InitDevice, StartStreamingForPicture,
      StartStreamingFailsForPreview, CopyThread, RequestExit, Join, Drain,
      DrainEnds, StopStreaming, CloseDevice, At, Goto, Return, ThreadVars
<1>3. CASE StartStreamingForPreview
  <2>1. Session!Start
    BY <1>3 DEF StartStreamingForPreview, At, Return, ControlInv, ThreadInv,
        JobInv, Session!Start
  <2> QED
    BY <2>1
<1>4. CASE SetStopped
  BY <1>4 DEF SetStopped, At, Goto, Session!RequestStop
<1>5. CASE GrabJpeg \/ RequeueJpeg \/ EncodeJpeg
  <2>1. ~mPreviewThread /\ pv = "none"
    BY <1>5 DEF GrabJpeg, RequeueJpeg, EncodeJpeg, At, ControlInv, ThreadInv,
        JobInv
  <2> QED
    BY <1>5, <2>1 DEF GrabJpeg, RequeueJpeg, EncodeJpeg, At, Goto, ThreadVars,
        Session!SendPicture
<1>6. CASE DeliverPicture
  <2>1. pv # "deliver"
    BY <1>6 DEF DeliverPicture, At, ControlInv, DeviceInv, SvcOnDevice
  <2> QED
    BY <1>6, <2>1 DEF DeliverPicture, At, Goto, ThreadVars,
        Session!CallbackReturns
<1>7. CASE ClearThread
  <2>1. pv # "deliver" /\ previewStopped
    BY <1>7 DEF ClearThread, At, ControlInv, DeviceInv, JobInv
  <2> QED
    BY <1>7, <2>1 DEF ClearThread, At, Return, Session!Stopped
<1>8. ASSUME \/ CheckExit \/ ReadStopped \/ LockForFrame \/ DequeueWindow
             \/ GrabFrame \/ ReleaseFrame \/ Unlock
      PROVE  UNCHANGED Session!sessionVars
  BY <1>8 DEF CheckExit, ReadStopped, LockForFrame, DequeueWindow, GrabFrame,
      ReleaseFrame, Unlock, AtPv, SvcVars
<1>9. CASE ConvertFrame
  <2>1. mPreviewThread /\ svc # "deliver" /\ pv' # "frame"
    BY <1>9 DEF ConvertFrame, AtPv, ControlInv, ThreadInv, DeviceInv,
        SvcOnDevice
  <2>2. late = 0
    BY <1>9 DEF ConvertFrame, AtPv, ControlInv, LateInv, HwTypeOK
  <2> QED
    BY <1>9, <2>1, <2>2 DEF ConvertFrame, AtPv, SvcVars, Session!SendFrame
<1>10. CASE DeliverFrame
  <2>1. svc # "deliver"
    BY <1>10 DEF DeliverFrame, AtPv, ControlInv, DeviceInv, SvcOnDevice
  <2> QED
    BY <1>10, <2>1 DEF DeliverFrame, AtPv, SvcVars, Session!CallbackReturns
<1>11. CASE Driver
  BY <1>11 DEF Driver, hwVars
<1>12. CASE UNCHANGED vars
  BY <1>12 DEF vars, hwVars
<1> QED
  BY <1>1, <1>2, <1>3, <1>4, <1>5, <1>6, <1>7, <1>8, <1>9, <1>10, <1>11,
     <1>12 DEF Next, ServiceStep, PreviewStep

\* CameraHardware implements PreviewSession.
THEOREM SessionImplemented == Spec => ImplementsSession
<1>1. Init => Session!Init
  BY DEF Init, Session!Init
<1> QED
  BY <1>1, SessionStep, TypeCorrect, ControlCorrect, PTL
     DEF Spec, ImplementsSession, Session!Spec
=============================================================================
