--------------------------- MODULE CameraHardware ---------------------------
(***************************************************************************)
(* CameraHardware (libcamera/CameraHardware.cpp): the camera service's     *)
(* thread, which calls the public methods one at a time, the preview       *)
(* thread that startPreview creates, the lock mLock between them, and the  *)
(* V4L2Camera object both of them use.                                     *)
(*                                                                         *)
(* A method that holds mLock from its first statement to its return and    *)
(* makes no call into V4L2Camera is one action.  startPreview, stopPreview *)
(* and takePicture are split at every call into the device and at every    *)
(* point where they wait for the lock, the preview thread or the driver;   *)
(* `svc' is where the service thread is and `job' is what it is doing      *)
(* there.  `pv' is where the preview thread is.                            *)
(***************************************************************************)
EXTENDS V4L2Camera

CONSTANTS
    Msgs,        \* message types the client enables
    Windows,     \* preview windows the client passes
    Abandoned,   \* those whose surface is gone: set_buffer_count fails
    Nodes        \* the /dev/video nodes that are capture devices

NULL == "NULL"
ENODEV == 19
MIN_VIDEONODE == 4
MAX_VIDEONODE == 5
NodeNumbers == MIN_VIDEONODE .. MAX_VIDEONODE

ASSUME WindowAssumption == NULL \notin Windows /\ Abandoned \subseteq Windows
ASSUME NodeAssumption   == Nodes \subseteq NodeNumbers

VARIABLES
    mLock,           \* "free", or the thread that holds it
    svc, job,        \* the service thread
    node,            \* the loop variable of the Open loops
    taken,           \* the loop variable of Uninit
    pv,              \* the preview thread
    pvWindow,        \* the window whose buffer the preview thread has
    exitPending,     \* Thread::mExitPending of the preview thread
    mPreviewThread,  \* the pointer is set
    previewStopped,
    mNativeWindow,
    mMsgEnabled,
    mRecordRunning,
    picture,         \* pictureThread's picture: "none", NULL or "jpeg"
    crashed,         \* a NULL frame was converted: the process is gone
    late             \* history: frames sent since previewStopped was set

hwVars == <<mLock, svc, job, node, taken, pv, pvWindow, exitPending,
            mPreviewThread, previewStopped, mNativeWindow, mMsgEnabled,
            mRecordRunning, picture, crashed, late>>
vars == <<hwVars, camVars>>

SvcStates == {"idle", "open", "init", "streamon", "flag", "copy", "join",
              "wait", "grabJpeg", "requeue", "encode", "deliver", "drain",
              "streamoff", "close", "clear"}
Jobs == {"none", "start", "stop", "picture", "shot"}
PvStates == {"none", "check", "loop", "lock", "window", "grab", "frame",
             "deliver", "release", "unlock", "exited"}

HwTypeOK ==
    /\ mLock \in {"free", "service", "preview"}
    /\ svc \in SvcStates
    /\ job \in Jobs
    /\ node \in MIN_VIDEONODE - 1 .. MAX_VIDEONODE
    /\ taken \in Nat
    /\ pv \in PvStates
    /\ pvWindow \in Windows \cup {NULL}
    /\ exitPending \in BOOLEAN
    /\ mPreviewThread \in BOOLEAN
    /\ previewStopped \in BOOLEAN
    /\ mNativeWindow \in Windows \cup {NULL}
    /\ mMsgEnabled \subseteq Msgs
    /\ mRecordRunning \in BOOLEAN
    /\ picture \in {"none", NULL, "jpeg"}
    /\ crashed \in BOOLEAN
    /\ late \in Nat

\* Every variable holds a value of its kind; the buffers that carry a frame
\* are among those the driver owns.
TypeOK == CamTypeOK /\ HwTypeOK

Init ==
    /\ CamInit
    /\ mLock = "free"
    /\ svc = "idle" /\ job = "none"
    /\ node = MAX_VIDEONODE
    /\ taken = 0
    /\ pv = "none"
    /\ pvWindow = NULL
    /\ exitPending = FALSE
    /\ mPreviewThread = FALSE
    /\ previewStopped = TRUE
    /\ mNativeWindow = NULL
    /\ mMsgEnabled = {}
    /\ mRecordRunning = FALSE
    /\ picture = "none"
    /\ crashed = FALSE
    /\ late = 0

----------------------------------------------------------------------------
(* Methods that hold mLock from end to end.                                *)

\* Groups of variables that an action leaves alone together: where the
\* service thread is, the preview thread, and what the client sets.
PlaceVars == <<mLock, svc, job, node, taken, picture>>
ThreadVars == <<pv, pvWindow, exitPending, mPreviewThread, previewStopped,
                late>>
ClientVars == <<mNativeWindow, mMsgEnabled, mRecordRunning, crashed>>

Caller == svc = "idle" /\ ~crashed
Locked == Caller /\ mLock = "free"

\* set_buffer_count of the window returns a negative errno: the log line
\* prints strerror(-err).
SetBufferCount(w) == IF w \in Abandoned THEN -ENODEV ELSE 0

\* Mutant: the window is replaced without the lock.
SetPreviewWindow_Unlocked(w) ==
    /\ Caller
    /\ mNativeWindow' = w
    /\ UNCHANGED <<camVars, PlaceVars, ThreadVars, mMsgEnabled,
                   mRecordRunning, crashed>>

\* The old window is dropped first; an abandoned surface is meant to be
\* dropped too.
SetPreviewWindow(w) ==
    /\ Locked
    /\ mNativeWindow' = IF w # NULL /\ ENODEV = SetBufferCount(w)
                        THEN NULL ELSE w
    /\ UNCHANGED <<camVars, PlaceVars, ThreadVars, mMsgEnabled,
                   mRecordRunning, crashed>>

EnableMsgType(m) ==
    /\ Locked
    /\ mMsgEnabled' = mMsgEnabled \cup {m}
    /\ UNCHANGED <<camVars, PlaceVars, ThreadVars, mNativeWindow,
                   mRecordRunning, crashed>>

DisableMsgType(m) ==
    /\ Locked
    /\ mMsgEnabled' = mMsgEnabled \ {m}
    /\ UNCHANGED <<camVars, PlaceVars, ThreadVars, mNativeWindow,
                   mRecordRunning, crashed>>

\* startRecording takes the lock, stopRecording does not.
SetRecording(on) ==
    /\ IF on THEN Locked ELSE Caller
    /\ mRecordRunning' = on
    /\ UNCHANGED <<camVars, PlaceVars, ThreadVars, mNativeWindow,
                   mMsgEnabled, crashed>>

\* release() closes camera_device, a member nothing ever assigns: whatever
\* number it holds is closed, which may be that of the open camera.
Release ==
    /\ Caller
    /\ \/ UNCHANGED camVars
       \/ /\ fd = "open"
          /\ Fault("release")
          /\ fd' = "closed" /\ driverOn' = FALSE
          /\ queued' = {} /\ filled' = {}
          /\ UNCHANGED <<leaked, index, mapped, isStreaming, outstanding>>
    /\ UNCHANGED <<PlaceVars, ThreadVars, mNativeWindow, mMsgEnabled,
                   mRecordRunning, crashed>>

----------------------------------------------------------------------------
(* startPreview, stopPreview and takePicture, call by call.  Each action   *)
(* conjoins one call into V4L2Camera with where the service thread goes.   *)

At(place) == svc = place /\ ~crashed
Goto(place) == svc' = place /\ UNCHANGED job
\* The method returns; startPreview also releases the lock.
Return ==
    /\ svc' = "idle"
    /\ job' = "none"
    /\ mLock' = IF job = "start" THEN "free" ELSE mLock

StartPreview ==
    /\ Locked
    /\ ~mPreviewThread
    /\ mLock' = "service"
    /\ svc' = "open" /\ job' = "start"
    /\ node' = MAX_VIDEONODE
    /\ UNCHANGED <<camVars, taken, picture, ThreadVars, mNativeWindow,
                   mMsgEnabled, mRecordRunning, crashed>>

\* Mutant: the loop counts the other way.
OpenNode_CountsUp ==
    /\ At("open")
    /\ node >= MIN_VIDEONODE
    /\ \/ /\ node \in Nodes
          /\ OpenOk
          /\ Goto("init")
          /\ UNCHANGED node
       \/ /\ IF node \in Nodes THEN OpenLeaks ELSE OpenNoDevice
          /\ node' = node + 1
          /\ UNCHANGED <<svc, job>>
    /\ UNCHANGED <<mLock, taken, picture, ThreadVars, ClientVars>>

\* The loop over the nodes, shared by startPreview and pictureThread.
OpenNode ==
    /\ At("open")
    /\ node >= MIN_VIDEONODE
    /\ \/ /\ node \in Nodes
          /\ OpenOk
          /\ Goto("init")
          /\ UNCHANGED node
       \/ /\ IF node \in Nodes THEN OpenLeaks ELSE OpenNoDevice
          /\ node' = node - 1
          /\ UNCHANGED <<svc, job>>
    /\ UNCHANGED <<mLock, taken, picture, ThreadVars, ClientVars>>

\* No node could be opened: both callers return -1.
OpenGivesUp ==
    /\ At("open")
    /\ node < MIN_VIDEONODE
    /\ Return
    /\ UNCHANGED <<camVars, node, taken, picture, ThreadVars, ClientVars>>

\* startPreview closes the device when Init fails, without Uninit;
\* pictureThread ignores the result.
InitDevice ==
    /\ At("init")
    /\ \/ InitOk /\ Goto("streamon")
       \/ InitFails /\ Goto(IF job = "start" THEN "close" ELSE "streamon")
    /\ UNCHANGED <<mLock, node, taken, picture, ThreadVars, ClientVars>>

\* startPreview creates the preview thread and returns.
StartStreamingForPreview ==
    /\ At("streamon")
    /\ job = "start"
    /\ StartStreamingOk
    /\ Return
    /\ previewStopped' = FALSE
    /\ mPreviewThread' = TRUE
    /\ pv' = "loop"
    /\ exitPending' = FALSE
    /\ late' = 0
    /\ UNCHANGED <<pvWindow, node, taken, picture, ClientVars>>

\* pictureThread ignores the result and grabs a frame if anyone wants one.
StartStreamingForPicture ==
    /\ At("streamon")
    /\ job = "shot"
    /\ StartStreamingOk \/ StartStreamingFails
    /\ taken' = 0
    /\ Goto(IF "COMPRESSED_IMAGE" \in mMsgEnabled THEN "grabJpeg"
                                                  ELSE "drain")
    /\ UNCHANGED <<mLock, node, picture, ThreadVars, ClientVars>>

StartStreamingFailsForPreview ==
    /\ At("streamon")
    /\ job = "start"
    /\ StartStreamingFails
    /\ taken' = 0
    /\ Goto("drain")
    /\ UNCHANGED <<mLock, node, picture, ThreadVars, ClientVars>>

\* The client calls stopPreview, or takePicture, which calls it first.
StopPreview(why) ==
    /\ Caller
    /\ svc' = "flag" /\ job' = why
    /\ UNCHANGED <<camVars, mLock, node, taken, picture, ThreadVars,
                   mNativeWindow, mMsgEnabled, mRecordRunning, crashed>>

\* Mutant: previewStopped stays as it is.
SetStopped_Forgets ==
    /\ At("flag")
    /\ mLock = "free"
    /\ Goto("copy")
    /\ UNCHANGED <<camVars, mLock, node, taken, picture, ThreadVars,
                   ClientVars>>

\* First critical section: sets previewStopped.
SetStopped ==
    /\ At("flag")
    /\ mLock = "free"
    /\ previewStopped' = TRUE
    /\ Goto("copy")
    /\ UNCHANGED <<camVars, mLock, node, taken, picture, pv, pvWindow,
                   exitPending, mPreviewThread, late, ClientVars>>

\* Second critical section: copies mPreviewThread.  With no thread, neither
\* the join nor the release of the device happens.
CopyThread ==
    /\ At("copy")
    /\ mLock = "free"
    /\ Goto(IF mPreviewThread THEN "join" ELSE "clear")
    /\ UNCHANGED <<camVars, mLock, node, taken, picture, ThreadVars,
                   ClientVars>>

\* Mutant: the thread is never asked to exit.
RequestExit_Forgets ==
    /\ At("join")
    /\ Goto("wait")
    /\ UNCHANGED <<camVars, mLock, node, taken, picture, ThreadVars,
                   ClientVars>>

\* requestExitAndWait, in two steps.
RequestExit ==
    /\ At("join")
    /\ exitPending' = TRUE
    /\ Goto("wait")
    /\ UNCHANGED <<camVars, mLock, node, taken, picture, pv, pvWindow,
                   mPreviewThread, previewStopped, late, ClientVars>>

\* Mutant: requestExit without the wait.
Join_NoWait ==
    /\ At("wait")
    /\ taken' = 0
    /\ Goto("drain")
    /\ UNCHANGED <<camVars, mLock, node, picture, ThreadVars, ClientVars>>

\* The join returns once the thread has left its loop.
Join ==
    /\ At("wait")
    /\ pv = "exited"
    /\ taken' = 0
    /\ Goto("drain")
    /\ UNCHANGED <<camVars, mLock, node, picture, ThreadVars, ClientVars>>

\* GrabJpegFrame: the dequeue.  On failure it returns NULL, and pictureThread
\* passes that on.
GrabJpeg ==
    /\ At("grabJpeg")
    /\ \/ GrabOk /\ Goto("requeue") /\ UNCHANGED picture
       \/ GrabFails /\ Goto("deliver") /\ picture' = NULL
    /\ UNCHANGED <<mLock, node, taken, ThreadVars, ClientVars>>

\* GrabJpegFrame: the buffer goes back to the driver.
RequeueJpeg ==
    /\ At("requeue")
    /\ \/ JpegRequeueOk /\ Goto("encode") /\ UNCHANGED picture
       \/ JpegRequeueFails /\ Goto("deliver") /\ picture' = NULL
    /\ UNCHANGED <<mLock, node, taken, ThreadVars, ClientVars>>

\* GrabJpegFrame: the frame is compressed out of the mapped buffer.
EncodeJpeg ==
    /\ At("encode")
    /\ picture' = "jpeg"
    /\ Goto("deliver")
    /\ UNCHANGED <<camVars, mLock, node, taken, ThreadVars, ClientVars>>

\* mDataFn with the picture, and what follows it.
DeliverPicture ==
    /\ At("deliver")
    /\ picture' = "none"
    /\ taken' = 0
    /\ Goto("drain")
    /\ UNCHANGED <<camVars, mLock, node, ThreadVars, ClientVars>>

\* Uninit, one dequeue at a time, and its end.
Drain ==
    /\ At("drain")
    /\ UninitTakesMore(taken)
    /\ UninitTake
    /\ taken' = taken + 1
    /\ UNCHANGED <<mLock, svc, job, node, picture, ThreadVars, ClientVars>>

DrainEnds ==
    /\ At("drain")
    /\ ~UninitTakesMore(taken)
    /\ UninitReset
    /\ Goto(IF job = "start" THEN "close" ELSE "streamoff")
    /\ UNCHANGED <<mLock, node, taken, picture, ThreadVars, ClientVars>>

\* The result of StopStreaming is ignored by both callers.
StopStreaming ==
    /\ At("streamoff")
    /\ StopStreamingOk \/ StopStreamingFails
    /\ Goto("close")
    /\ UNCHANGED <<mLock, node, taken, picture, ThreadVars, ClientVars>>

CloseDevice ==
    /\ At("close")
    /\ Close
    /\ IF job \in {"stop", "picture"}
       THEN Goto("clear") /\ UNCHANGED mLock
       ELSE Return
    /\ UNCHANGED <<node, taken, picture, ThreadVars, ClientVars>>

\* stopPreview's last critical section drops the thread.  takePicture then
\* runs pictureThread in the same thread.
ClearThread ==
    /\ At("clear")
    /\ mLock = "free"
    /\ mPreviewThread' = FALSE
    /\ pv' = "none"
    /\ exitPending' = FALSE
    /\ IF job = "stop"
       THEN Return /\ UNCHANGED node
       ELSE /\ svc' = "open" /\ job' = "shot"
            /\ node' = MAX_VIDEONODE
            /\ UNCHANGED mLock
    /\ UNCHANGED <<camVars, taken, picture, pvWindow, previewStopped, late,
                   ClientVars>>

ServiceStep ==
    \/ OpenNode \/ OpenGivesUp \/ InitDevice
    \/ StartStreamingForPreview \/ StartStreamingForPicture
    \/ StartStreamingFailsForPreview
    \/ SetStopped \/ CopyThread \/ RequestExit \/ Join
    \/ GrabJpeg \/ RequeueJpeg \/ EncodeJpeg \/ DeliverPicture
    \/ Drain \/ DrainEnds \/ StopStreaming \/ CloseDevice \/ ClearThread

----------------------------------------------------------------------------
(* The preview thread: Thread's loop around previewThread().               *)

SvcVars == <<svc, job, node, taken, picture, previewStopped, mPreviewThread,
             exitPending, mNativeWindow, mMsgEnabled, mRecordRunning>>

AtPv(place) == pv = place /\ ~crashed

\* Thread tests mExitPending after every threadLoop().
CheckExit ==
    /\ AtPv("check")
    /\ pv' = IF exitPending THEN "exited" ELSE "loop"
    /\ UNCHANGED <<camVars, SvcVars, mLock, pvWindow, crashed, late>>

\* Mutant: the flag is not tested.
ReadStopped_Ignores ==
    /\ AtPv("loop")
    /\ pv' = "lock"
    /\ UNCHANGED <<camVars, SvcVars, mLock, pvWindow, crashed, late>>

\* previewStopped is read without the lock.
ReadStopped ==
    /\ AtPv("loop")
    /\ pv' = IF previewStopped THEN "check" ELSE "lock"
    /\ UNCHANGED <<camVars, SvcVars, mLock, pvWindow, crashed, late>>

LockForFrame ==
    /\ AtPv("lock")
    /\ mLock = "free"
    /\ mLock' = "preview"
    /\ pv' = IF mNativeWindow = NULL THEN "unlock" ELSE "window"
    /\ UNCHANGED <<camVars, SvcVars, pvWindow, crashed, late>>

\* dequeue_buffer of the window; the error return does not unlock.
DequeueWindow ==
    /\ AtPv("window")
    /\ \/ /\ pv' = "grab"
          /\ pvWindow' = mNativeWindow
          /\ UNCHANGED faults
       \/ /\ Fault("window")
          /\ pv' = "check"
          /\ UNCHANGED pvWindow
    /\ UNCHANGED <<fd, leaked, driverOn, queued, filled, index, mapped,
                   isStreaming, outstanding, SvcVars, mLock, crashed, late>>

\* GrabPreviewFrame; a NULL frame is converted all the same.
GrabFrame ==
    /\ AtPv("grab")
    /\ \/ GrabOk /\ pv' = "frame" /\ UNCHANGED crashed
       \/ GrabFails /\ crashed' = TRUE /\ UNCHANGED pv
    /\ UNCHANGED <<SvcVars, mLock, pvWindow, late>>

\* Conversion into the window's buffer, which goes back to the window; then
\* the data callback, if the client asked for either kind of frame.
ConvertFrame ==
    /\ AtPv("frame")
    /\ pvWindow' = NULL
    /\ IF mMsgEnabled \cap {"PREVIEW_FRAME", "VIDEO_FRAME"} # {}
       THEN /\ pv' = "deliver"
            /\ late' = IF previewStopped THEN late + 1 ELSE late
       ELSE pv' = "release" /\ UNCHANGED late
    /\ UNCHANGED <<camVars, SvcVars, mLock, crashed>>

DeliverFrame ==
    /\ AtPv("deliver")
    /\ pv' = "release"
    /\ UNCHANGED <<camVars, SvcVars, mLock, pvWindow, crashed, late>>

\* Mutant: the next frame is taken without leaving the function.
ReleaseFrame_NextFrame ==
    /\ AtPv("release")
    /\ ReleasePreviewFrame
    /\ pv' = "window"
    /\ UNCHANGED <<SvcVars, mLock, pvWindow, crashed, late>>

ReleaseFrame ==
    /\ AtPv("release")
    /\ ReleasePreviewFrame
    /\ pv' = "unlock"
    /\ UNCHANGED <<SvcVars, mLock, pvWindow, crashed, late>>

Unlock ==
    /\ AtPv("unlock")
    /\ mLock' = "free"
    /\ pv' = "check"
    /\ UNCHANGED <<camVars, SvcVars, pvWindow, crashed, late>>

PreviewStep ==
    \/ CheckExit \/ ReadStopped \/ LockForFrame \/ DequeueWindow
    \/ GrabFrame \/ ConvertFrame \/ DeliverFrame \/ ReleaseFrame \/ Unlock

Driver == ~crashed /\ DriverFill /\ UNCHANGED hwVars

----------------------------------------------------------------------------
Client ==
    \/ \E w \in Windows \cup {NULL} : SetPreviewWindow(w)
    \/ \E m \in Msgs : EnableMsgType(m) \/ DisableMsgType(m)
    \/ \E on \in BOOLEAN : SetRecording(on)
    \/ Release
    \/ StartPreview
    \/ \E why \in {"stop", "picture"} : StopPreview(why)

Next == Client \/ ServiceStep \/ PreviewStep \/ Driver

\* A method that has been called runs on, the preview thread runs on and the
\* driver captures.  The preview thread gives mLock up only for an instant
\* between two frames, so setting previewStopped needs strong fairness: the
\* lock is not handed over in order, but a waiter is not passed over forever.
\* After that the thread stops taking the lock.  Nothing makes the client
\* call a method.
Fairness ==
    /\ WF_vars(ServiceStep)
    /\ SF_vars(SetStopped)
    /\ WF_vars(PreviewStep)
    /\ WF_vars(Driver)

Spec == Init /\ [][Next]_vars /\ Fairness

----------------------------------------------------------------------------
(* Properties.                                                             *)

PvInFrame == pv \in {"window", "grab", "frame", "deliver", "release"}
SvcOnDevice == svc \in {"open", "init", "streamon", "grabJpeg", "requeue",
                        "encode", "deliver", "drain", "streamoff", "close"}
Off == svc = "idle" /\ ~mPreviewThread

\* The two threads never use the V4L2Camera object at the same time: the
\* teardown in stopPreview and the whole of pictureThread run without mLock
\* and rely on the join alone.
DeviceExclusion == PvInFrame => ~SvcOnDevice

\* Between the capture of a frame and its release the preview thread holds
\* exactly one buffer, the one it will give back, and the driver has all the
\* others; between frames the driver has all of them.  (A failing VIDIOC_QBUF
\* loses one.)
BufferConservation ==
    pv \notin {"none", "exited"} /\ faults = 0 =>
        queued = IF pv \in {"frame", "deliver", "release"}
                 THEN Buffers \ {index} ELSE Buffers

\* When no method runs and the preview is off, nothing of a session is left:
\* the device is closed, no mapping, no count and no streaming flag survive
\* into the next Open.
SessionClean ==
    Off => /\ fd = "closed"
           /\ leaked <= faults
           /\ ~driverOn /\ ~isStreaming
           /\ mapped = {}
           /\ outstanding = 0

\* previewThread converts what GrabPreviewFrame returns without a test, so
\* the dequeue must never be reached with capture off; and pictureThread sends
\* the client whatever GrabJpegFrame returned, which is not NULL while the
\* device works.
NeverNullFrame == ~crashed /\ (faults = 0 => picture # NULL)

\* previewStopped is tested before mLock is taken and not again: one frame,
\* never two, can still be sent once stopPreview has set it.
OneLateFrame == late <= 1

\* A window that setPreviewWindow has replaced is not touched any more: the
\* thread that is in the middle of a frame has the current window's buffer.
WindowStable == pvWindow # NULL => pvWindow = mNativeWindow

\* Why these properties and the implementation of PreviewSession hold, as an
\* inductive invariant.  A thread exists exactly while mPreviewThread points
\* to one; the service thread is on the device, or about to drop the thread,
\* only when that thread does not run; whoever is in a frame holds the lock,
\* and so does startPreview; a thread that passed its test of previewStopped
\* before stopPreview set it has one frame to send, a thread that has sent it
\* has not passed the test again; and pictures are taken with no thread.
ThreadInv == (pv = "none") <=> ~mPreviewThread
DeviceInv == SvcOnDevice \/ svc = "clear" => pv \in {"none", "exited"}
LockInv   == /\ PvInFrame \/ pv = "unlock" => mLock = "preview"
             /\ job = "start" => mLock = "service"
WindowInv == pvWindow # NULL => /\ pvWindow = mNativeWindow
                                /\ pv \in {"grab", "frame"}
LateInv   == /\ late <= 1
             /\ ~previewStopped => late = 0
             /\ late = 1 => pv \notin {"lock", "window", "grab", "frame"}
JobInv    == /\ job \in {"start", "shot"} => ~mPreviewThread
             /\ job = "none" <=> svc = "idle"
             /\ svc \in {"open", "init", "streamon"} =>
                    job \in {"start", "shot"}
             /\ svc \in {"grabJpeg", "requeue", "encode", "deliver"} =>
                    job = "shot"
             /\ svc \in {"flag", "copy", "join", "wait", "clear"} =>
                    job \in {"stop", "picture"}
             /\ job \in {"stop", "picture"} /\ svc # "flag" =>
                    previewStopped
ControlInv ==
    ThreadInv /\ DeviceInv /\ LockInv /\ WindowInv /\ LateInv /\ JobInv

\* Uninit never asks the driver for a buffer the driver does not have while
\* capture is on: that call would never return.
DrainNeverStarves ==
    (svc = "drain" /\ UninitTakesMore(taken) /\ driverOn) => queued # {}

\* Why the device comes out of every session as it went in, and why the
\* driver's buffers are accounted for: what is known of the V4L2Camera object
\* at each place of the two threads.
\*
\* Some errors leave the object in a state that the next session does not
\* expect.  release() closes the descriptor under a running preview, and a
\* VIDIOC_STREAMOFF that fails leaves isStreaming set, so that the next
\* session captures nothing; startPreview closes the device after a failing
\* Init without Uninit, so that mappings and count remain.  The invariants
\* say which of these must not have happened.
FlagKept  == faults = 0 \/ FaultKinds \cap {"streamoff", "release"} = {}
CountKept == faults = 0 \/ "init" \notin FaultKinds

DeviceClosed ==
    \/ svc = "clear"
    \/ ~mPreviewThread /\ svc \in {"idle", "flag", "copy", "open"}
Previewing ==
    mPreviewThread /\ svc \in {"idle", "flag", "copy", "join", "wait"}

FdInv == /\ driverOn => fd = "open"
         /\ DeviceClosed => fd = "closed"
         /\ svc \in {"init", "streamon"} => fd = "open" /\ ~driverOn
         /\ leaked <= faults /\ faults <= MaxFaults

\* The buffer in hand is not the driver's.
HeldInv == pv \in {"frame", "deliver", "release"} \/ svc = "requeue" =>
               index \notin queued

StreamInv ==
    FlagKept =>
        /\ DeviceClosed \/ svc \in {"init", "streamon", "close"} =>
               ~isStreaming
        /\ svc = "drain" /\ job = "start" => ~isStreaming
        /\ Previewing => driverOn
        /\ isStreaming => driverOn

CountInv ==
    CountKept /\ (DeviceClosed \/ svc \in {"init", "streamoff", "close"}) =>
        mapped = {} /\ outstanding = 0

\* A picture is taken with capture on, and nothing is NULL, while no call
\* has failed; a frame is never NULL if VIDIOC_DQBUF does not fail.
FrameInv ==
    /\ FlagKept /\ (faults = 0 \/ "dqbuf" \notin FaultKinds) => ~crashed
    /\ faults = 0 => /\ svc \in {"grabJpeg", "requeue"} => driverOn
                     /\ picture # NULL

PoolInv ==
    /\ faults = 0 /\ svc = "streamon" => queued = Buffers
    /\ BufferConservation

\* nQueued - nDequeued exceeds what the driver has by no more than the
\* buffers that were counted although their VIDIOC_QBUF failed.
Lost == IF "qbuf" \in FaultKinds THEN faults ELSE 0
InUse == svc = "streamon"
         \/ (driverOn /\ svc \notin {"drain", "streamoff", "close"})
DebtInv ==
    CountKept =>
        /\ InUse => outstanding <= Cardinality(queued) + Lost
        /\ svc = "drain" /\ driverOn =>
               outstanding - taken <= Cardinality(queued) + Lost

SessionInv ==
    FdInv /\ HeldInv /\ StreamInv /\ CountInv /\ FrameInv /\ PoolInv

\* The inductive invariant of the camera: the threads, the device, the debt.
CameraInv == ControlInv /\ SessionInv /\ DebtInv

\* stopPreview and takePicture return.
MethodsReturn == (svc # "idle") ~> (svc = "idle")

\* The preview thread comes back from every call of previewThread(): "loop
\* until we need to quit".
PreviewThreadLoops == (pv = "lock") ~> (pv = "check")

----------------------------------------------------------------------------
(* What the client is promised, PreviewSession, implemented.               *)

Session == INSTANCE PreviewSession WITH
    mode <- IF ~mPreviewThread THEN "off"
            ELSE IF previewStopped THEN "stopping" ELSE "on",
    callback <- IF pv = "deliver" THEN "frame"
                ELSE IF svc = "deliver" THEN "picture" ELSE "none",
    late <- late

\* Every step of the two threads is a step of the session or none.
ImplementsSession == Session!Spec
=============================================================================
