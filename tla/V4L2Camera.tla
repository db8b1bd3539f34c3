----------------------------- MODULE V4L2Camera -----------------------------
(***************************************************************************)
(* The V4L2Camera class (libcamera/V4L2Camera.cpp) and the capture driver  *)
(* it talks to.                                                            *)
(*                                                                         *)
(* The class owns one descriptor, a pool of NB_BUFFER memory-mapped frame  *)
(* buffers that move between the driver and the process, a flag that says  *)
(* whether streaming is on, and two counters that tell Uninit how many     *)
(* buffers to take back from the driver.  The class has no lock and no     *)
(* thread of its own: CameraHardware sequences the calls.  This module     *)
(* therefore has one action per way a call can return, and the module that *)
(* composes it conjoins them with the caller's control state.              *)
(*                                                                         *)
(* The driver is modelled from how the class uses it: a buffer is either   *)
(* queued in the driver or held by the process, capture fills queued       *)
(* buffers while streaming is on, VIDIOC_DQBUF blocks until a filled       *)
(* buffer exists, VIDIOC_STREAMOFF and the close of the descriptor give    *)
(* every buffer back.  Any ioctl may fail: FaultKinds names the calls that *)
(* may, and MaxFaults bounds how often in one behaviour.                   *)
(***************************************************************************)
EXTENDS Naturals, Integers, FiniteSets

CONSTANTS
    NB_BUFFER,   \* frame buffers requested from the driver
    FaultKinds,  \* the calls that may fail
    MaxFaults    \* bound: failing calls in one behaviour

Faults == {"open", "init", "streamon", "streamoff", "dqbuf", "qbuf",
           "window", "release"}

ASSUME BufferAssumption == NB_BUFFER \in Nat \ {0}
ASSUME FaultAssumption  == FaultKinds \subseteq Faults /\ MaxFaults \in Nat

Buffers == 1 .. NB_BUFFER

VARIABLES
    fd,           \* V4L2Camera::fd: "open" between a successful Open and Close
    leaked,       \* descriptors that a failing Open opened and never closed
    driverOn,     \* driver: capture is running
    queued,       \* driver: buffers it owns
    filled,       \* driver: queued buffers that hold a frame
    index,        \* videoIn->buf.index, the buffer last dequeued or set up
    mapped,       \* buffers whose mmap in videoIn->mem is live
    isStreaming,  \* videoIn->isStreaming
    outstanding,  \* nQueued - nDequeued; only the difference is ever read
    faults        \* failing calls so far

camVars == <<fd, leaked, driverOn, queued, filled, index, mapped,
             isStreaming, outstanding, faults>>

CamTypeOK ==
    /\ fd \in {"open", "closed"}
    /\ leaked \in Nat
    /\ driverOn \in BOOLEAN
    /\ queued \subseteq Buffers
    /\ filled \subseteq queued
    /\ index \in Buffers
    /\ mapped \subseteq Buffers
    /\ isStreaming \in BOOLEAN
    /\ outstanding \in Int
    /\ faults \in Nat

CamInit ==
    /\ fd = "closed"
    /\ leaked = 0
    /\ driverOn = FALSE
    /\ queued = {}
    /\ filled = {}
    /\ index = 1
    /\ mapped = {}
    /\ isStreaming = FALSE
    /\ outstanding = 0
    /\ faults = 0

\* A call of the given kind fails.
Fault(kind) ==
    /\ kind \in FaultKinds
    /\ faults < MaxFaults
    /\ faults' = faults + 1

----------------------------------------------------------------------------
(* The driver.                                                             *)

\* Capture completes a frame in one of the queued buffers.
DriverFill ==
    /\ driverOn
    /\ \E b \in queued \ filled : filled' = filled \cup {b}
    /\ UNCHANGED <<fd, leaked, driverOn, queued, index, mapped, isStreaming,
                   outstanding, faults>>

\* VIDIOC_DQBUF hands over a filled buffer.  While capture runs and no
\* buffer is filled neither this nor DequeueFails is enabled: the call blocks.
Dequeue ==
    /\ driverOn
    /\ \E b \in filled :
        /\ queued' = queued \ {b}
        /\ filled' = filled \ {b}
        /\ index' = b

\* VIDIOC_DQBUF returns an error: capture is off, or the device fails.
DequeueFails ==
    /\ IF driverOn THEN Fault("dqbuf") ELSE UNCHANGED faults
    /\ UNCHANGED <<queued, filled, index>>

\* VIDIOC_QBUF of the buffer in videoIn->buf.
Enqueue ==
    /\ fd = "open"
    /\ index \notin queued
    /\ queued' = queued \cup {index}

EnqueueFails ==
    /\ IF fd = "open" /\ index \notin queued THEN Fault("qbuf")
                                             ELSE UNCHANGED faults
    /\ UNCHANGED queued

----------------------------------------------------------------------------
(* The methods.                                                            *)

\* Open on a node that is a capture device.
OpenOk ==
    /\ fd' = "open"
    /\ UNCHANGED <<leaked, driverOn, queued, filled, index, mapped,
                   isStreaming, outstanding, faults>>

\* Open on a node that does not exist: open() itself fails.
OpenNoDevice ==
    /\ UNCHANGED camVars

\* Open fails after open(): the error returns after QUERYCAP and S_FMT leave
\* the descriptor open and the caller never closes it.
OpenLeaks ==
    /\ Fault("open")
    /\ leaked' = leaked + 1
    /\ UNCHANGED <<fd, driverOn, queued, filled, index, mapped, isStreaming,
                   outstanding>>

\* Closing the descriptor ends capture and releases the driver's queue, but
\* leaves every member of the class as it is.
Close ==
    /\ fd' = "closed"
    /\ driverOn' = FALSE
    /\ queued' = {}
    /\ filled' = {}
    /\ UNCHANGED <<leaked, index, mapped, isStreaming, outstanding, faults>>

\* Init maps and queues every buffer of the fresh pool.
InitOk ==
    /\ queued' = Buffers
    /\ filled' = {}
    /\ index' = NB_BUFFER
    /\ mapped' = Buffers
    /\ outstanding' = outstanding + NB_BUFFER
    /\ UNCHANGED <<fd, leaked, driverOn, isStreaming, faults>>

\* Init returns in the middle: VIDIOC_REQBUFS fails and nothing changes, or n
\* buffers are queued and counted, and the next one may be mapped already
\* when its VIDIOC_QBUF is what fails.
InitFails ==
    /\ Fault("init")
    /\ \/ UNCHANGED <<queued, filled, mapped, outstanding, index>>
       \/ \E n \in 0 .. NB_BUFFER - 1, m \in {0, 1} :
            /\ queued' = 1 .. n
            /\ filled' = {}
            /\ mapped' = mapped \cup 1 .. n + m
            /\ outstanding' = outstanding + n
            /\ index' = n + 1
    /\ UNCHANGED <<fd, leaked, driverOn, isStreaming>>

\* Mutant: without the - 1.
UninitTakesMore_All(taken) == taken < outstanding

\* Uninit takes DQcount - 1 buffers back, one VIDIOC_DQBUF each; the results
\* are logged and nDequeued does not change until the reset at the end.
\* `taken' is the loop variable of the caller's Uninit.
UninitTakesMore(taken) == taken < outstanding - 1

UninitTake ==
    /\ \/ Dequeue /\ UNCHANGED faults
       \/ DequeueFails
    /\ UNCHANGED <<fd, leaked, driverOn, mapped, isStreaming, outstanding>>

\* Mutant: the counters are not reset.
UninitReset_KeepsCount ==
    /\ mapped' = {}
    /\ UNCHANGED <<fd, leaked, driverOn, queued, filled, index, isStreaming,
                   outstanding, faults>>

UninitReset ==
    /\ outstanding' = 0
    /\ mapped' = {}
    /\ UNCHANGED <<fd, leaked, driverOn, queued, filled, index, isStreaming,
                   faults>>

\* VIDIOC_STREAMON, unless the flag says that capture is running already.
StartStreamingOk ==
    /\ driverOn' = (driverOn \/ ~isStreaming)
    /\ isStreaming' = TRUE
    /\ UNCHANGED <<fd, leaked, queued, filled, index, mapped, outstanding,
                   faults>>

StartStreamingFails ==
    /\ ~isStreaming
    /\ Fault("streamon")
    /\ UNCHANGED <<fd, leaked, driverOn, queued, filled, index, mapped,
                   isStreaming, outstanding>>

\* Mutant: the flag survives a successful VIDIOC_STREAMOFF.
StopStreamingOk_KeepsFlag ==
    /\ isStreaming /\ fd = "open"
    /\ driverOn' = FALSE
    /\ queued' = {}
    /\ filled' = {}
    /\ UNCHANGED <<fd, leaked, index, mapped, isStreaming, outstanding,
                   faults>>

\* VIDIOC_STREAMOFF, only when the flag is set.
StopStreamingOk ==
    /\ IF isStreaming
       THEN /\ fd = "open"
            /\ driverOn' = FALSE
            /\ queued' = {}
            /\ filled' = {}
       ELSE UNCHANGED <<driverOn, queued, filled>>
    /\ isStreaming' = FALSE
    /\ UNCHANGED <<fd, leaked, index, mapped, outstanding, faults>>

\* The error return leaves the flag set.  On a descriptor that release() has
\* closed the ioctl always fails.
StopStreamingFails ==
    /\ isStreaming
    /\ IF fd = "open" THEN Fault("streamoff") ELSE UNCHANGED faults
    /\ UNCHANGED <<fd, leaked, driverOn, queued, filled, index, mapped,
                   isStreaming, outstanding>>

\* Mutant: the buffer is taken and not counted.
GrabOk_NotCounted ==
    /\ Dequeue
    /\ UNCHANGED <<fd, leaked, driverOn, mapped, isStreaming, outstanding,
                   faults>>

\* GrabPreviewFrame and the first half of GrabJpegFrame.
GrabOk ==
    /\ Dequeue
    /\ outstanding' = outstanding - 1
    /\ UNCHANGED <<fd, leaked, driverOn, mapped, isStreaming, faults>>

GrabFails ==
    /\ DequeueFails
    /\ UNCHANGED <<fd, leaked, driverOn, mapped, isStreaming, outstanding>>

\* Mutant: the buffer is counted and never given back.
ReleasePreviewFrame_NoRequeue ==
    /\ outstanding' = outstanding + 1
    /\ UNCHANGED <<fd, leaked, driverOn, queued, filled, index, mapped,
                   isStreaming, faults>>

\* ReleasePreviewFrame counts the buffer as queued whether or not the ioctl
\* succeeded.
ReleasePreviewFrame ==
    /\ \/ Enqueue /\ UNCHANGED faults
       \/ EnqueueFails
    /\ outstanding' = outstanding + 1
    /\ UNCHANGED <<fd, leaked, driverOn, filled, index, mapped, isStreaming>>

\* The second half of GrabJpegFrame: the buffer goes back to the driver
\* before it is encoded, and is counted only when that succeeded.
JpegRequeueOk ==
    /\ Enqueue
    /\ outstanding' = outstanding + 1
    /\ UNCHANGED <<fd, leaked, driverOn, filled, index, mapped, isStreaming,
                   faults>>

JpegRequeueFails ==
    /\ EnqueueFails
    /\ UNCHANGED <<fd, leaked, driverOn, filled, index, mapped, isStreaming,
                   outstanding>>

\* Everything that can happen to the object and its driver by the calls of
\* the class: what the composing module conjoins with the caller's control.
Call ==
    \/ OpenOk \/ OpenNoDevice \/ OpenLeaks \/ Close
    \/ InitOk \/ InitFails \/ UninitTake \/ UninitReset
    \/ StartStreamingOk \/ StartStreamingFails
    \/ StopStreamingOk \/ StopStreamingFails
    \/ GrabOk \/ GrabFails \/ ReleasePreviewFrame
    \/ JpegRequeueOk \/ JpegRequeueFails
    \/ DriverFill
=============================================================================
