---------------------------- MODULE MemoryStream ----------------------------
(***************************************************************************)
(* MemoryStream (libcamera/V4L2Camera.cpp): how GrabJpegFrame compresses a *)
(* frame into memory.  libjpeg writes to a FILE whose descriptor is a      *)
(* pipe; a thread reads the pipe into a buffer of `size' bytes.            *)
(* closeStream closes the pipe and waits for the thread to say that it has *)
(* read everything, on a condition without a predicate.                    *)
(*                                                                         *)
(* libjpeg writes in blocks and flushes the last one in                    *)
(* jpeg_finish_compress, before closeStream, so fclose has nothing left to *)
(* write.  All lengths are in blocks.  A write to a pipe nobody reads      *)
(* fails, and libjpeg's error_exit ends the process.                       *)
(***************************************************************************)
EXTENDS Naturals

CONSTANTS
    PipeSize,     \* blocks the pipe holds
    size,         \* blocks tmpBuf holds: the bytesused of the raw frame
    MaxPicture,   \* bound: blocks a compressed picture may take
    FaultKinds,   \* what may go wrong, see Faults
    MaxFaults     \* bound: faults in one behaviour

\* pipe() or fdopen() fails; the thread is not created; pthread_cond_wait
\* returns without a signal.
Faults == {"pipe", "thread", "wakeup"}

ASSUME SizeAssumption ==
    PipeSize \in Nat \ {0} /\ size \in Nat /\ MaxPicture \in Nat
ASSUME FaultAssumption == FaultKinds \subseteq Faults /\ MaxFaults \in Nat

VARIABLES
    writer,        \* the service thread, in GrabJpegFrame
    reader,        \* the thread that runs readPipe
    lock,          \* "free", or "writer" inside closeStream
    signalled,     \* exitedCondition has woken the writer
    file,          \* the write end of the pipe is open
    inPipe,        \* blocks in the pipe
    picture,       \* blocks the picture compresses to
    written,       \* blocks of it libjpeg has written
    bytesWritten,  \* blocks of it the reader has stored
    lost,          \* the process is gone, or writes to no FILE
    faults

vars == <<writer, reader, lock, signalled, file, inPipe, picture, written,
          bytesWritten, lost, faults>>

\* Every variable holds a value of its kind; neither the pipe nor tmpBuf
\* holds more than its size.
StreamTypeOK ==
    /\ writer \in {"idle", "write", "closing", "waiting", "closed"}
    /\ reader \in {"none", "read", "ended", "exited"}
    /\ lock \in {"free", "writer"}
    /\ signalled \in BOOLEAN
    /\ file \in BOOLEAN
    /\ inPipe \in 0 .. PipeSize
    /\ picture \in Nat
    /\ written \in 0 .. picture
    /\ bytesWritten \in 0 .. size
    /\ lost \in BOOLEAN
    /\ faults \in Nat

Init ==
    /\ writer = "idle" /\ reader = "none"
    /\ lock = "free" /\ signalled = FALSE
    /\ file = FALSE /\ inPipe = 0
    /\ picture = 0 /\ written = 0 /\ bytesWritten = 0
    /\ lost = FALSE /\ faults = 0

Fault(kind) ==
    /\ kind \in FaultKinds /\ faults < MaxFaults
    /\ faults' = faults + 1

----------------------------------------------------------------------------
(* The service thread.                                                     *)

At(place) == writer = place /\ ~lost

\* The constructor.  Its failures are not reported: without a pipe libjpeg
\* writes to a NULL FILE, without a thread nobody reads.  A picture is not
\* begun while the thread of an earlier one still runs (bound).
NewStream ==
    /\ At("idle")
    /\ reader \in {"none", "exited"}
    /\ writer' = "write"
    /\ picture' \in 1 .. MaxPicture
    /\ \/ reader' = "read" /\ lost' = FALSE /\ UNCHANGED faults
       \/ reader' = "none" /\ lost' = FALSE /\ Fault("thread")
       \/ reader' = "none" /\ lost' = TRUE  /\ Fault("pipe")
    /\ file' = TRUE /\ inPipe' = 0
    /\ written' = 0 /\ bytesWritten' = 0
    /\ signalled' = FALSE
    /\ UNCHANGED lock

\* libjpeg writes a block.  It blocks while the pipe is full, and ends the
\* process when the read end is closed.
WriteBlock ==
    /\ At("write")
    /\ written < picture
    /\ IF reader \in {"ended", "exited"}
       THEN lost' = TRUE /\ UNCHANGED <<written, inPipe>>
       ELSE /\ inPipe < PipeSize
            /\ inPipe' = inPipe + 1
            /\ written' = written + 1
            /\ UNCHANGED lost
    /\ UNCHANGED <<writer, reader, lock, signalled, file, picture,
                   bytesWritten, faults>>

\* Mutant: the FILE is closed before the lock is taken.
CloseFile_Unlocked ==
    /\ At("write")
    /\ written = picture
    /\ file' = FALSE
    /\ writer' = "closing"
    /\ UNCHANGED <<reader, lock, signalled, inPipe, picture, written,
                   bytesWritten, lost, faults>>

\* closeStream: takes the lock and closes the FILE.
CloseFile ==
    /\ At("write")
    /\ written = picture
    /\ lock = "free"
    /\ lock' = "writer"
    /\ file' = FALSE
    /\ writer' = "closing"
    /\ UNCHANGED <<reader, signalled, inPipe, picture, written, bytesWritten,
                   lost, faults>>

\* closeStream: waits, giving the lock up.
Wait ==
    /\ At("closing")
    /\ lock' = "free"
    /\ writer' = "waiting"
    /\ UNCHANGED <<reader, signalled, file, inPipe, picture, written,
                   bytesWritten, lost, faults>>

\* Mutant: the waiter goes on without being signalled.
Wake_Any ==
    /\ At("waiting")
    /\ lock = "free"
    /\ writer' = "closed"
    /\ UNCHANGED <<reader, lock, signalled, file, inPipe, picture, written,
                   bytesWritten, lost, faults>>

\* The wait returns because it was signalled, or for no reason.
Wake ==
    /\ At("waiting")
    /\ lock = "free" /\ signalled
    /\ writer' = "closed"
    /\ UNCHANGED <<reader, lock, signalled, file, inPipe, picture, written,
                   bytesWritten, lost, faults>>

WakeEarly ==
    /\ At("waiting")
    /\ lock = "free" /\ ~signalled
    /\ Fault("wakeup")
    /\ writer' = "closed"
    /\ UNCHANGED <<reader, lock, signalled, file, inPipe, picture, written,
                   bytesWritten, lost>>

\* GrabJpegFrame copies bytesWritten bytes, deletes tmpBuf and leaves the
\* block that strm lives in; closeStream in the destructor finds no FILE.
CopyAndFree ==
    /\ At("closed")
    /\ writer' = "idle"
    /\ UNCHANGED <<reader, lock, signalled, file, inPipe, picture, written,
                   bytesWritten, lost, faults>>

GrabJpegFrame == WriteBlock \/ CloseFile \/ Wait \/ Wake \/ CopyAndFree

----------------------------------------------------------------------------
(* The thread.                                                             *)

Reading == reader = "read" /\ ~lost

\* read() stores some of what is there, no more than still fits.
ReadSome ==
    /\ Reading
    /\ \E n \in 1 .. inPipe :
        /\ n <= size - bytesWritten
        /\ inPipe' = inPipe - n
        /\ bytesWritten' = bytesWritten + n
    /\ UNCHANGED <<writer, reader, lock, signalled, file, picture, written,
                   lost, faults>>

\* Mutant: the thread ends when it finds the pipe empty.
ReadEnds_WhenEmpty ==
    /\ Reading
    /\ bytesWritten = size \/ inPipe = 0
    /\ reader' = "ended"
    /\ UNCHANGED <<writer, lock, signalled, file, inPipe, picture, written,
                   bytesWritten, lost, faults>>

\* read() returns 0, at the end of the pipe or because no room was asked
\* for; the thread closes its end.
ReadEnds ==
    /\ Reading
    /\ bytesWritten = size \/ (inPipe = 0 /\ ~file)
    /\ reader' = "ended"
    /\ UNCHANGED <<writer, lock, signalled, file, inPipe, picture, written,
                   bytesWritten, lost, faults>>

\* exitedCondition.signal wakes the writer if it is waiting already, and
\* nobody otherwise.
Signal ==
    /\ reader = "ended" /\ ~lost
    /\ lock = "free"
    /\ reader' = "exited"
    /\ signalled' = (writer = "waiting")
    /\ UNCHANGED <<writer, lock, file, inPipe, picture, written,
                   bytesWritten, lost, faults>>

ReadPipe == ReadSome \/ ReadEnds \/ Signal

Next == NewStream \/ WakeEarly \/ GrabJpegFrame \/ ReadPipe

\* Both threads are scheduled.  Nothing makes the service take a picture, and
\* nothing makes a wait return early.
Fairness == WF_vars(GrabJpegFrame) /\ WF_vars(ReadPipe)

StreamSpec == Init /\ [][Next]_vars /\ Fairness

----------------------------------------------------------------------------
(* Properties.                                                             *)

Smaller(a, b) == IF a < b THEN a ELSE b

\* When closeStream has returned, tmpBuf holds the whole picture, or all that
\* fits of it: getOffset, which GrabJpegFrame calls next, is its length, and
\* the thread no longer touches the buffer or the stream that are about to
\* go.  Only a wait that returned by itself breaks it.
PictureComplete ==
    writer = "closed" /\ faults = 0 =>
        reader = "exited" /\ bytesWritten = Smaller(picture, size)

\* The signal finds nobody waiting only when the picture filled tmpBuf: there
\* the thread does not wait for closeStream, which then waits for ever.
MissedSignalOnlyWhenFull ==
    writer \in {"closing", "waiting"} /\ reader = "exited" /\ ~signalled =>
        bytesWritten = size

\* libjpeg never meets a closed pipe while it compresses a picture that fits.
AliveIfItFits == lost /\ faults = 0 => picture > size

\* A picture that leaves room in tmpBuf is delivered: closeStream returns.
CloseReturns ==
    (writer = "write" /\ picture < size /\ faults = 0)
        ~> (writer = "idle" \/ faults > 0)

\* Why they hold.  What libjpeg has written is in the pipe or stored; the
\* thread stops reading only when the stored part is complete or fills
\* tmpBuf; the lock is held from the close to the wait, so a thread that
\* ends at the end of the pipe signals after the writer waits.
FlowInv == reader # "none" /\ writer # "idle" /\ ~lost =>
               written = bytesWritten + inPipe
EndInv  == reader \in {"ended", "exited"} /\ writer # "idle" =>
               bytesWritten = size \/ (~file /\ inPipe = 0)
FileInv == /\ (writer = "write") => file
           /\ writer \in {"closing", "waiting", "closed"} =>
                  ~file /\ written = picture
           /\ lock = "writer" <=> writer = "closing"
WakeInv == /\ signalled => reader = "exited"
           /\ reader = "none" /\ faults = 0 => writer = "idle"
           /\ reader = "exited" /\ bytesWritten < size /\ faults = 0 =>
                  writer # "closing" /\ (writer = "waiting" => signalled)
           /\ writer = "closed" /\ faults = 0 => signalled
StreamInv == /\ StreamTypeOK /\ FlowInv /\ EndInv /\ FileInv /\ WakeInv
             /\ PictureComplete /\ MissedSignalOnlyWhenFull /\ AliveIfItFits
=============================================================================
