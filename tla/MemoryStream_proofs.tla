------------------------- MODULE MemoryStream_proofs -------------------------
(* MemoryStream's invariant is inductive, for every size of the pipe and of
   the buffer, every picture and every fault.                              *)
EXTENDS MemoryStream, TLAPS

LEMMA InitInv == Init => StreamInv
<1> SUFFICES ASSUME Init PROVE StreamInv
  OBVIOUS
<1> USE SizeAssumption DEF Init
<1>0. signalled \in BOOLEAN /\ file \in BOOLEAN /\ lost \in BOOLEAN
  OBVIOUS
<1>1. StreamTypeOK
  BY <1>0 DEF StreamTypeOK
<1>2. FlowInv
  BY DEF FlowInv
<1>3. EndInv
  BY DEF EndInv
<1>4. FileInv
  BY DEF FileInv
<1>5. WakeInv
  BY DEF WakeInv
<1>6. PictureComplete
  BY DEF PictureComplete
<1>7. MissedSignalOnlyWhenFull /\ AliveIfItFits
  BY DEF MissedSignalOnlyWhenFull, AliveIfItFits
<1> QED
  BY <1>1, <1>2, <1>3, <1>4, <1>5, <1>6, <1>7 DEF StreamInv

\* Every step of either thread keeps the invariant.
LEMMA StepInv == StreamInv /\ [Next]_vars => StreamInv'
<1> SUFFICES ASSUME StreamInv, [Next]_vars
             PROVE  StreamInv'
  OBVIOUS
<1> USE SizeAssumption, FaultAssumption
    DEF StreamInv, StreamTypeOK, FlowInv, EndInv, FileInv, WakeInv,
        PictureComplete, MissedSignalOnlyWhenFull, AliveIfItFits, Smaller, At
<1>1. CASE NewStream
  <2>1. signalled' \in BOOLEAN /\ file' \in BOOLEAN /\ lost' \in BOOLEAN
    BY <1>1 DEF NewStream
  <2> QED
    BY <1>1, <2>1 DEF NewStream, Fault
<1>2. CASE WriteBlock
  <2>1. signalled' \in BOOLEAN /\ file' \in BOOLEAN /\ lost' \in BOOLEAN
    BY <1>2 DEF WriteBlock
  <2> QED
    BY <1>2, <2>1 DEF WriteBlock
<1>3. CASE CloseFile
  <2>1. signalled' \in BOOLEAN /\ file' \in BOOLEAN /\ lost' \in BOOLEAN
    BY <1>3 DEF CloseFile
  <2>2. StreamTypeOK' /\ FlowInv' /\ EndInv' /\ FileInv'
    BY <1>3, <2>1 DEF CloseFile
  <2>3. WakeInv'
    BY <1>3 DEF CloseFile
  <2> QED
    BY <1>3, <2>2, <2>3 DEF CloseFile
<1>4. CASE Wait
  BY <1>4 DEF Wait
<1>5. CASE Wake
  BY <1>5 DEF Wake
<1>6. CASE WakeEarly
  BY <1>6 DEF WakeEarly, Fault
<1>7. CASE CopyAndFree
  BY <1>7 DEF CopyAndFree
<1>8. CASE ReadSome
  BY <1>8 DEF ReadSome, Reading
<1>9. CASE ReadEnds
  BY <1>9 DEF ReadEnds, Reading
<1>10. CASE Signal
  BY <1>10 DEF Signal
<1>11. CASE UNCHANGED vars
  BY <1>11 DEF vars
<1> QED
  BY <1>1, <1>2, <1>3, <1>4, <1>5, <1>6, <1>7, <1>8, <1>9, <1>10, <1>11
  DEF Next, GrabJpegFrame, ReadPipe

\* The invariant holds of the stream, whatever goes wrong.
THEOREM StreamCorrect == StreamSpec => []StreamInv
  BY InitInv, StepInv, PTL DEF StreamSpec

\* What getOffset tells GrabJpegFrame is the length of the picture, or the
\* size of the buffer it outgrew, and the reading thread is done with both.
THEOREM PictureCompleteHolds == StreamSpec => []PictureComplete
<1>1. StreamInv => PictureComplete
  BY DEF StreamInv
<1> QED
  BY <1>1, StreamCorrect, PTL

\* A signal that nobody waits for is one of a picture that filled the buffer.
THEOREM MissedSignalHolds == StreamSpec => []MissedSignalOnlyWhenFull
<1>1. StreamInv => MissedSignalOnlyWhenFull
  BY DEF StreamInv
<1> QED
  BY <1>1, StreamCorrect, PTL

\* Only a picture that outgrows the buffer ends the process.
THEOREM AliveIfItFitsHolds == StreamSpec => []AliveIfItFits
<1>1. StreamInv => AliveIfItFits
  BY DEF StreamInv
<1> QED
  BY <1>1, StreamCorrect, PTL
=============================================================================
