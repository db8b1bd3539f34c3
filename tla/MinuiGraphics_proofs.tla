------------------------ MODULE MinuiGraphics_proofs ------------------------
(***************************************************************************)
(* Theorems about MinuiGraphics, for any pictures, any set of calls that   *)
(* may fail and any number of failures.                                    *)
(***************************************************************************)
EXTENDS MinuiGraphics, TLAPS

\* Before the first gr_init everything is as at the start of the program.
LEMMA InitInv == Init => GraphicsInv
  <1> SUFFICES ASSUME Init PROVE GraphicsInv
    OBVIOUS
  <1>1. GrTypeOK
    <2>1. faults \in 0 .. MaxFaults
      BY GraphicsAssumption DEF Init
    <2>2. framebuffer \in [{0, 1} -> Pictures \cup {BLACK}]
      BY DEF Init
    <2> QED BY <2>1, <2>2 DEF Init, GrTypeOK
  <1>2. PlaceInv /\ ConsoleInv /\ SurfaceInv /\ ShownInv
    BY DEF Init, PlaceInv, ConsoleInv, SurfaceInv, ShownInv
  <1> QED BY <1>1, <1>2 DEF GraphicsInv

\* What a call that may fail does to the record of failures.
LEMMA FaultKeeps ==
    ASSUME GrTypeOK, NEW kind, Fault(kind) \/ NoFault
    PROVE  /\ everFailed' \subseteq FaultKinds /\ faults' \in 0 .. MaxFaults
           /\ everFailed \subseteq everFailed'
  BY GraphicsAssumption DEF GrTypeOK, Fault, NoFault

\* Every step keeps every variable a value of its kind.
LEMMA StepType == GrTypeOK /\ [Next]_vars => GrTypeOK'
  <1> SUFFICES ASSUME GrTypeOK, [Next]_vars PROVE GrTypeOK'
    OBVIOUS
  <1> USE DEF fds, surface, buffers, display
  <1>1. CASE GrInit
    BY <1>1 DEF GrInit, NoFault, GrTypeOK
  <1>2. CASE OpenConsole
    <2>1. everFailed' \subseteq FaultKinds /\ faults' \in 0 .. MaxFaults
      BY <1>2, FaultKeeps DEF OpenConsole
    <2> QED BY <1>2, <2>1 DEF OpenConsole, GrTypeOK
  <1>3. CASE GetFramebuffer
    <2>1. everFailed' \subseteq FaultKinds /\ faults' \in 0 .. MaxFaults
      BY <1>3, FaultKeeps DEF GetFramebuffer
    <2>2. framebuffer' \in [{0, 1} -> Pictures \cup {BLACK}]
      BY <1>3 DEF GetFramebuffer, GrTypeOK
    <2>3. ~double_buffering' => gr_active_fb' = 0 /\ shown' = 0
      BY <1>3 DEF GetFramebuffer, GrTypeOK
    <2> QED BY <1>3, <2>1, <2>2, <2>3 DEF GetFramebuffer, GrTypeOK
  <1>13. CASE GetMemorySurface
    <2>1. everFailed' \subseteq FaultKinds /\ faults' \in 0 .. MaxFaults
      BY <1>13, FaultKeeps DEF GetMemorySurface
    <2>2. /\ gr_mem_surface' \in {"NULL", "live", "stale"}
          /\ memoryFailed' \in BOOLEAN /\ at' = "show"
      BY <1>13 DEF GetMemorySurface
    <2> QED BY <1>13, <2>1, <2>2 DEF GetMemorySurface, GrTypeOK
  <1>4. CASE ShowFirst
    <2>1. everFailed' \subseteq FaultKinds /\ faults' \in 0 .. MaxFaults
      BY <1>4, FaultKeeps DEF ShowFirst, SetActiveFramebuffer
    <2>2. /\ shown' \in {0, 1} /\ (~double_buffering => shown' = 0)
          /\ swapFailed' \in BOOLEAN
      BY <1>4 DEF ShowFirst, SetActiveFramebuffer, GrTypeOK
    <2> QED BY <1>4, <2>1, <2>2 DEF ShowFirst, GrTypeOK
  <1>5. CASE InitUnblanks
    <2>1. everFailed' \subseteq FaultKinds /\ faults' \in 0 .. MaxFaults
      BY <1>5, FaultKeeps DEF InitUnblanks, Blank
    <2>2. blanked' \in BOOLEAN /\ wantBlank' \in BOOLEAN
      BY <1>5 DEF InitUnblanks, Blank, GrTypeOK
    <2> QED BY <1>5, <2>1, <2>2 DEF InitUnblanks, GrTypeOK
  <1>6. CASE CallExit
    BY <1>6 DEF CallExit, NoFault, GrTypeOK
  <1>7. CASE GrExit
    <2>1. everFailed' \subseteq FaultKinds /\ faults' \in 0 .. MaxFaults
      BY <1>7, FaultKeeps DEF GrExit
    <2>2. gr_mem_surface' \in {"NULL", "live", "stale"}
      BY <1>7 DEF GrExit, GrTypeOK
    <2>3. console' \in {"text", "graphics"} /\ textFailed' \in BOOLEAN
      BY <1>7 DEF GrExit, GrTypeOK
    <2> QED BY <1>7, <2>1, <2>2, <2>3 DEF GrExit, GrTypeOK
  <1>14. CASE FreedAgain \/ DrawOnNull
    BY <1>14 DEF FreedAgain, DrawOnNull, NoFault, GrTypeOK
  <1>8. CASE Draw
    BY <1>8 DEF Draw, NoFault, GrTypeOK
  <1>9. CASE FlipCopies
    <2>1. gr_active_fb' \in {0, 1} /\ (~double_buffering => gr_active_fb' = 0)
      BY <1>9 DEF FlipCopies, GrTypeOK
    <2>2. framebuffer' \in [{0, 1} -> Pictures \cup {BLACK}]
      BY <1>9, <2>1 DEF FlipCopies, GrTypeOK
    <2> QED BY <1>9, <2>1, <2>2 DEF FlipCopies, NoFault, GrTypeOK
  <1>10. CASE FlipSwaps
    <2>1. everFailed' \subseteq FaultKinds /\ faults' \in 0 .. MaxFaults
      BY <1>10, FaultKeeps DEF FlipSwaps, SetActiveFramebuffer
    <2>2. /\ shown' \in {0, 1} /\ (~double_buffering => shown' = 0)
          /\ swapFailed' \in BOOLEAN
      BY <1>10 DEF FlipSwaps, SetActiveFramebuffer, GrTypeOK
    <2> QED BY <1>10, <2>1, <2>2 DEF FlipSwaps, GrTypeOK
  <1>11. CASE CallBlank
    <2>1. everFailed' \subseteq FaultKinds /\ faults' \in 0 .. MaxFaults
      BY <1>11, FaultKeeps DEF CallBlank, Blank
    <2> QED BY <1>11, <2>1 DEF CallBlank, Blank, GrTypeOK
  <1>12. CASE UNCHANGED vars
    BY <1>12 DEF vars, GrTypeOK
  <1> QED
    BY <1>1, <1>2, <1>3, <1>4, <1>5, <1>6, <1>7, <1>8, <1>9, <1>10, <1>11,
       <1>12, <1>13, <1>14 DEF Next

\* Every step keeps GraphicsInv.
LEMMA StepInv == GraphicsInv /\ [Next]_vars => GraphicsInv'
  <1> SUFFICES ASSUME GraphicsInv, [Next]_vars PROVE GraphicsInv'
    OBVIOUS
  <1>0. GrTypeOK' /\ GrTypeOK
    BY StepType DEF GraphicsInv
  <1> USE <1>0 DEF GraphicsInv, PlaceInv, fds, surface, buffers, display
  <1>1. CASE GrInit \/ CallExit
    BY <1>1 DEF GrInit, CallExit, NoFault, ConsoleInv, SurfaceInv, ShownInv
  <1>2. CASE OpenConsole
    <2>1. everFailed \subseteq everFailed'
      BY <1>2, FaultKeeps DEF OpenConsole
    <2> QED
      BY <1>2, <2>1 DEF OpenConsole, ConsoleInv, SurfaceInv, ShownInv
  <1>3. CASE GetFramebuffer
    <2>1. everFailed \subseteq everFailed'
      BY <1>3, FaultKeeps DEF GetFramebuffer
    <2> QED
      BY <1>3, <2>1 DEF GetFramebuffer, ConsoleInv, SurfaceInv, ShownInv
  <1>12. CASE GetMemorySurface
    <2>1. everFailed \subseteq everFailed'
      BY <1>12, FaultKeeps DEF GetMemorySurface
    <2> QED
      BY <1>12, <2>1 DEF GetMemorySurface, ConsoleInv, SurfaceInv, ShownInv
  <1>4. CASE ShowFirst
    <2>1. everFailed \subseteq everFailed'
      BY <1>4, FaultKeeps DEF ShowFirst, SetActiveFramebuffer
    <2>2. swapFailed' => "swap" \in everFailed'
      BY <1>4 DEF ShowFirst, SetActiveFramebuffer, Fault
    <2>3. ~swapFailed' => shown' = gr_active_fb'
      BY <1>4 DEF ShowFirst, SetActiveFramebuffer, GrTypeOK
    <2>4. framebuffer'[gr_active_fb'] = flipped'
      BY <1>4 DEF ShowFirst, ShownInv, GrTypeOK
    <2> QED
      BY <1>4, <2>1, <2>2, <2>3, <2>4
         DEF ShowFirst, ConsoleInv, SurfaceInv, ShownInv
  <1>5. CASE InitUnblanks
    <2>1. everFailed \subseteq everFailed'
      BY <1>5, FaultKeeps DEF InitUnblanks, Blank
    <2>2. "blank" \notin everFailed' => blanked' = wantBlank'
      BY <1>5 DEF InitUnblanks, Blank, Fault
    <2> QED
      BY <1>5, <2>1, <2>2 DEF InitUnblanks, Blank, ConsoleInv, SurfaceInv, ShownInv
  <1>6. CASE GrExit
    <2>1. everFailed \subseteq everFailed'
      BY <1>6, FaultKeeps DEF GrExit
    <2>2. ConsoleInv'
      BY <1>6 DEF GrExit, ConsoleInv, GrTypeOK
    <2>3. SurfaceInv'
      BY <1>6 DEF GrExit, SurfaceInv, GrTypeOK
    <2> QED
      BY <1>6, <2>1, <2>2, <2>3 DEF GrExit, ShownInv
  <1>13. CASE FreedAgain \/ DrawOnNull
    BY <1>13 DEF FreedAgain, DrawOnNull, NoFault, ConsoleInv, SurfaceInv, ShownInv
  <1>7. CASE Draw
    BY <1>7 DEF Draw, NoFault, ConsoleInv, SurfaceInv, ShownInv
  <1>8. CASE FlipCopies
    <2>1. framebuffer'[gr_active_fb'] = flipped'
      BY <1>8 DEF FlipCopies, GrTypeOK
    <2> QED
      BY <1>8, <2>1 DEF FlipCopies, NoFault, ConsoleInv, SurfaceInv, ShownInv
  <1>9. CASE FlipSwaps
    <2>1. everFailed \subseteq everFailed'
      BY <1>9, FaultKeeps DEF FlipSwaps, SetActiveFramebuffer
    <2>2. swapFailed' => "swap" \in everFailed'
      BY <1>9 DEF FlipSwaps, SetActiveFramebuffer, Fault
    <2>3. ~swapFailed' => shown' = gr_active_fb'
      BY <1>9 DEF FlipSwaps, SetActiveFramebuffer, GrTypeOK
    <2> QED
      BY <1>9, <2>1, <2>2, <2>3 DEF FlipSwaps, ConsoleInv, SurfaceInv, ShownInv
  <1>10. CASE CallBlank
    <2>1. everFailed \subseteq everFailed'
      BY <1>10, FaultKeeps DEF CallBlank, Blank
    <2>2. "blank" \notin everFailed' => blanked' = wantBlank'
      BY <1>10 DEF CallBlank, Blank, Fault
    <2> QED
      BY <1>10, <2>1, <2>2 DEF CallBlank, Blank, ConsoleInv, SurfaceInv, ShownInv
  <1>11. CASE UNCHANGED vars
    BY <1>11 DEF vars, ConsoleInv, SurfaceInv, ShownInv
  <1> QED
    BY <1>1, <1>2, <1>3, <1>4, <1>5, <1>6, <1>7, <1>8, <1>9, <1>10, <1>11,
       <1>12, <1>13 DEF Next

\* The inductive invariant holds, whichever of the calls in FaultKinds fail
\* and however often, allocation and the switch back to text mode among them.
THEOREM GraphicsCorrect == GraphicsSpec => []GraphicsInv
  BY InitInv, StepInv, PTL DEF GraphicsSpec

\* The user sees the last picture flipped, on a display powered as asked.
THEOREM ScreenShowsLastFlipHolds == GraphicsSpec => []ScreenShowsLastFlip
  <1>1. GraphicsInv => ScreenShowsLastFlip
    BY DEF GraphicsInv, ShownInv, ScreenShowsLastFlip
  <1> QED BY <1>1, GraphicsCorrect, PTL

\* Every error path of gr_init, and gr_exit, gives the descriptors back, and
\* the console unless the switch back to text mode failed.
THEOREM ConsoleRestoredHolds == GraphicsSpec => []ConsoleRestored
  <1>1. GraphicsInv => ConsoleRestored
    BY DEF GraphicsInv, GrTypeOK, ConsoleInv, ConsoleRestored
  <1> QED BY <1>1, GraphicsCorrect, PTL

\* A ready interface has the memory its own gr_init allocated, if any; the
\* process is lost only by drawing after an allocation that failed, or by a
\* gr_init that fails after a gr_exit and frees again what that one freed.
THEOREM FreedOnceHolds == GraphicsSpec => []FreedOnce
  <1>1. GraphicsInv => FreedOnce
    BY DEF GraphicsInv, PlaceInv, SurfaceInv, FreedOnce
  <1> QED BY <1>1, GraphicsCorrect, PTL

\* Until a swap fails, no picture is copied into the half on the screen.
THEOREM NoTearingHolds == GraphicsSpec => NoTearing
  <1>1. GraphicsInv /\ [Next]_vars =>
          [at = "idle" /\ at' = "swap" /\ double_buffering
             /\ "swap" \notin everFailed =>
               framebuffer'[shown] = framebuffer[shown] /\ gr_active_fb' # shown]_vars
    <2> SUFFICES ASSUME GraphicsInv, Next, at = "idle", at' = "swap",
                        double_buffering, "swap" \notin everFailed
                 PROVE  framebuffer'[shown] = framebuffer[shown] /\ gr_active_fb' # shown
      OBVIOUS
    <2>1. FlipCopies
      BY DEF Next, GrInit, OpenConsole, GetFramebuffer, GetMemorySurface,
             ShowFirst, InitUnblanks, CallExit, GrExit, FreedAgain, Draw,
             DrawOnNull, FlipSwaps, CallBlank
    <2>2. shown = gr_active_fb /\ shown \in {0, 1}
      BY <2>1 DEF GraphicsInv, GrTypeOK, PlaceInv, ShownInv, FlipCopies
    <2>3. gr_active_fb' # shown
      BY <2>1, <2>2 DEF FlipCopies
    <2> QED
      BY <2>1, <2>2, <2>3 DEF FlipCopies, GraphicsInv, GrTypeOK
  <1> QED BY <1>1, GraphicsCorrect, PTL DEF GraphicsSpec, NoTearing
=============================================================================
