--------------------------- MODULE MinuiGraphics ---------------------------
(***************************************************************************)
(* recovery/graphics.c: the display of the recovery user interface.  The   *)
(* interface draws into a surface in memory; gr_flip copies that to the    *)
(* half of the framebuffer that is not shown and asks the driver to show   *)
(* it.  gr_init and gr_exit take and give back the console, the            *)
(* framebuffer's descriptor and the memory surface, all of them static     *)
(* variables that outlive a gr_exit.                                       *)
(*                                                                         *)
(* One thread makes the calls; `at' is where a call is that has steps the  *)
(* driver or a failure comes between.  A picture is a number, 0 is black.  *)
(* The font and the pixels of a drawing call are left out.  A process that *)
(* writes through a NULL surface is gone, and one that frees a surface     *)
(* twice may be.                                                           *)
(***************************************************************************)
EXTENDS Naturals

CONSTANTS
    Pictures,    \* what the interface draws
    FaultKinds,  \* the calls that may fail
    MaxFaults    \* bound: failing calls in one behaviour

BLACK == 0
Faults == {"tty", "graphics", "framebuffer", "memory", "swap", "blank", "text"}

ASSUME GraphicsAssumption ==
    /\ Pictures \subseteq Nat \ {BLACK}
    /\ FaultKinds \subseteq Faults /\ MaxFaults \in Nat

VARIABLES
    at,                \* the call in progress: "idle" between calls, and
                       \* "crashed" when the process is gone
    ready,             \* gr_init returned 0 and gr_exit was not called since
    gr_fb_fd, gr_vt_fd,
    console,           \* mode of the console on tty0
    gr_mem_surface,    \* its data: NULL, allocated, or a stale pointer
    drawn,             \* picture in the memory surface
    twoScreens,        \* smem_len has room for two screens
    double_buffering,
    gr_active_fb,
    shown,             \* half of the framebuffer the display shows
    framebuffer,       \* picture in each half
    blanked,           \* the display is powered down
    flipped,           \* history: picture of the last gr_flip
    wantBlank,         \* history: what gr_fb_blank was last asked for
    swapFailed,        \* history: the last swap failed
    memoryFailed,      \* history: the last allocation of the surface failed
    textFailed,        \* history: the last switch back to text mode failed
    exited,            \* history: the interface has called gr_exit
    everFailed,        \* history: the kinds of faults there were
    faults

fds == <<gr_fb_fd, gr_vt_fd, console>>
buffers == <<double_buffering, gr_active_fb, framebuffer, twoScreens>>
surface == <<gr_mem_surface, memoryFailed, drawn>>
display == <<shown, blanked, flipped, wantBlank, swapFailed>>
vars == <<at, ready, fds, surface, buffers, display, textFailed, exited,
          everFailed, faults>>

\* Every variable holds a value of its kind.
GrTypeOK ==
    /\ at \in {"idle", "tty", "fb", "memory", "show", "unblank", "exit",
              "swap", "crashed"}
    /\ ready \in BOOLEAN
    /\ gr_fb_fd \in {"closed", "open"} /\ gr_vt_fd \in {"closed", "open"}
    /\ console \in {"text", "graphics"}
    /\ gr_mem_surface \in {"NULL", "live", "stale"}
    /\ drawn \in Pictures \cup {BLACK} /\ flipped \in Pictures \cup {BLACK}
    /\ twoScreens \in BOOLEAN /\ double_buffering \in BOOLEAN
    /\ gr_active_fb \in {0, 1} /\ shown \in {0, 1}
    /\ ~double_buffering => gr_active_fb = 0 /\ shown = 0
    /\ framebuffer \in [{0, 1} -> Pictures \cup {BLACK}]
    /\ blanked \in BOOLEAN /\ wantBlank \in BOOLEAN
    /\ swapFailed \in BOOLEAN /\ memoryFailed \in BOOLEAN
    /\ textFailed \in BOOLEAN /\ exited \in BOOLEAN
    /\ everFailed \subseteq FaultKinds /\ faults \in 0 .. MaxFaults

Init ==
    /\ at = "idle" /\ ready = FALSE
    /\ gr_fb_fd = "closed" /\ gr_vt_fd = "closed" /\ console = "text"
    /\ gr_mem_surface = "NULL" /\ drawn = BLACK
    /\ twoScreens \in BOOLEAN
    /\ double_buffering = FALSE /\ gr_active_fb = 0 /\ shown = 0
    /\ framebuffer = [n \in {0, 1} |-> BLACK]
    /\ blanked = FALSE /\ flipped = BLACK /\ wantBlank = FALSE
    /\ swapFailed = FALSE /\ memoryFailed = FALSE
    /\ textFailed = FALSE /\ exited = FALSE
    /\ everFailed = {} /\ faults = 0

\* A call fails.
Fault(kind) ==
    /\ kind \in FaultKinds /\ faults < MaxFaults
    /\ faults' = faults + 1
    /\ everFailed' = everFailed \cup {kind}
NoFault == UNCHANGED <<faults, everFailed>>

----------------------------------------------------------------------------
(* gr_init.                                                                *)

GrInit ==
    /\ at = "idle" /\ ~ready
    /\ at' = "tty"
    /\ UNCHANGED <<ready, fds, surface, buffers, display, textFailed, exited>>
    /\ NoFault

\* The console.  Without tty0 the display works all the same; when it is
\* there, the switch to graphics has to work.
OpenConsole ==
    /\ at = "tty"
    /\ \/ Fault("tty") /\ at' = "fb" /\ UNCHANGED <<gr_vt_fd, console>>
       \/ /\ gr_vt_fd' = "open"
          /\ \/ console' = "graphics" /\ at' = "fb" /\ NoFault
             \/ Fault("graphics") /\ at' = "exit" /\ UNCHANGED console
    /\ UNCHANGED <<ready, gr_fb_fd, surface, buffers, display, textFailed,
                   exited>>

\* get_framebuffer: any of its five calls may fail, and it closes what it
\* opened.  It clears each half it finds; double_buffering is only ever set.
GetFramebuffer ==
    /\ at = "fb"
    /\ \/ /\ Fault("framebuffer") /\ at' = "exit"
          /\ UNCHANGED <<gr_fb_fd, framebuffer, double_buffering>>
       \/ /\ gr_fb_fd' = "open"
          /\ framebuffer' = [n \in {0, 1} |-> BLACK]
          /\ double_buffering' = (double_buffering \/ twoScreens)
          /\ at' = "memory" /\ NoFault
    /\ UNCHANGED <<ready, gr_vt_fd, console, surface, twoScreens, gr_active_fb,
                   display, textFailed, exited>>

\* Mutant: memory that a pointer is there for is not allocated again.
GetMemorySurface_Reuses ==
    /\ at = "memory"
    /\ gr_mem_surface' = IF gr_mem_surface = "NULL" THEN "live"
                                              ELSE gr_mem_surface
    /\ memoryFailed' = FALSE /\ NoFault
    /\ drawn' = BLACK
    /\ gr_active_fb' = 0
    /\ at' = "show"
    /\ UNCHANGED <<ready, fds, double_buffering, twoScreens, framebuffer,
                   display, textFailed, exited>>

\* get_memory_surface, over whatever pointer is there.  Nobody looks whether
\* there was memory.  Nothing sets its content, which is called black here.
GetMemorySurface ==
    /\ at = "memory"
    /\ \/ gr_mem_surface' = "live" /\ memoryFailed' = FALSE /\ NoFault
       \/ gr_mem_surface' = "NULL" /\ memoryFailed' = TRUE /\ Fault("memory")
    /\ drawn' = BLACK
    /\ gr_active_fb' = 0
    /\ at' = "show"
    /\ UNCHANGED <<ready, fds, double_buffering, twoScreens, framebuffer,
                   display, textFailed, exited>>

\* set_active_framebuffer: does nothing without double buffering; a failing
\* ioctl is logged.
SetActiveFramebuffer ==
    \/ UNCHANGED shown /\ ~double_buffering /\ swapFailed' = FALSE /\ NoFault
    \/ double_buffering /\ shown' = gr_active_fb /\ swapFailed' = FALSE /\ NoFault
    \/ double_buffering /\ Fault("swap") /\ swapFailed' = TRUE /\ UNCHANGED shown

ShowFirst ==
    /\ at = "show"
    /\ SetActiveFramebuffer
    /\ flipped' = BLACK
    /\ at' = "unblank"
    /\ UNCHANGED <<ready, fds, surface, buffers, blanked, wantBlank, textFailed,
                   exited>>

\* gr_fb_blank: powers the display down or up, or the ioctl fails.
Blank(b) ==
    /\ wantBlank' = b
    /\ \/ blanked' = b /\ NoFault
       \/ Fault("blank") /\ UNCHANGED blanked

\* Mutant: the display is powered up and then down.
InitUnblanks_Swapped ==
    /\ at = "unblank"
    /\ blanked' = TRUE
    /\ wantBlank' = FALSE /\ NoFault
    /\ at' = "idle" /\ ready' = TRUE
    /\ UNCHANGED <<fds, surface, buffers, shown, flipped, swapFailed,
                   textFailed, exited>>

\* gr_init powers the display down and up again; each of the two may fail,
\* which is the outcome of Blank(FALSE) or leaves the display down.
InitUnblanks ==
    /\ at = "unblank"
    /\ \/ Blank(FALSE)
       \/ Fault("blank") /\ blanked' = TRUE /\ wantBlank' = FALSE
    /\ at' = "idle" /\ ready' = TRUE
    /\ UNCHANGED <<fds, surface, buffers, shown, flipped, swapFailed,
                   textFailed, exited>>

----------------------------------------------------------------------------
(* gr_exit, called by the interface or by a gr_init that fails.            *)

CallExit ==
    /\ at = "idle" /\ ready
    /\ at' = "exit" /\ exited' = TRUE
    /\ UNCHANGED <<ready, fds, surface, buffers, display, textFailed>>
    /\ NoFault

\* Mutant: the console stays in graphics mode when there is no framebuffer.
GrExit_KeepsConsole ==
    /\ at = "exit"
    /\ gr_fb_fd' = "closed" /\ gr_vt_fd' = "closed"
    /\ console' = IF gr_fb_fd = "open" THEN "text" ELSE console
    /\ gr_mem_surface' = IF gr_mem_surface = "NULL" THEN "NULL" ELSE "stale"
    /\ at' = "idle" /\ ready' = FALSE
    /\ NoFault
    /\ UNCHANGED <<memoryFailed, drawn, buffers, display, textFailed, exited>>

\* The memory is freed and its pointer kept; a switch back to text mode that
\* fails is not noticed.  The mapping of the framebuffer is not given back.
GrExit ==
    /\ at = "exit"
    /\ gr_fb_fd' = "closed" /\ gr_vt_fd' = "closed"
    /\ \/ /\ console' = IF gr_vt_fd = "open" THEN "text" ELSE console
          /\ textFailed' = (textFailed /\ gr_vt_fd = "closed")
          /\ NoFault
       \/ /\ gr_vt_fd = "open" /\ Fault("text")
          /\ textFailed' = TRUE /\ UNCHANGED console
    /\ gr_mem_surface' = IF gr_mem_surface = "NULL" THEN "NULL" ELSE "stale"
    /\ at' = "idle" /\ ready' = FALSE
    /\ UNCHANGED <<memoryFailed, drawn, buffers, display, exited>>

\* gr_exit frees a pointer that was freed before: anything may follow, and
\* what is likely next to what GrExit does is that the process is stopped.
FreedAgain ==
    /\ at = "exit" /\ gr_mem_surface = "stale"
    /\ at' = "crashed"
    /\ UNCHANGED <<ready, fds, surface, buffers, display, textFailed, exited>>
    /\ NoFault

----------------------------------------------------------------------------
(* The calls of an interface that is ready.                                *)

\* gr_color, gr_text, gr_texticon, gr_fill and gr_blit.
Draw ==
    /\ at = "idle" /\ ready /\ gr_mem_surface # "NULL"
    /\ drawn' \in Pictures
    /\ UNCHANGED <<at, ready, fds, gr_mem_surface, memoryFailed, buffers,
                   display, textFailed, exited>>
    /\ NoFault

\* The same, and gr_flip, without memory.
DrawOnNull ==
    /\ at = "idle" /\ ready /\ gr_mem_surface = "NULL"
    /\ at' = "crashed"
    /\ UNCHANGED <<ready, fds, surface, buffers, display, textFailed, exited>>
    /\ NoFault

\* Mutant: the half that is shown is drawn and shown again.
FlipCopies_NoToggle ==
    /\ at = "idle" /\ ready /\ gr_mem_surface # "NULL"
    /\ framebuffer' = [framebuffer EXCEPT ![gr_active_fb] = drawn]
    /\ flipped' = drawn
    /\ at' = "swap"
    /\ UNCHANGED <<ready, fds, surface, double_buffering, gr_active_fb,
                   twoScreens, shown, blanked, wantBlank, swapFailed,
                   textFailed, exited>>
    /\ NoFault

\* gr_flip: the other half becomes the active one and gets the picture.
FlipCopies ==
    /\ at = "idle" /\ ready /\ gr_mem_surface # "NULL"
    /\ gr_active_fb' = IF double_buffering THEN 1 - gr_active_fb ELSE gr_active_fb
    /\ framebuffer' = [framebuffer EXCEPT ![gr_active_fb'] = drawn]
    /\ flipped' = drawn
    /\ at' = "swap"
    /\ UNCHANGED <<ready, fds, surface, double_buffering, twoScreens, shown,
                   blanked, wantBlank, swapFailed, textFailed, exited>>
    /\ NoFault

\* gr_flip: the driver is told.
FlipSwaps ==
    /\ at = "swap"
    /\ SetActiveFramebuffer
    /\ at' = "idle"
    /\ UNCHANGED <<ready, fds, surface, buffers, blanked, flipped, wantBlank,
                   textFailed, exited>>

\* The interface calls gr_fb_blank.
CallBlank ==
    /\ at = "idle" /\ ready
    /\ \E b \in BOOLEAN : Blank(b)
    /\ UNCHANGED <<at, ready, fds, surface, buffers, shown, flipped, swapFailed,
                   textFailed, exited>>

Next ==
    \/ GrInit \/ OpenConsole \/ GetFramebuffer \/ GetMemorySurface
    \/ ShowFirst \/ InitUnblanks \/ CallExit \/ GrExit \/ FreedAgain
    \/ Draw \/ DrawOnNull \/ FlipCopies \/ FlipSwaps \/ CallBlank

GraphicsSpec == Init /\ [][Next]_vars

----------------------------------------------------------------------------
(* Properties.                                                             *)

\* Between two calls the user sees the picture of the last gr_flip, however
\* many swaps have failed before, once a swap works again; and the display is
\* powered as it was asked to be.
ScreenShowsLastFlip ==
    at = "idle" /\ ready =>
        /\ ~swapFailed => framebuffer[shown] = flipped
        /\ "blank" \notin everFailed => blanked = wantBlank

\* With two buffers a picture is never copied into the half on the screen,
\* unless a swap has failed.
NoTearing ==
    [][at = "idle" /\ at' = "swap" /\ double_buffering
         /\ "swap" \notin everFailed =>
            framebuffer'[shown] = framebuffer[shown] /\ gr_active_fb' # shown]_vars

\* Whichever call of gr_init failed, and after gr_exit, both descriptors are
\* closed and the console is back in text mode, unless the last switch back,
\* whose result gr_exit does not look at, failed.
ConsoleRestored ==
    at = "idle" /\ ~ready =>
        /\ gr_fb_fd = "closed" /\ gr_vt_fd = "closed"
        /\ console = "text" \/ textFailed

\* An interface that is ready draws on, and gr_exit frees, the memory its own
\* gr_init allocated, if there was any.  So the process is lost only by an
\* interface that draws after an allocation that failed, which gr_init does
\* not tell it, or in a gr_init that fails after a gr_exit and frees again
\* what that one freed.
FreedOnce ==
    /\ ready => gr_mem_surface = IF memoryFailed THEN "NULL" ELSE "live"
    /\ at = "crashed" => IF ready THEN memoryFailed ELSE exited

\* Why they hold.  The console is in graphics mode only while its descriptor
\* is there to change it back, or that has failed; gr_exit is reached by an
\* interface that is ready, with its own memory, or with what an earlier
\* gr_exit left; and the half that the code believes shown has the last
\* picture, and is shown unless a swap failed.
PlaceInv == /\ at \in {"tty", "fb", "memory", "show", "unblank"} => ~ready
            /\ at = "swap" => ready
            /\ swapFailed => "swap" \in everFailed
ConsoleInv == /\ console = "graphics" => gr_vt_fd = "open" \/ textFailed
              /\ at = "tty" \/ (at = "idle" /\ ~ready) =>
                     gr_fb_fd = "closed" /\ gr_vt_fd = "closed"
SurfaceInv == /\ ready \/ at \in {"show", "unblank"} =>
                     gr_mem_surface = IF memoryFailed THEN "NULL" ELSE "live"
              /\ ~ready /\ at \notin {"show", "unblank"} =>
                     gr_mem_surface # "live"
              /\ gr_mem_surface = "stale" \/ (at = "exit" /\ ready) => exited
              /\ at = "crashed" => IF ready THEN memoryFailed ELSE exited
ShownInv == /\ at \in {"memory", "show"} =>
                   framebuffer = [n \in {0, 1} |-> BLACK]
            /\ ready \/ at = "unblank" =>
                   /\ framebuffer[gr_active_fb] = flipped
                   /\ ~swapFailed /\ at # "swap" => shown = gr_active_fb
            /\ ready /\ "blank" \notin everFailed => blanked = wantBlank
GraphicsInv == GrTypeOK /\ PlaceInv /\ ConsoleInv /\ SurfaceInv /\ ShownInv
=============================================================================
