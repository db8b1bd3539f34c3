SPECIFICATION GraphicsSpec
CONSTANTS
    Pictures = {1, 2}
    FaultKinds = {"tty", "graphics", "framebuffer", "memory", "swap", "blank", "text"}
    MaxFaults = 3
INVARIANTS
    ScreenShowsLastFlip
    ConsoleRestored
    FreedOnce
PROPERTIES
    NoTearing
CHECK_DEADLOCK FALSE
