SPECIFICATION LiveSpec
CONSTANTS
    None = None
    MaxFrames = 2
    MaxCalls = 2
    Threads = {"a"}
    LateThreads = {"a"}
    Scales = {1, 4}
    Unit = 2
    MaxTime = 2
    MaxSettings = 3
    RescanEvery = 2
INVARIANT RequestsKept
PROPERTIES RequestsEnd StoppedScriptEnds ClockMonotonic DoesAsAsked EntriesKept
\* the window is gone: the program ends
CHECK_DEADLOCK FALSE
