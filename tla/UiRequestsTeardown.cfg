SPECIFICATION Spec
CONSTANTS
    MaxFrames = 2
    MaxCalls = 1
INVARIANT TeardownAlone
CHECK_DEADLOCK FALSE
