SPECIFICATION FairSpec
CONSTANTS
    t1 = t1
    t2 = t2
    t3 = t3
    a1 = a1
    a2 = a2
    a3 = a3
    f1 = f1
    None = None
    Threads = {t1, t2}
    SwAddrs = {a1, a2}
    HwAddrs = {}
    OwnInt3 = {}
    SlotCount = 0
    Executes <- Private
    ReaddSteppedOver = FALSE
    Faults = {}
    DrainExpires = TRUE
PROPERTIES RearmedEventually DetachReturns TrappedThreadsGetPast
