SPECIFICATION Spec
CONSTANTS
    t1 = t1
    t2 = t2
    t3 = t3
    a1 = a1
    a2 = a2
    a3 = a3
    f1 = f1
    None = None
    Threads = {t1, t2}
    SwAddrs = {a1}
    HwAddrs = {}
    OwnInt3 = {}
    SlotCount = 0
    Executes <- Shared
    ReaddSteppedOver = FALSE
    Faults = {}
    DrainExpires = FALSE
INVARIANTS Int3Owned
