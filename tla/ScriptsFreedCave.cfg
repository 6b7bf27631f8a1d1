SPECIFICATION AssemblerSpec
CONSTANTS
    s1 = s1
    s2 = s2
    c1 = c1
    c2 = c2
    b1 = b1
    b2 = b2
    Own = Own
    UserBytes = UserBytes
    Nil = Nil
    Scripts = {s1, s2}
    Cells = {c1, c2}
    Texts <- Plain
    Blocks = {b1, b2}
    PatchIds = {1, 2, 3, 4}
    Faults = {"write"}
INVARIANT JumpLandsInCave
