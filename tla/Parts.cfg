SPECIFICATION PartsSpec
CONSTANTS
    Nil = Nil
    None = None
    Absent = Absent
    \* TargetSession
    Targets = {"p1", "p2"}
    Bases = {"b1", "b2"}
    Readers = {"r1", "r2"}
    Keepers = {"window"}
    MaxGeneration = 3
    \* Attachments
    Pids = {"p1", "p2"}
    Doors = {"panel", "tools", "script"}
    \* AutoAssembler
    Scripts = {"s1", "s2"}
    Cells = {"c1", "c2"}
    Texts <- ScriptTexts
    Blocks = {"b1", "b2"}
    PatchIds = {1, 2, 3, 4}
    Faults = {"free"}
    Own = "own"
    UserBytes = "user"
    \* MemoryWrites
    Pages = {1, 2, 3}
    Protections = {"rwx", "rw", "rx"}
    Writable = {"rwx", "rw"}
    \* ShownEntries
    Addrs = {"x", "y"}
    Values = {1}
    MaxId = 1
    MaxEdits = 3
    ResolveEvery = 2
    \* AccessWatch
    Nowhere = Nowhere
    Watched = {"p", "q"}
    Traps = {"t1", "t2", "t3"}
    SlotCount = 2
    MaxSites = 2
    MaxHits = 5
    MaxCalls = 4
    \* Wire
    Messages <- WireRequests
    HeaderLimit = 3
    BodyLimit = 3
    Piece = 2
    MaxSessions = 2
    \* ScanJob
    Digit = 2
    Regions <- ScanRegions
    Memories <- ScanMemories
    ChunkSize = 2
    Jobs <- ScanJobs
    Options <- ScanOptions
    MaxStarts = 2
    MaxChanges = 1
    \* Structures
    Words = {0, 1, 2, 3}
    ZeroWord = 0
    Floats = {1}
    Doubles <- FloatPairs
    Mapped <- PointerPairs
    PointerWords = 2
    Ids = {1, 2}
    Starts <- FieldStarts
    Widths = {0, 1, 2}
    Objects <- LaidOver
    ObjectSize = 3
    \* PointerScan
    SweptRegions <- PointerRegions
    LoadedModules <- PointerModules
    Heaps <- PointerMemories
    PointerChunk = 2
    Pointers = {0, 4}
    Sought = {5}
    MaxDepth = 3
    MaxOffset = 1
    MaxChains = 2
    MaxFrontier = 3
    MaxJobs = 2
    MaxMoves = 1
    \* SymbolTable
    Top = 7
    Size = 2
    Layouts <- ModuleLayouts
    ModuleNames = {"game", "core", "api-ms"}
    Dashed = {"api-ms"}
    ExportsOf <- Exported
    MaxForwarderDepth = 3
    Names = {"hp", "game"}
    FixedAt = {3}
    Offsets = {1}
    MaxTargets = 3
    \* Inputs
    PatternChunk = 2
    MaxListed = 3
    MaxLookback = 3
    ComparedTypes = {"i8", "u8", "i16"}
    MaxText = 4
    PointerBytes = 2
    Sizes = {5, 6}
    MaxRead = 5
    MaxNeedle = 3
    Limits = {1, 9}
    MaxCode = 5
    MaxLength = 3
    \* Calls
    ThreadSets = {{"ui", "server"}, {"ui", "worker"}}
INVARIANTS
    ResultsHonest ChainsHonest
    CachesTellTheTruth LookupsAgree
    ListHonest
    ScriptsWhole
    ToolsMarshalled RefusedChangesNothing
    HeldOfTarget AnswersWhatIsShown
    
    ProtectionsRestored
    ShownIsCurrent
    AlgorithmsSound DissectorSound
PROPERTY StoppedStandsStill
\* some parts end: a job cap reached, a connection closed, a pure input
CHECK_DEADLOCK FALSE
