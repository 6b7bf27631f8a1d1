------------------------------- MODULE PointerScan -------------------------------
(* The pointer scanner: the search for chains of pointers from a module to an *)
(* address, the rescan that keeps those that still lead somewhere, and the    *)
(* resolution of one chain.  An address is a cell of a pointer's width.       *)
EXTENDS Integers, Positions

CONSTANTS
    SweptRegions,   \* the session's regions: [base, size, readable]
    LoadedModules,  \* its modules: [name, base, size]
    Heaps,          \* what the target may hold to begin with
    Pointers,       \* what it may write later
    Sought,         \* the addresses looked for
    PointerChunk,   \* cells read at a time
    MaxDepth, MaxOffset, MaxChains, MaxFrontier,   \* PointerScanOptions
    MaxJobs,        \* scans and rescans started, at most
    MaxMoves        \* changes of the target, at most

Address == Nat \ {0}
ASSUME PointerAssumption ==
    /\ SweptRegions \in Seq([base : Address, size : Nat, readable : BOOLEAN])
    /\ LoadedModules \in Seq([name : {LoadedModules[k].name : k \in DOMAIN LoadedModules},
                              base : Address, size : Nat])
    /\ \A h \in Heaps : \A a \in DOMAIN h : a \in Address /\ h[a] \in Nat
    /\ Pointers \subseteq Nat /\ Sought \subseteq Address
    /\ MaxDepth \in Nat /\ MaxOffset \in Nat /\ MaxChains \in Nat /\ MaxFrontier \in Nat
    /\ PointerChunk \in Nat \ {0}

VARIABLES
    heap, opened,           \* the target
    stopping, searching,    \* the job's cancel_ and running_
    found, verdict,         \* results_ and status_, guarded by its mutex
    searcher,               \* worker_: the locals of its loops; at counts words of a buffer, or chains
    asker,                  \* the UI thread: in no call, or in cancel()'s join, for what
    jobs, moves,            \* bounds
    earlier, rewritten, cut, looked   \* history: the results as the job began; whether the target was
                            \* rewritten since, was detached from under it, and after how many chains

chainShared == <<stopping, searching, found, verdict>>
chainHistory == <<earlier, rewritten, cut, looked>>
chainVars == <<heap, opened, chainShared, searcher, asker, jobs, moves, chainHistory>>

NoSearch == [pc |-> "gone", target |-> 0, depth |-> 0, region |-> 1, chunk |-> 0, at |-> 0, buffer |-> <<>>,
             frontier |-> <<>>, next |-> <<>>, seen |-> {}, truncated |-> FALSE, chains |-> <<>>, kept |-> <<>>]
NotAsking == [for |-> "none", target |-> 0]

ChainInit ==
    /\ heap \in Heaps /\ opened = TRUE
    /\ stopping = FALSE /\ searching = FALSE /\ found = <<>> /\ verdict = "none"
    /\ searcher = NoSearch /\ asker = NotAsking
    /\ jobs = 0 /\ moves = 0
    /\ earlier = <<>> /\ rewritten = FALSE /\ cut = FALSE /\ looked = 0

Moved == moves < MaxMoves /\ moves' = moves + 1 /\ UNCHANGED <<chainShared, searcher, asker, jobs, earlier>>
HeapMoves ==
    /\ Moved /\ rewritten' = TRUE
    /\ \E a \in DOMAIN heap, p \in Pointers : heap' = [heap EXCEPT ![a] = p]
    /\ UNCHANGED <<opened, cut, looked>>

Midway == searcher.pc \in {"scan", "words", "check"}
Detached ==
    /\ Moved /\ opened /\ opened' = FALSE
    /\ cut' = (cut \/ Midway) /\ looked' = IF Midway THEN searcher.at ELSE looked
    /\ UNCHANGED <<heap, rewritten>>

--------------------------------------------------------------------------------
(* Resolving a chain                                                          *)

Fail == -1

(* Null is no place to go on from.                                            *)
Leads(a) == a \in DOMAIN heap /\ heap[a] # 0

(* Where one ends up from an address, a pointer for every offset.             *)
Followed(start, offsets) ==
    LET hop[i \in 0 .. Len(offsets)] ==
          IF i = 0 THEN start
          ELSE IF Leads(hop[i - 1]) THEN heap[hop[i - 1]] + offsets[i] ELSE Fail
    IN hop[Len(offsets)]

(* The first module of the name, whatever base the chain was found at.        *)
Named(name) == {k \in DOMAIN LoadedModules : LoadedModules[k].name = name}
First(places) == CHOOSE k \in places : \A j \in places : k <= j
EndsAt(chain) ==
    IF Named(chain.module) = {} THEN Fail
    ELSE Followed(LoadedModules[First(Named(chain.module))].base + chain.at, chain.offsets)
ResolveChain(chain) == IF opened THEN EndsAt(chain) ELSE Fail

--------------------------------------------------------------------------------
(* The user: every call first cancels and joins.                              *)

BeginCall(what, target) ==
    /\ asker = NotAsking /\ jobs < MaxJobs /\ jobs' = jobs + 1
    /\ asker' = [for |-> what, target |-> target]
    /\ stopping' = TRUE
    /\ UNCHANGED <<heap, opened, searching, found, verdict, searcher, moves, chainHistory>>

StartSearch ==
    /\ asker.for = "scan" /\ searcher.pc = "gone"
    /\ stopping' = FALSE /\ searching' = TRUE
    /\ found' = <<>> /\ verdict' = "starting"
    /\ searcher' = [NoSearch EXCEPT !.pc = "scan", !.target = asker.target, !.seen = {asker.target},
                                    !.frontier = <<[address |-> asker.target, offsets |-> <<>>]>>]
    /\ asker' = NotAsking
    /\ earlier' = found /\ rewritten' = FALSE /\ cut' = ~opened /\ looked' = 0
    /\ UNCHANGED <<heap, opened, jobs, moves>>

(* Deliberately not cleared: the rescan reads the chains.                     *)
Filter ==
    /\ asker.for = "filter" /\ searcher.pc = "gone"
    /\ stopping' = FALSE /\ searching' = TRUE /\ verdict' = "starting"
    /\ searcher' = [NoSearch EXCEPT !.pc = "filter", !.target = asker.target, !.chains = found]
    /\ asker' = NotAsking
    /\ earlier' = found /\ rewritten' = FALSE /\ cut' = ~opened /\ looked' = 0
    /\ UNCHANGED <<heap, opened, found, jobs, moves>>

Cancelled ==
    /\ asker.for = "cancel" /\ searcher.pc = "gone"
    /\ asker' = NotAsking
    /\ UNCHANGED <<heap, opened, chainShared, searcher, jobs, moves, chainHistory>>

--------------------------------------------------------------------------------
(* The worker: a scan, breadth first from the target backwards.               *)

CellsIn(k) == IF SweptRegions[k].readable THEN SweptRegions[k].size ELSE 0
Swept == searcher.region > Len(SweptRegions)
ChunksLeft == searcher.chunk * PointerChunk < CellsIn(searcher.region)

(* A chunk is read in one go, and a read gives what comes before the first    *)
(* cell that cannot be read: the rest of the chunk is not looked at.          *)
CellAt(k, c, i) == SweptRegions[k].base + c * PointerChunk + i
Readable(k, c) ==
    {i \in 0 .. PointerChunk - 1 :
        \A j \in 0 .. i : c * PointerChunk + j < CellsIn(k) /\ CellAt(k, c, j) \in DOMAIN heap}
Here == CellAt(searcher.region, searcher.chunk, searcher.at)
ModuleOf(a) == {k \in DOMAIN LoadedModules :
                  a \in LoadedModules[k].base .. LoadedModules[k].base + LoadedModules[k].size - 1}

(* A pointer reaches what lies up to MaxOffset after what it points to; the   *)
(* nearest wins, an address being taken once.                                 *)
Reached(p) == {k \in DOMAIN searcher.frontier : searcher.frontier[k].address - p \in 0 .. MaxOffset}
Nearest(p) == CHOOSE k \in Reached(p) : \A j \in Reached(p) :
                  searcher.frontier[k].address <= searcher.frontier[j].address

NoOffset(source, p) == 0                 \* mutant: what lies past the pointer is forgotten
OffsetOf(source, p) == source.address - p

Sweeping == searcher.pc = "scan" /\ ~stopping /\ searcher.depth < MaxDepth
Walking == searcher.pc = "words" /\ ~stopping

(* A candidate for the next depth, and a chain if a module holds it.          *)
PlaceAt(a, p) ==
    LET source == searcher.frontier[Nearest(p)] IN
    [address |-> a, offsets |-> <<OffsetOf(source, p)>> \o source.offsets]
ChainFrom(c) ==
    LET m == LoadedModules[First(ModuleOf(c.address))] IN
    [module |-> m.name, base |-> m.base, at |-> c.address - m.base, offsets |-> c.offsets]

Take(c) ==
    LET static == ModuleOf(c.address) # {}
        room == Len(found) < MaxChains
        deeper == Len(searcher.next) < MaxFrontier IN
    /\ found' = IF static /\ room THEN Append(found, ChainFrom(c)) ELSE found
    /\ searcher' = [searcher EXCEPT
           !.at = @ + 1,
           !.seen = @ \cup {c.address},
           !.next = IF deeper THEN Append(@, c) ELSE @,
           !.truncated = @ \/ ~deeper \/ (static /\ ~room)]

(* Nothing is read once the target is detached from.                          *)
ReadCells ==
    /\ Sweeping /\ ~Swept /\ ChunksLeft
    /\ LET k == searcher.region
           c == searcher.chunk IN
       searcher' = [searcher EXCEPT !.pc = "words", !.at = 0,
                       !.buffer = [i \in IF opened THEN Readable(k, c) ELSE {} |-> heap[CellAt(k, c, i)]]]
    /\ UNCHANGED <<heap, opened, chainShared, asker, jobs, moves, chainHistory>>

VisitCell ==
    /\ Walking /\ searcher.at \in DOMAIN searcher.buffer
    /\ LET p == searcher.buffer[searcher.at] IN
       IF p # 0 /\ Here \notin searcher.seen /\ Reached(p) # {}
       THEN Take(PlaceAt(Here, p))
       ELSE searcher' = [searcher EXCEPT !.at = @ + 1] /\ UNCHANGED found
    /\ UNCHANGED <<heap, opened, stopping, searching, verdict, asker, jobs, moves, chainHistory>>

NextChunk ==
    /\ Walking /\ searcher.at \notin DOMAIN searcher.buffer
    /\ searcher' = [searcher EXCEPT !.pc = "scan", !.chunk = @ + 1, !.at = 0, !.buffer = <<>>]
    /\ UNCHANGED <<heap, opened, chainShared, asker, jobs, moves, chainHistory>>

NextRegion ==
    /\ Sweeping /\ ~Swept /\ ~ChunksLeft
    /\ searcher' = [searcher EXCEPT !.region = @ + 1, !.chunk = 0]
    /\ UNCHANGED <<heap, opened, chainShared, asker, jobs, moves, chainHistory>>

NextDepth ==
    /\ Sweeping /\ Swept /\ searcher.next # <<>>
    /\ searcher' = [searcher EXCEPT !.depth = @ + 1, !.region = 1, !.chunk = 0,
                                    !.frontier = searcher.next, !.next = <<>>]
    /\ UNCHANGED <<heap, opened, chainShared, asker, jobs, moves, chainHistory>>

EndScan ==
    /\ \/ searcher.pc \in {"scan", "words"} /\ stopping
       \/ searcher.pc = "scan" /\ (searcher.depth = MaxDepth \/ (Swept /\ searcher.next = <<>>))
    /\ verdict' = IF stopping THEN "cancelled" ELSE IF searcher.truncated THEN "limit" ELSE "complete"
    /\ searcher' = [searcher EXCEPT !.pc = "leave"]
    /\ UNCHANGED <<heap, opened, stopping, searching, found, asker, jobs, moves, chainHistory>>

EndThread ==
    /\ searcher.pc = "leave"
    /\ searching' = FALSE
    /\ searcher' = [searcher EXCEPT !.pc = "gone"]
    /\ UNCHANGED <<heap, opened, stopping, found, verdict, asker, jobs, moves, chainHistory>>

--------------------------------------------------------------------------------
(* The worker: a rescan.                                                      *)

RefuseFilter ==
    /\ searcher.pc = "filter"
    /\ ~opened \/ searcher.chains = <<>>
    /\ verdict' = "refused"
    /\ searcher' = [searcher EXCEPT !.pc = "leave"]
    /\ UNCHANGED <<heap, opened, stopping, searching, found, asker, jobs, moves, chainHistory>>

BeginFilter ==
    /\ searcher.pc = "filter" /\ opened /\ searcher.chains # <<>>
    /\ searcher' = [searcher EXCEPT !.pc = "check"]
    /\ UNCHANGED <<heap, opened, chainShared, asker, jobs, moves, chainHistory>>

(* How many chains have been looked at is counted in at.                      *)
CheckChain ==
    /\ searcher.pc = "check" /\ ~stopping /\ searcher.at < Len(searcher.chains)
    /\ LET chain == searcher.chains[searcher.at + 1] IN
       searcher' = [searcher EXCEPT !.at = @ + 1,
                       !.kept = IF ResolveChain(chain) = searcher.target THEN Append(@, chain) ELSE @]
    /\ UNCHANGED <<heap, opened, chainShared, asker, jobs, moves, chainHistory>>

EndFilter ==
    /\ searcher.pc = "check"
    /\ stopping \/ searcher.at >= Len(searcher.chains)
    /\ found' = IF stopping THEN found ELSE searcher.kept
    /\ verdict' = IF stopping THEN "kept" ELSE "filtered"
    /\ searcher' = [searcher EXCEPT !.pc = "leave"]
    /\ UNCHANGED <<heap, opened, stopping, searching, asker, jobs, moves, chainHistory>>

--------------------------------------------------------------------------------
Searcher == \/ ReadCells \/ VisitCell \/ NextChunk \/ NextRegion \/ NextDepth \/ EndScan \/ EndThread
            \/ RefuseFilter \/ BeginFilter \/ CheckChain \/ EndFilter
Asker ==
    \/ \E t \in Sought : BeginCall("scan", t) \/ BeginCall("filter", t)
    \/ BeginCall("cancel", 0)
    \/ StartSearch \/ Filter \/ Cancelled
ChainNext == Searcher \/ Asker \/ HeapMoves \/ Detached

ChainSpec == ChainInit /\ [][ChainNext]_chainVars

--------------------------------------------------------------------------------
(* Properties                                                                 *)

(* The words a scan gets to see while it is attached: not those after a hole  *)
(* in their chunk.                                                            *)
WordsIn(k) == UNION {{CellAt(k, c, i) : i \in Readable(k, c)} : c \in 0 .. CellsIn(k)}
SweptWords == UNION {WordsIn(k) : k \in DOMAIN SweptRegions}
LeadsInto(a, places) == Leads(a) /\ \E t \in places : t - heap[a] \in 0 .. MaxOffset

(* What leads to the target in so many pointers or fewer, by definition.      *)
Within(target, hops) ==
    LET within[h \in 0 .. hops] ==
          IF h = 0 THEN {target}
          ELSE within[h - 1] \cup {a \in SweptWords : LeadsInto(a, within[h - 1])}
    IN within[hops]

Root(c) == c.base + c.at
StaticWithin == {a \in Within(searcher.target, MaxDepth) \ {searcher.target} : ModuleOf(a) # {}}

(* However a scan ends, its chains begin at different static addresses that   *)
(* lead to the target within the depth, and resolve to it, unless the module  *)
(* has a namesake; a detach under it does not change that.  If the scan says  *)
(* it is complete and was attached throughout, they begin at all such         *)
(* addresses among the words it gets to see (PointerScanner.cpp:138-251).     *)
ScanHonest ==
    ~searching /\ verdict \in {"complete", "limit", "cancelled"} /\ ~rewritten =>
        /\ \A i, j \in DOMAIN found : Root(found[i]) = Root(found[j]) => i = j
        /\ \A i \in DOMAIN found :
             /\ Root(found[i]) \in StaticWithin
             /\ Cardinality(Named(found[i].module)) = 1 => EndsAt(found[i]) = searcher.target
        /\ verdict = "complete" /\ ~cut => StaticWithin \subseteq {Root(found[i]) : i \in DOMAIN found}

(* A rescan keeps the chains that lead to the new address, and where it was   *)
(* detached from under it, those of them it had looked at by then; cancelled, *)
(* or refused, it leaves them as they were (PointerScanner.cpp:261-338).      *)
RescanHonest ==
    /\ ~searching /\ verdict \in {"kept", "refused"} => found = earlier
    /\ ~searching /\ verdict = "filtered" /\ ~rewritten =>
          found = Picked(earlier, {i \in DOMAIN earlier :
                                     (cut => i <= looked) /\ EndsAt(earlier[i]) = searcher.target})

(* With nothing attached "running the filter anyway would quietly discard a   *)
(* scan that took minutes" (PointerScanner.cpp:270-272): a rescan that says   *)
(* it is complete has dropped only chains that lead elsewhere.  That is asked *)
(* once, before the first chain; a detach later has the others dropped.       *)
RescanDropsOnlyStrays ==
    ~searching /\ verdict = "filtered" /\ ~rewritten =>
        \A i \in DOMAIN earlier :
            EndsAt(earlier[i]) = searcher.target => \E j \in DOMAIN found : found[j] = earlier[i]

(* A rescan of chains keeps those that still lead to the target, and a scan   *)
(* for them finds every one of its depth and no other.                        *)
ChainsHonest == ScanHonest /\ RescanHonest
================================================================================
