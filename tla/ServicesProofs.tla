---------------------------- MODULE ServicesProofs -----------------------------
(* Proofs about the services behind the panels: the session, its caches and   *)
(* the owners of state about the attached process, for any number of          *)
(* processes, readers and copies and any ways to attach; the address list     *)
(* with the window's copy of it, for any rows, values and edits; the access   *)
(* watch, for any addresses, debug registers, room in its list, hits and      *)
(* calls; and the speed hack, for any threads, modules, rates and units.      *)
EXTENDS TargetSession, Attachments, ShownEntries, AccessWatch, Speed, FiniteSetTheorems, TLAPS

(* The session and the caches: TargetSession                                  *)

Processes == Targets \cup {Absent}
Places == Bases \cup {Absent}
ReaderStates ==
    [pc : {"idle", "generation", "cache", "parse"}, generation : Nat, base : Places, from : SUBSET Processes]
CopyStates == [pc : {"idle", "copy"}, generation : Nat, base : Places]

SessionTyped ==
    /\ loaded \in [Targets -> Places]
    /\ session \in [pid : Processes, base : Places, generation : Nat]
    /\ opening \in Processes
    /\ reader \in [Readers -> ReaderStates]
    /\ copies \in [Keepers -> CopyStates]
    /\ exportCache = [generation |-> exportCache.generation, entries |-> exportCache.entries]
    /\ exportCache.generation \in Nat

(* Nothing is kept with a generation the session has not come to.             *)
NoneAhead ==
    /\ exportCache.generation <= session.generation
    /\ \A r \in Readers : reader[r].generation <= session.generation
    /\ \A k \in Keepers : copies[k].generation <= session.generation

(* A thread that is parsing and would store has read the attached process     *)
(* alone; and the cache it will add to is of its generation or empty: a       *)
(* slower thread may have emptied it for an older one meanwhile.              *)
ParsesOfNow ==
    \A r \in Readers :
      reader[r].pc \in {"cache", "parse"} /\ reader[r].generation = session.generation =>
        /\ reader[r].from \subseteq {session.pid}
        /\ reader[r].pc = "parse" =>
             exportCache.generation = session.generation \/ DOMAIN exportCache.entries = {}

(* A thread that has not read the generation has parsed nothing.              *)
NothingYet == \A r \in Readers : reader[r].pc = "generation" => reader[r].from = {}

SessionInv == SessionTyped /\ NoneAhead /\ ParsesOfNow /\ NothingYet /\ CachesTellTheTruth

LEMMA SessionInitially ==
    ASSUME SessionAssumption
    PROVE  SessionInit => SessionInv
<1> SUFFICES ASSUME SessionInit PROVE SessionInv
  OBVIOUS
<1>1. (CHOOSE b \in Bases : TRUE) \in Bases
  BY DEF SessionAssumption
<1>2. SessionTyped
  BY <1>1 DEF SessionInit, SessionTyped, Processes, Places, ReaderStates, CopyStates, AtRest, Copy
<1>3. NoneAhead /\ ParsesOfNow /\ NothingYet /\ CachesTellTheTruth
  BY DEF SessionInit, NoneAhead, ParsesOfNow, NothingYet, CachesTellTheTruth, CopyTrue, AtRest, Copy
<1> QED
  BY <1>2, <1>3 DEF SessionInv

(* A new generation: everything kept is of an older one.                      *)
LEMMA TakeKeeps ==
    ASSUME SessionInv, NEW pid \in Processes, TakeTables(pid), UNCHANGED <<loaded, derived>>,
           opening' \in Processes
    PROVE  SessionInv'
<1>1. /\ session' \in [pid : Processes, base : Places, generation : Nat]
      /\ session'.generation = session.generation + 1
  BY DEF TakeTables, BaseIn, SessionInv, SessionTyped, Processes, Places
<1>2. SessionTyped'
  BY <1>1 DEF SessionInv, SessionTyped, derived
<1>3. /\ exportCache.generation < session'.generation
      /\ \A r \in Readers : reader[r].generation < session'.generation
      /\ \A k \in Keepers : copies[k].generation < session'.generation
  BY <1>1 DEF SessionInv, SessionTyped, NoneAhead, ReaderStates, CopyStates
<1>4. NoneAhead' /\ ParsesOfNow' /\ NothingYet' /\ CachesTellTheTruth'
  BY <1>1, <1>3 DEF SessionInv, SessionTyped, NoneAhead, ParsesOfNow, NothingYet, CachesTellTheTruth, CopyTrue, derived,
                    ReaderStates, CopyStates
<1> QED
  BY <1>2, <1>4 DEF SessionInv

(* What does not touch the session or what is kept of it.                     *)
LEMMA OutsideKeeps ==
    ASSUME SessionInv, loaded' \in [Targets -> Places], opening' \in Processes, UNCHANGED <<session, derived>>
    PROVE  SessionInv'
BY DEF SessionInv, SessionTyped, NoneAhead, ParsesOfNow, NothingYet, CachesTellTheTruth, CopyTrue, derived

(* A thread goes on, the cache being left alone.                              *)
LEMMA ReaderKeeps ==
    ASSUME SessionInv, NEW r \in Readers, NEW next \in ReaderStates, reader' = [reader EXCEPT ![r] = next],
           UNCHANGED <<loaded, session, opening, exportCache, copies>>,
           next.generation <= session.generation, next.pc = "generation" => next.from = {},
           next.pc \in {"cache", "parse"} /\ next.generation = session.generation =>
             /\ next.from \subseteq {session.pid}
             /\ next.pc = "parse" =>
                  exportCache.generation = session.generation \/ DOMAIN exportCache.entries = {}
    PROVE  SessionInv'
<1>1. SessionTyped'
  BY DEF SessionInv, SessionTyped
<1>2. NoneAhead' /\ ParsesOfNow' /\ NothingYet'
  BY DEF SessionInv, SessionTyped, NoneAhead, ParsesOfNow, NothingYet
<1>3. CachesTellTheTruth'
  BY DEF SessionInv, CachesTellTheTruth, CopyTrue
<1> QED
  BY <1>1, <1>2, <1>3 DEF SessionInv

LEMMA IdleIsAReader == /\ AtRest \in ReaderStates /\ AtRest.pc = "idle" /\ AtRest.generation = 0
BY DEF AtRest, ReaderStates, Places

LEMMA LookUpModuleKeeps ==
    ASSUME SessionInv, NEW r \in Readers, LookUpModule(r)
    PROVE  SessionInv'
<1> DEFINE next == [pc |-> "generation", generation |-> 0, base |-> session.base, from |-> {}]
<1>1. session.base \in Places /\ session.generation \in Nat
  BY DEF SessionInv, SessionTyped
<1>2. next \in ReaderStates /\ next.generation <= session.generation
  BY <1>1 DEF ReaderStates
<1>3. reader' = [reader EXCEPT ![r] = next] /\ UNCHANGED <<loaded, session, opening, exportCache, copies>>
  BY DEF LookUpModule
<1>4. ~ next.pc \in {"cache", "parse"} /\ next.from = {}
  OBVIOUS
<1> HIDE DEF next
<1> QED
  BY <1>2, <1>3, <1>4, ReaderKeeps

(* The answer found in the cache, or none at all: the thread is done.         *)
LEMMA DoneKeeps ==
    ASSUME SessionInv, NEW r \in Readers, reader' = [reader EXCEPT ![r] = AtRest],
           UNCHANGED <<loaded, session, opening, exportCache, copies>>
    PROVE  SessionInv'
<1>1. AtRest.generation <= session.generation
  BY IdleIsAReader DEF SessionInv, SessionTyped
<1>2. ~ AtRest.pc \in {"generation", "cache", "parse"}
  BY IdleIsAReader
<1> QED
  BY <1>1, <1>2, IdleIsAReader, ReaderKeeps

LEMMA ReadGenerationKeeps ==
    ASSUME SessionInv, NEW r \in Readers, ReadGeneration(r)
    PROVE  SessionInv'
<1> USE DEF ReadGeneration
<1>1. CASE session.pid = Absent
  BY <1>1, DoneKeeps
<1>2. CASE session.pid # Absent
  <2> DEFINE next == [reader[r] EXCEPT !.pc = "cache", !.generation = session.generation]
  <2>1. /\ reader[r] \in ReaderStates /\ session.generation \in Nat /\ reader[r].from = {}
    BY DEF SessionInv, SessionTyped, NothingYet
  <2>2. next \in ReaderStates /\ next.generation = session.generation /\ next.pc = "cache" /\ next.from = {}
    BY <2>1 DEF ReaderStates
  <2>3. reader' = [reader EXCEPT ![r] = next] /\ UNCHANGED <<loaded, session, opening, exportCache, copies>>
    BY <1>2 DEF SessionInv, SessionTyped
  <2>4. next.generation <= session.generation
    BY <2>1, <2>2
  <2> HIDE DEF next
  <2> QED
    BY <2>2, <2>3, <2>4, ReaderKeeps
<1> QED
  BY <1>1, <1>2

LEMMA ParseSomeKeeps ==
    ASSUME SessionInv, NEW r \in Readers, ParseSome(r)
    PROVE  SessionInv'
<1> USE DEF ParseSome
<1>1. CASE session.pid = Absent \/ loaded[session.pid] # reader[r].base
  BY <1>1, DoneKeeps DEF SessionInv, SessionTyped
<1>2. CASE ~(session.pid = Absent \/ loaded[session.pid] # reader[r].base)
  <2> DEFINE next == [reader[r] EXCEPT !.from = @ \cup {session.pid}]
  <2>1. reader[r] \in ReaderStates /\ session.pid \in Processes /\ reader[r].pc = "parse"
    BY DEF SessionInv, SessionTyped
  <2>2. /\ next \in ReaderStates /\ next.generation = reader[r].generation /\ next.pc = "parse"
        /\ next.from = reader[r].from \cup {session.pid}
    BY <2>1 DEF ReaderStates
  <2>3. reader' = [reader EXCEPT ![r] = next] /\ UNCHANGED <<loaded, session, opening, exportCache, copies>>
    BY <1>2
  <2>4. next.generation <= session.generation
    BY <2>2 DEF SessionInv, NoneAhead
  <2>5. next.generation = session.generation =>
          /\ next.from \subseteq {session.pid}
          /\ exportCache.generation = session.generation \/ DOMAIN exportCache.entries = {}
    BY <2>1, <2>2 DEF SessionInv, ParsesOfNow
  <2> HIDE DEF next
  <2> QED
    BY <2>2, <2>3, <2>4, <2>5, ReaderKeeps
<1> QED
  BY <1>1, <1>2

LEMMA LookInCacheKeeps ==
    ASSUME SessionInv, NEW r \in Readers, LookInCache(r)
    PROVE  SessionInv'
<1> DEFINE next == [reader[r] EXCEPT !.pc = "parse"]
<1>1. /\ reader[r] \in ReaderStates /\ reader[r].pc = "cache" /\ session.generation \in Nat
      /\ reader[r].generation \in Nat /\ reader[r].generation <= session.generation
  BY DEF LookInCache, SessionInv, SessionTyped, NoneAhead, ReaderStates
<1>2. /\ next \in ReaderStates /\ next.generation = reader[r].generation
      /\ next.pc = "parse" /\ next.from = reader[r].from
  BY <1>1 DEF ReaderStates
<1>3. CASE exportCache.generation # reader[r].generation
  <2> DEFINE none == [b \in {} |-> Absent]
  <2>1. /\ exportCache' = [generation |-> reader[r].generation, entries |-> none]
        /\ reader' = [reader EXCEPT ![r] = next]
        /\ UNCHANGED <<loaded, session, opening, copies>>
    BY <1>3 DEF LookInCache, SessionInv, SessionTyped
  <2>2. DOMAIN none = {}
    OBVIOUS
  <2> HIDE DEF next, none
  <2>3. exportCache'.generation = reader[r].generation /\ DOMAIN exportCache'.entries = {}
    BY <2>1, <2>2
  <2>4. SessionTyped'
    BY <1>1, <1>2, <2>1 DEF SessionInv, SessionTyped
  <2>5. NoneAhead' /\ NothingYet'
    BY <1>1, <1>2, <2>1, <2>3 DEF SessionInv, SessionTyped, NoneAhead, NothingYet
  <2>6. ParsesOfNow'
    BY <1>1, <1>2, <2>1, <2>3 DEF SessionInv, SessionTyped, ParsesOfNow
  <2>7. CachesTellTheTruth'
    BY <2>1, <2>3 DEF SessionInv, CachesTellTheTruth, CopyTrue
  <2> QED
    BY <2>4, <2>5, <2>6, <2>7 DEF SessionInv
<1>4. CASE exportCache.generation = reader[r].generation /\ reader[r].base \in DOMAIN exportCache.entries
  BY <1>4, DoneKeeps DEF LookInCache, SessionInv, SessionTyped
<1>5. CASE exportCache.generation = reader[r].generation /\ reader[r].base \notin DOMAIN exportCache.entries
  <2>1. reader' = [reader EXCEPT ![r] = next] /\ UNCHANGED <<loaded, session, opening, exportCache, copies>>
    BY <1>5 DEF LookInCache, SessionInv, SessionTyped
  <2>2. next.generation = session.generation =>
          /\ next.from \subseteq {session.pid} /\ exportCache.generation = session.generation
    BY <1>1, <1>2, <1>5 DEF SessionInv, ParsesOfNow
  <2> HIDE DEF next
  <2> QED
    BY <1>1, <1>2, <2>1, <2>2, ReaderKeeps
<1> QED
  BY <1>3, <1>4, <1>5

(* Stored only while the session is still where it was, so all that was read  *)
(* is the attached process's.                                                 *)
LEMMA StoreExportsKeeps ==
    ASSUME SessionInv, NEW r \in Readers, StoreExports(r)
    PROVE  SessionInv'
<1>1. CASE ~ StillCurrent(r)
  BY <1>1, DoneKeeps DEF StoreExports
<1>2. CASE StillCurrent(r)
  <2> DEFINE with == [b \in DOMAIN exportCache.entries \cup {reader[r].base} |->
                        IF b = reader[r].base THEN reader[r].from ELSE exportCache.entries[b]]
  <2>1. /\ exportCache' = [generation |-> reader[r].generation, entries |-> with]
        /\ reader' = [reader EXCEPT ![r] = AtRest]
        /\ UNCHANGED <<loaded, session, opening, copies>>
        /\ session.generation = reader[r].generation
        /\ reader[r].pc = "parse" /\ reader[r].from # {}
    BY <1>2 DEF StoreExports, StillCurrent
  <2>2. reader[r].from = {session.pid}
    BY <2>1 DEF SessionInv, ParsesOfNow
  <2>3. \A b \in DOMAIN with : with[b] = {session.pid}
    BY <2>1, <2>2 DEF SessionInv, ParsesOfNow, CachesTellTheTruth
  <2> HIDE DEF with
  <2>4. exportCache'.generation = session.generation /\ exportCache'.entries = with
    BY <2>1
  <2>5. SessionTyped'
    BY <2>1, <2>4, IdleIsAReader DEF SessionInv, SessionTyped
  <2>6. NoneAhead' /\ NothingYet' /\ ParsesOfNow'
    BY <2>1, <2>4, IdleIsAReader DEF SessionInv, SessionTyped, NoneAhead, NothingYet, ParsesOfNow
  <2>7. CachesTellTheTruth'
    BY <2>1, <2>3, <2>4 DEF SessionInv, CachesTellTheTruth, CopyTrue
  <2> QED
    BY <2>5, <2>6, <2>7 DEF SessionInv
<1> QED
  BY <1>1, <1>2

LEMMA RefreshCopyKeeps ==
    ASSUME SessionInv, NEW k \in Keepers, RefreshCopy(k)
    PROVE  SessionInv'
<1> DEFINE next == IF copies[k].pc = "copy" THEN Copied(copies[k]) ELSE Seen(copies[k])
<1>1. copies[k] \in CopyStates /\ session.generation \in Nat /\ session.base \in Places
  BY DEF SessionInv, SessionTyped
<1>2. /\ next \in CopyStates /\ next.generation <= session.generation
      /\ next.pc = "idle" => next.base = session.base
  BY <1>1 DEF CopyStates, Copied, Seen, SessionInv, NoneAhead
<1>3. copies' = [copies EXCEPT ![k] = next] /\ UNCHANGED <<loaded, session, opening, exportCache, reader>>
  BY DEF RefreshCopy, SessionInv, SessionTyped
<1> HIDE DEF next
<1>4. SessionTyped'
  BY <1>2, <1>3 DEF SessionInv, SessionTyped
<1>5. NoneAhead' /\ NothingYet' /\ ParsesOfNow'
  BY <1>2, <1>3 DEF SessionInv, SessionTyped, NoneAhead, NothingYet, ParsesOfNow
<1>6. CachesTellTheTruth'
  BY <1>2, <1>3 DEF SessionInv, SessionTyped, CachesTellTheTruth, CopyTrue
<1> QED
  BY <1>4, <1>5, <1>6 DEF SessionInv

LEMMA SessionStep ==
    ASSUME SessionInv, [SessionNext]_sessionVars
    PROVE  SessionInv'
<1>1. ASSUME NEW pid \in Targets, OpenProcess(pid) PROVE SessionInv'
  BY <1>1, OutsideKeeps DEF OpenProcess, SessionInv, SessionTyped, Processes
<1>2. ASSUME NEW pid \in Targets, ModuleMoves(pid) PROVE SessionInv'
  <2>1. loaded' \in [Targets -> Places] /\ opening' \in Processes
    BY <1>2 DEF ModuleMoves, SessionInv, SessionTyped, Places
  <2> QED
    BY <1>2, <2>1, OutsideKeeps DEF ModuleMoves
<1>3. ASSUME Attach PROVE SessionInv'
  <2>1. opening \in Processes /\ Absent \in Processes
    BY DEF SessionInv, SessionTyped, Processes
  <2> QED
    BY <1>3, <2>1, TakeKeeps DEF Attach
<1>4. ASSUME Detach PROVE SessionInv'
  <2>1. opening \in Processes /\ Absent \in Processes
    BY DEF SessionInv, SessionTyped, Processes
  <2> QED
    BY <1>4, <2>1, TakeKeeps DEF Detach
<1>5. ASSUME Refresh PROVE SessionInv'
  <2>1. opening \in Processes /\ session.pid \in Processes
    BY DEF SessionInv, SessionTyped
  <2> QED
    BY <1>5, <2>1, TakeKeeps DEF Refresh
<1>6. ASSUME NEW r \in Readers,
             LookUpModule(r) \/ ReadGeneration(r) \/ LookInCache(r) \/ ParseSome(r) \/ StoreExports(r)
      PROVE  SessionInv'
  BY <1>6, LookUpModuleKeeps, ReadGenerationKeeps, LookInCacheKeeps, ParseSomeKeeps, StoreExportsKeeps
<1>7. ASSUME NEW k \in Keepers, RefreshCopy(k) PROVE SessionInv'
  BY <1>7, RefreshCopyKeeps
<1>8. ASSUME UNCHANGED sessionVars PROVE SessionInv'
  <2>1. UNCHANGED <<loaded, session, opening, derived>>
    BY <1>8 DEF sessionVars, derived
  <2> QED
    BY <2>1, OutsideKeeps DEF SessionInv, SessionTyped
<1> QED
  BY <1>1, <1>2, <1>3, <1>4, <1>5, <1>6, <1>7, <1>8 DEF SessionNext

(* Whatever is kept with the session's generation is of the session: the      *)
(* window's and the dissector's copies, and every export table the resolver   *)
(* would answer from (ExportResolver::exports), however many threads parse    *)
(* while others attach, refresh and detach.                                   *)
THEOREM NothingKeptIsStale ==
    ASSUME SessionAssumption
    PROVE  SessionSpec => []CachesTellTheTruth
<1>1. SessionInit => SessionInv
  BY SessionInitially
<1>2. SessionInv /\ [SessionNext]_sessionVars => SessionInv'
  BY SessionStep
<1>3. SessionInv => CachesTellTheTruth
  BY DEF SessionInv
<1> QED
  BY <1>1, <1>2, <1>3, PTL DEF SessionSpec

--------------------------------------------------------------------------------
(* The owners: Attachments                                                    *)

(* A detach under way has taken the owners apart as far as it has come, and   *)
(* nothing the user does puts one together again before it is through; but    *)
(* scripts only if the question counted them.                                 *)
NoScripts == held["scripts"] = Nothing \/ uncounted
TakenApart ==
    /\ step \in {"speed", "pump", "patches", "session"} => NoScripts
    /\ step \in {"pump", "patches", "session"} => held["speed"] = Nothing
    /\ step \in {"patches", "session"} => held["pump"] = Nothing
    /\ step = "session" => held["patches"] = Nothing
Counted == Uncounting => NoScripts
OwnersTyped == target \in Pids \cup {Nothing} /\ held \in [Owners -> Pids \cup {Nothing}]

OwnersInv == OwnersTyped /\ TakenApart /\ Counted /\ AnswersWhatIsShown /\ HeldOfTarget
(* What is asked about is a process, or nothing.                              *)
PidAsked == pending.pid \in Pids \cup {Nothing} /\ (pending.what = "attach" => pending.pid \in Pids)

LEMMA OwnersInitially == AttachmentsInit => OwnersInv /\ PidAsked
BY DEF AttachmentsInit, OwnersInv, OwnersTyped, TakenApart, Counted, NoScripts, Uncounting, HeldOfTarget,
       AnswersWhatIsShown, NoQuestion, Nothing, PidAsked

(* A session replaced under what is held is noted.                            *)
LEMMA SwapKeeps ==
    ASSUME OwnersInv, NEW pid \in Pids \cup {Nothing}, SwapSession(pid), UNCHANGED <<held, step, dialog, uncounted>>
    PROVE  OwnersInv'
BY DEF SwapSession, OwnersInv, OwnersTyped, TakenApart, Counted, NoScripts, Uncounting, HeldOfTarget,
       AnswersWhatIsShown, dialog

(* An owner that is idle takes the session's process, and no detach is under  *)
(* way then.                                                                  *)
LEMMA AcquireKeeps ==
    ASSUME OwnersInv, NEW owner \in Owners \ {"scripts"}, Acquire(owner), target # Nothing, step = Nothing,
           UNCHANGED <<target, step, dialog, apart, uncounted>>
    PROVE  OwnersInv'
<1> DEFINE pid == IF held[owner] = Nothing THEN target ELSE held[owner]
<1>1. held' = [held EXCEPT ![owner] = pid] /\ pid \in Pids \cup {Nothing}
  BY DEF Acquire, Keep, OwnersInv, OwnersTyped
<1>2. OwnersTyped' /\ \A o \in Owners : held'[o] = IF o = owner THEN pid ELSE held[o]
  BY <1>1 DEF OwnersInv, OwnersTyped
<1>3. HeldOfTarget'
  BY <1>2 DEF OwnersInv, HeldOfTarget
<1>4. NoScripts' = NoScripts
  BY <1>2 DEF NoScripts, Owners
<1> QED
  BY <1>2, <1>3, <1>4 DEF OwnersInv, TakenApart, Counted, Uncounting, AnswersWhatIsShown, Nothing, dialog

LEMMA EnableScriptKeeps == ASSUME OwnersInv, EnableScript PROVE OwnersInv'
<1>1. /\ step = Nothing /\ step' = Nothing /\ target' = target /\ target # Nothing
      /\ held' = [held EXCEPT !["scripts"] = target]
      /\ uncounted' = Uncounting /\ UNCHANGED <<pending, screen, apart>>
  BY DEF EnableScript, Acquire, Keep, Usable, Ui, dialog
<1>2. OwnersTyped' /\ \A o \in Owners : held'[o] = IF o = "scripts" THEN target ELSE held[o]
  BY <1>1 DEF OwnersInv, OwnersTyped
<1>3. HeldOfTarget'
  BY <1>1, <1>2 DEF OwnersInv, HeldOfTarget
<1> QED
  BY <1>1, <1>2, <1>3 DEF OwnersInv, TakenApart, Counted, NoScripts, Uncounting, AnswersWhatIsShown, Nothing

(* Letting go of an owner cannot hurt, whatever it is noted for.              *)
LEMMA DropKeeps ==
    ASSUME OwnersInv, NEW owner \in Owners, Drop(owner), UNCHANGED <<target, dialog>>,
           uncounted' = uncounted \/ owner = "scripts"
    PROVE  /\ OwnersTyped' /\ HeldOfTarget' /\ Counted' /\ AnswersWhatIsShown'
           /\ NoScripts => NoScripts'
           /\ \A o \in Owners : held'[o] = IF o = owner THEN Nothing ELSE held[o]
<1>1. held' = [held EXCEPT ![owner] = Nothing] /\ apart' = apart \ {owner}
  BY DEF Drop, Keep
<1>2. OwnersTyped' /\ \A o \in Owners : held'[o] = IF o = owner THEN Nothing ELSE held[o]
  BY <1>1 DEF OwnersInv, OwnersTyped
<1>3. HeldOfTarget'
  BY <1>1, <1>2 DEF OwnersInv, HeldOfTarget
<1>4. NoScripts => NoScripts'
  BY <1>2 DEF NoScripts, Owners
<1> QED
  BY <1>2, <1>3, <1>4 DEF OwnersInv, Counted, Uncounting, AnswersWhatIsShown, dialog

(* What the user does to one owner he does in the session's process.          *)
LEMMA UseKeeps ==
    ASSUME OwnersInv,
           AddBreakpoint \/ ApplyPatch \/ RemovePatch \/ EnableScript \/ DisableScript \/ SetSpeed
    PROVE  OwnersInv'
<1>1. CASE AddBreakpoint
  BY <1>1, AcquireKeeps DEF AddBreakpoint, Usable, Ui, histories, Owners
<1>2. CASE ApplyPatch
  BY <1>2, AcquireKeeps DEF ApplyPatch, Usable, Ui, histories, Owners
<1>3. CASE SetSpeed
  BY <1>3, AcquireKeeps DEF SetSpeed, Usable, Ui, Owners
<1>4. CASE RemovePatch \/ DisableScript
  <2>1. step = Nothing /\ step' = Nothing
    BY <1>4 DEF RemovePatch, DisableScript, Usable, Ui
  <2>2. OwnersTyped' /\ HeldOfTarget' /\ Counted' /\ AnswersWhatIsShown'
    BY <1>4, DropKeeps DEF RemovePatch, DisableScript, Owners
  <2> QED
    BY <2>1, <2>2 DEF OwnersInv, TakenApart, Nothing
<1> QED
  BY <1>1, <1>2, <1>3, <1>4, EnableScriptKeeps

(* A step of the detach lets go of an owner.                                  *)
LEMMA DetachKeeps ==
    ASSUME OwnersInv, DisableScripts \/ ResetSpeed \/ DetachDebugger \/ ForgetAll
    PROVE  OwnersInv'
<1>1. ForgetAll => Drop("patches")
  BY DEF ForgetAll, Forgotten, Drop
<1>2. PICK owner \in Owners : /\ Drop(owner) /\ UNCHANGED <<target, dialog>>
                              /\ uncounted' = uncounted \/ owner = "scripts"
                              /\ step \in {"scripts", "speed", "pump", "patches"}
                              /\ step = "scripts" => owner = "scripts" /\ step' = "speed"
                              /\ step = "speed" => owner = "speed" /\ step' = "pump"
                              /\ step = "pump" => owner = "pump" /\ step' = "patches"
                              /\ step = "patches" => owner = "patches" /\ step' = "session"
  BY <1>1 DEF DisableScripts, ResetSpeed, DetachDebugger, ForgetAll, Owners
<1>3. /\ OwnersTyped' /\ HeldOfTarget' /\ Counted' /\ AnswersWhatIsShown'
      /\ NoScripts => NoScripts'
      /\ \A o \in Owners : held'[o] = IF o = owner THEN Nothing ELSE held[o]
  BY <1>2, DropKeeps
<1>4. TakenApart'
  <2>1. NoScripts'
    BY <1>2, <1>3 DEF OwnersInv, TakenApart, NoScripts
  <2>2. {"pump", "patches", "scripts", "speed"} = Owners
    BY DEF Owners
  <2> QED
    BY <1>2, <1>3, <2>1, <2>2 DEF OwnersInv, TakenApart
<1> QED
  BY <1>3, <1>4 DEF OwnersInv

(* Its last step leaves no owner anything, but the scripts one that the       *)
(* question did not count.                                                    *)
LEMMA DetachSessionKeeps == ASSUME OwnersInv, DetachSession PROVE OwnersInv'
<1>1. /\ held["pump"] = Nothing /\ held["patches"] = Nothing /\ held["speed"] = Nothing
      /\ held["scripts"] = Nothing \/ uncounted
  BY DEF DetachSession, OwnersInv, TakenApart, NoScripts
<1>2. target' = Nothing /\ step' = Nothing /\ UNCHANGED <<held, pending, screen, apart, uncounted>>
  BY DEF DetachSession, histories, dialog
<1>3. HeldOfTarget'
  BY <1>1, <1>2 DEF HeldOfTarget, Owners
<1>4. OwnersTyped' /\ TakenApart' /\ Counted' /\ AnswersWhatIsShown'
  BY <1>2 DEF OwnersInv, OwnersTyped, TakenApart, Counted, NoScripts, Uncounting, AnswersWhatIsShown,
              Nothing
<1> QED
  BY <1>3, <1>4 DEF OwnersInv

(* The panel: asking counts the scripts there are, and what is confirmed      *)
(* begins a detach.                                                           *)
LEMMA PanelKeeps ==
    ASSUME OwnersInv, RequestDetach \/ Show \/ Cancel \/ ConfirmDetach
    PROVE  OwnersInv'
<1>1. UNCHANGED <<target, held, apart, uncounted>>
  BY DEF RequestDetach, Show, Cancel, ConfirmDetach, histories
<1>2. OwnersTyped' /\ HeldOfTarget' /\ NoScripts' = NoScripts
  BY <1>1 DEF OwnersInv, OwnersTyped, HeldOfTarget, NoScripts
<1>3. Counted'
  <2>1. CASE RequestDetach
    <3>1. pending' = pending \/ pending' = Question("detach", Nothing)
      BY <2>1 DEF RequestDetach, ConfirmAction
    <3>2. CASE pending' = pending
      BY <1>2, <3>2 DEF OwnersInv, Counted, Uncounting
    <3>3. CASE pending' = Question("detach", Nothing)
      BY <1>2, <3>3 DEF Question, Counted, NoScripts, Uncounting
    <3> QED
      BY <3>1, <3>2, <3>3
  <2>2. CASE Show
    BY <1>2, <2>2 DEF Show, OwnersInv, Counted, Uncounting
  <2>3. CASE Cancel \/ ConfirmDetach
    BY <2>3 DEF Cancel, ConfirmDetach, Counted, Uncounting, NoQuestion, Nothing
  <2> QED
    BY <2>1, <2>2, <2>3
<1>4. AnswersWhatIsShown'
  BY DEF RequestDetach, ConfirmAction, Show, Cancel, ConfirmDetach, OwnersInv, AnswersWhatIsShown
<1>5. TakenApart'
  <2>1. CASE RequestDetach
    BY <1>1, <2>1 DEF RequestDetach, Warnings, Owners, OwnersInv, TakenApart, NoScripts, Ui, Nothing
  <2>2. CASE Show \/ Cancel
    BY <1>1, <2>2 DEF Show, Cancel, Ui, OwnersInv, TakenApart, NoScripts, Nothing
  <2>3. CASE ConfirmDetach
    BY <1>1, <1>2, <2>3 DEF ConfirmDetach, OwnersInv, TakenApart, Counted, Uncounting
  <2> QED
    BY <2>1, <2>2, <2>3
<1> QED
  BY <1>2, <1>3, <1>4, <1>5 DEF OwnersInv

LEMMA ConfirmAttachKeeps == ASSUME OwnersInv, PidAsked, ConfirmAttach PROVE OwnersInv'
<1>1. /\ step = Nothing /\ step' = Nothing /\ screen' = NoQuestion /\ uncounted' = uncounted
      /\ pending.pid \in Pids \cup {Nothing}
  BY DEF ConfirmAttach, Ui, PidAsked
<1>2. TakenApart' /\ AnswersWhatIsShown'
  BY <1>1 DEF TakenApart, AnswersWhatIsShown, Nothing
<1>3. CASE Warnings
  <2>1. /\ held' = held /\ pending' = Question("detach", Nothing)
        /\ SwapSession(pending.pid) \/ UNCHANGED <<target, apart>>
    BY <1>3 DEF ConfirmAttach
  <2>2. OwnersTyped' /\ HeldOfTarget'
    BY <1>1, <2>1 DEF SwapSession, OwnersInv, OwnersTyped, HeldOfTarget
  <2>3. Counted'
    BY <1>1, <2>1 DEF Counted, Uncounting, Question, NoScripts
  <2> QED
    BY <1>2, <2>2, <2>3 DEF OwnersInv
<1>4. CASE ~Warnings
  <2>1. /\ held' = [held EXCEPT !["speed"] = Nothing] /\ pending' = NoQuestion
        /\ target' \in {Nothing, pending.pid}
    BY <1>4 DEF ConfirmAttach, Drop, Keep
  <2>2. \A o \in Owners : held'[o] = Nothing
    BY <1>4, <2>1 DEF Warnings, OwnersInv, OwnersTyped
  <2>3. OwnersTyped' /\ HeldOfTarget'
    BY <1>1, <2>1, <2>2 DEF OwnersInv, OwnersTyped, HeldOfTarget
  <2>4. Counted'
    BY <2>1 DEF Counted, Uncounting, NoQuestion, Nothing
  <2> QED
    BY <1>2, <2>3, <2>4 DEF OwnersInv
<1> QED
  BY <1>3, <1>4

LEMMA AttachKeeps == ASSUME OwnersInv, NEW pid \in Pids, AttachTo(pid) PROVE OwnersInv'
<1>1. CASE target \in {Nothing, pid}
  BY <1>1, SwapKeeps DEF AttachTo, dialog
<1>2. CASE target \notin {Nothing, pid}
  <2>1. /\ UNCHANGED <<target, held, step, screen, apart, uncounted>>
        /\ pending' = IF pending = NoQuestion THEN Question("attach", pid) ELSE pending
    BY <1>2 DEF AttachTo, ConfirmAction
  <2>2. OwnersTyped' /\ TakenApart' /\ HeldOfTarget' /\ NoScripts' = NoScripts
    BY <2>1 DEF OwnersInv, OwnersTyped, TakenApart, NoScripts, HeldOfTarget
  <2>3. Uncounting' => Uncounting
    BY <2>1 DEF Uncounting, Question
  <2>4. AnswersWhatIsShown'
    BY <2>1 DEF OwnersInv, AnswersWhatIsShown
  <2> QED
    BY <2>2, <2>3, <2>4 DEF OwnersInv, Counted
<1> QED
  BY <1>1, <1>2

LEMMA AskedStep == PidAsked /\ [AttachmentsNext]_attachments => PidAsked'
<1> SUFFICES ASSUME PidAsked, [AttachmentsNext]_attachments PROVE PidAsked'
  OBVIOUS
<1>1. CASE RequestDetach \/ ConfirmAttach
  BY <1>1 DEF RequestDetach, ConfirmAttach, ConfirmAction, Question, NoQuestion, Nothing, PidAsked
<1>2. CASE Cancel \/ ConfirmDetach
  BY <1>2 DEF Cancel, ConfirmDetach, NoQuestion, Nothing, PidAsked
<1>3. ASSUME NEW pid \in Pids, AttachTo(pid) PROVE PidAsked'
  BY <1>3 DEF AttachTo, ConfirmAction, Question, PidAsked
<1>4. CASE UNCHANGED pending
  BY <1>4 DEF PidAsked
<1>5. (\/ AddBreakpoint \/ ApplyPatch \/ RemovePatch \/ EnableScript \/ DisableScript \/ SetSpeed
       \/ ToolAttach \/ ToolDetach \/ DisableScripts \/ ResetSpeed \/ DetachDebugger \/ ForgetAll
       \/ DetachSession \/ Show \/ UNCHANGED attachments) => UNCHANGED pending
  BY DEF AddBreakpoint, ApplyPatch, RemovePatch, EnableScript, DisableScript, SetSpeed, ToolAttach,
         ToolDetach, DisableScripts, ResetSpeed, DetachDebugger, ForgetAll, DetachSession, Show,
         attachments, dialog
<1> QED
  BY <1>1, <1>2, <1>3, <1>4, <1>5 DEF AttachmentsNext

LEMMA OwnersStep == OwnersInv /\ PidAsked /\ [AttachmentsNext]_attachments => OwnersInv' /\ PidAsked'
<1> SUFFICES ASSUME OwnersInv, PidAsked, [AttachmentsNext]_attachments PROVE OwnersInv'
  BY AskedStep
<1>1. CASE ToolAttach \/ ToolDetach
  BY <1>1, SwapKeeps DEF ToolAttach, ToolDetach
<1>2. CASE UNCHANGED attachments
  BY <1>2 DEF attachments, dialog, OwnersInv, OwnersTyped, TakenApart, Counted, NoScripts, Uncounting,
              HeldOfTarget, AnswersWhatIsShown
<1> QED
  BY <1>1, <1>2, UseKeeps, DetachKeeps, DetachSessionKeeps, PanelKeeps, ConfirmAttachKeeps, AttachKeeps
  DEF AttachmentsNext

(* The pump, the patches, the scripts and the speed controller act on the     *)
(* session's process, and a whole detach leaves them nothing of another; but  *)
(* for an owner under whom the session was replaced, and a script switched on *)
(* behind a question that counted none (UiApp.cpp, requestDetach).            *)
THEOREM OwnersHoldTarget == AttachmentsSpec => []HeldOfTarget
<1>1. OwnersInv => HeldOfTarget
  BY DEF OwnersInv
<1> QED
  BY <1>1, OwnersInitially, OwnersStep, PTL DEF AttachmentsSpec

(* An answer is to the question the user has read: no tool that asks while    *)
(* the dialog is open puts another in its place (UiApp.cpp, confirmAction).   *)
THEOREM AnswerIsToTheQuestion == AttachmentsSpec => []AnswersWhatIsShown
<1>1. OwnersInv => AnswersWhatIsShown
  BY DEF OwnersInv
<1> QED
  BY <1>1, OwnersInitially, OwnersStep, PTL DEF AttachmentsSpec

--------------------------------------------------------------------------------
(* The address list: AddressEntries, ShownEntries                             *)

(* What a row, the list, the freezer's snapshot and an edit are.              *)
RowsTyped(rows) == \A i \in DOMAIN rows : rows[i] \in Entries

EntriesTyped ==
    /\ RowsTyped(entries) /\ RowsTyped(freezer.snap)
    /\ user.entry \in Entries
    /\ points \in Addrs \cup {None}
    /\ freezer = [pc |-> freezer.pc, tick |-> freezer.tick, snap |-> freezer.snap]
    /\ user = [pc |-> user.pc, id |-> user.id, entry |-> user.entry]

(* Ids are given out once: no row has the next one, so that a row added never *)
(* takes the place of one the freezer has in its snapshot.                    *)
IdsBehind == nextId \in Int /\ \A i \in DOMAIN entries : i \in Int /\ i < nextId

(* What is left of the freezer's snapshot is the list, but for what the user  *)
(* has touched.                                                               *)
SnapshotHolds == \A i \in DOMAIN Rest \ edited : i \in DOMAIN entries /\ Rest[i] = entries[i]

ListInv == EntriesTyped /\ IdsBehind /\ SnapshotHolds

LEMMA NoEntryTyped == NoEntry \in Entries
BY DEF NoEntry, Entries

(* Every way the user changes a row leaves a row.                             *)
LEMMA ChangedTyped ==
    ASSUME NEW e \in Entries, NEW new \in Changed(e)
    PROVE  new \in Entries
BY DEF Changed, Frozen, ReadNow, Entries

(* A row tracked by a chain stays one.                                        *)
LEMMA FollowingTyped ==
    ASSUME NEW e \in Entries, points \in Addrs \cup {None}
    PROVE  Following(e) \in Entries
BY DEF Following, Entries

(* The freezer's two writes touch the fields that are its own.                *)
LEMMA FreezerFields ==
    ASSUME NEW e \in Entries
    PROVE  /\ OnlyFreezerFields(e, e)
           /\ OnlyFreezerFields(e, Following(e))
           /\ OnlyFreezerFields(e, [e EXCEPT !.frozen = FALSE])
BY DEF OnlyFreezerFields, Following, Entries

LEMMA ListInitially ==
    ASSUME AddressAssumption
    PROVE  Init => ListInv
<1> SUFFICES ASSUME Init PROVE ListInv
  OBVIOUS
<1>1. points \in Addrs \cup {None}
  BY DEF Init, AddressAssumption
<1>2. EntriesTyped
  BY <1>1, NoEntryTyped DEF Init, EntriesTyped, RowsTyped
<1>3. IdsBehind /\ SnapshotHolds
  BY DEF Init, IdsBehind, SnapshotHolds, Rest
<1> QED
  BY <1>2, <1>3 DEF ListInv

(* The user adds, removes and loads rows: none the freezer has in hand is     *)
(* changed but those that are said to be.                                     *)
LEMMA AddKeeps ==
    ASSUME ListInv, NEW row \in Entries, AppendEntry(row),
           UNCHANGED <<points, freezer, user, edited>>
    PROVE  ListInv'
<1> DEFINE new == [i \in DOMAIN entries \cup {nextId} |-> IF i = nextId THEN row ELSE entries[i]]
<1>1. entries' = new /\ nextId' = nextId + 1 /\ nextId \in Int
  BY DEF AppendEntry, Install, ListInv, IdsBehind
<1>2. EntriesTyped'
  BY <1>1 DEF ListInv, EntriesTyped, RowsTyped
<1>3. IdsBehind'
  BY <1>1 DEF ListInv, IdsBehind
<1>4. \A i \in DOMAIN entries : i \in DOMAIN new /\ new[i] = entries[i]
  BY DEF ListInv, IdsBehind
<1>5. SnapshotHolds'
  BY <1>1, <1>4 DEF ListInv, SnapshotHolds, Rest
<1> QED
  BY <1>2, <1>3, <1>5 DEF ListInv

LEMMA RemoveKeeps ==
    ASSUME ListInv, NEW id, RemoveEntry(id)
    PROVE  ListInv'
<1>1. /\ entries' = [i \in DOMAIN entries \ {id} |-> entries[i]] /\ nextId' = nextId
      /\ edited' = edited \cup {id} /\ UNCHANGED <<points, freezer, user>>
  BY DEF RemoveEntry, Install, Touched, Edit, world
<1>2. EntriesTyped' /\ IdsBehind'
  BY <1>1 DEF ListInv, EntriesTyped, RowsTyped, IdsBehind
<1>3. SnapshotHolds'
  BY <1>1 DEF ListInv, SnapshotHolds, Rest
<1> QED
  BY <1>2, <1>3 DEF ListInv

LEMMA ReplaceKeeps ==
    ASSUME ListInv, ReplaceEntries
    PROVE  ListInv'
<1> DEFINE none == [i \in {} |-> NoEntry]
           saved == [i \in {1} |-> [NoEntry EXCEPT !.chain = TRUE, !.resolved = FALSE]]
<1>1. PICK new \in {none, saved} : Replace(new) /\ Touched(DOMAIN entries \cup DOMAIN new)
  BY DEF ReplaceEntries
<1>2. /\ entries' = new /\ edited' = edited \cup DOMAIN entries \cup DOMAIN new
      /\ nextId' = (IF DOMAIN new = {} THEN 1 ELSE Max(DOMAIN new) + 1)
      /\ UNCHANGED <<points, freezer, user>>
  BY <1>1 DEF Replace, Install, Touched, ReplaceEntries, Edit, world
<1>3. RowsTyped(new)
  <2>1. [NoEntry EXCEPT !.chain = TRUE, !.resolved = FALSE] \in Entries
    BY NoEntryTyped DEF Entries
  <2>2. RowsTyped(none) /\ RowsTyped(saved)
    BY <2>1 DEF RowsTyped
  <2> QED
    BY <2>2
<1>4. EntriesTyped'
  BY <1>2, <1>3 DEF ListInv, EntriesTyped, RowsTyped
<1>5. IdsBehind'
  <2>1. CASE new = none
    BY <1>2, <2>1 DEF IdsBehind
  <2>2. CASE new = saved
    <3>1. DOMAIN new = {1}
      BY <2>2
    <3>2. Max({1}) = 1
      BY DEF Max
    <3> QED
      BY <1>2, <3>1, <3>2 DEF IdsBehind
  <2> QED
    BY <2>1, <2>2
<1>6. SnapshotHolds'
  BY <1>2 DEF ListInv, SnapshotHolds, Rest
<1> QED
  BY <1>4, <1>5, <1>6 DEF ListInv

(* An edit is written back whole, and its row is one the user has touched.    *)
LEMMA EndEditKeeps ==
    ASSUME ListInv, EndEdit
    PROVE  ListInv'
<1>1. /\ edited' = edited \cup {user.id} /\ UNCHANGED <<points, freezer>>
      /\ user' = [user EXCEPT !.pc = "idle"] /\ user.entry \in Entries
      /\ nextId' = nextId
      /\ \/ user.id \in DOMAIN entries /\ entries' = [entries EXCEPT ![user.id] = user.entry]
         \/ entries' = entries
  BY DEF EndEdit, Touched, Update, Install, world, list, ListInv, EntriesTyped
<1>2. EntriesTyped' /\ IdsBehind'
  BY <1>1 DEF ListInv, EntriesTyped, RowsTyped, IdsBehind
<1>3. SnapshotHolds'
  BY <1>1 DEF ListInv, SnapshotHolds, Rest
<1> QED
  BY <1>2, <1>3 DEF ListInv

(* The user's and the target's steps that leave the list alone.               *)
LEMMA BeginEditKeeps ==
    ASSUME ListInv, NEW id \in DOMAIN entries, BeginEdit(id)
    PROVE  ListInv'
<1>1. PICK new \in Changed(entries[id]) : user' = [pc |-> "update", id |-> id, entry |-> new]
  BY DEF BeginEdit
<1>2. new \in Entries
  BY <1>1, ChangedTyped DEF ListInv, EntriesTyped, RowsTyped
<1>3. UNCHANGED <<entries, nextId, points, freezer, edited>>
  BY DEF BeginEdit, Edit, list, world
<1> QED
  BY <1>1, <1>2, <1>3 DEF ListInv, EntriesTyped, RowsTyped, IdsBehind, SnapshotHolds, Rest

LEMMA TargetKeeps ==
    ASSUME ListInv, TargetChanges
    PROVE  ListInv'
<1>1. UNCHANGED <<entries, nextId, freezer, user, edited>> /\ points' \in Addrs \cup {None}
  BY DEF TargetChanges, list, ListInv, EntriesTyped
<1> QED
  BY <1>1 DEF ListInv, EntriesTyped, RowsTyped, IdsBehind, SnapshotHolds, Rest

(* The freezer takes a new snapshot, of rows of the list as they are.         *)
LEMMA SnapshotKeeps ==
    ASSUME ListInv, NEW pc, NEW ids \in SUBSET DOMAIN entries,
           Freezer(pc, SnapshotOf(ids)), UNCHANGED <<entries, nextId, points, user>>
    PROVE  ListInv'
<1>1. freezer' = [pc |-> pc, tick |-> freezer.tick, snap |-> SnapshotOf(ids)]
  BY DEF Freezer, ListInv, EntriesTyped
<1>2. RowsTyped(SnapshotOf(ids))
  BY DEF RowsTyped, SnapshotOf, ListInv, EntriesTyped
<1>3. EntriesTyped' /\ IdsBehind'
  BY <1>1, <1>2 DEF ListInv, EntriesTyped, RowsTyped, IdsBehind
<1>4. SnapshotHolds'
  BY <1>1 DEF SnapshotHolds, Rest, SnapshotOf
<1> QED
  BY <1>3, <1>4 DEF ListInv

(* It goes on to the next row, and writes this one or does not.               *)
LEMMA OneRowKeeps ==
    ASSUME ListInv, NEW pc, NEW id \in DOMAIN Rest, NEW row \in Entries,
           Freezer(pc, Without(id)), UNCHANGED <<points, user, edited>>,
           UNCHANGED list \/ Update(id, row)
    PROVE  ListInv'
<1>1. freezer' = [pc |-> pc, tick |-> freezer.tick, snap |-> Without(id)]
  BY DEF Freezer, ListInv, EntriesTyped
<1>2. /\ nextId' = nextId
      /\ \/ id \in DOMAIN entries /\ entries' = [entries EXCEPT ![id] = row]
         \/ entries' = entries
  BY DEF Update, Install, list
<1>3. RowsTyped(Without(id)) /\ DOMAIN Without(id) = DOMAIN Rest \ {id}
  BY DEF RowsTyped, Without, Rest, ListInv, EntriesTyped
<1>4. EntriesTyped' /\ IdsBehind'
  BY <1>1, <1>2, <1>3 DEF ListInv, EntriesTyped, RowsTyped, IdsBehind
<1>5. SnapshotHolds'
  BY <1>1, <1>2, <1>3 DEF ListInv, SnapshotHolds, Rest, Without
<1> QED
  BY <1>4, <1>5 DEF ListInv

LEMMA FreezerKeeps ==
    ASSUME ListInv, FreezerStep
    PROVE  ListInv'
<1>1. \A id \in DOMAIN Rest : Rest[id] \in Entries
  BY DEF ListInv, EntriesTyped, RowsTyped, Rest
<1>2. CASE Wake
  <2>1. UNCHANGED <<entries, nextId, points, user>>
    BY <1>2 DEF Wake, list, world
  <2>2. Freezer("resolve", SnapshotOf(Chains)) \/ Freezer("freeze", SnapshotOf(Freezable))
    BY <1>2 DEF Wake
  <2> QED
    BY <2>1, <2>2, SnapshotKeeps DEF Chains, Freezable
<1>3. CASE EndResolve
  <2>1. UNCHANGED <<entries, nextId, points, user>> /\ Freezer("freeze", SnapshotOf(Freezable))
    BY <1>3 DEF EndResolve, list, world
  <2> QED
    BY <2>1, SnapshotKeeps DEF Freezable
<1>4. CASE WakeDetached \/ Sleep
  <2>1. UNCHANGED <<entries, nextId, points, user, edited>>
    BY <1>4 DEF WakeDetached, Sleep, list, world
  <2>2. /\ freezer'.snap = freezer.snap
        /\ freezer' = [pc |-> freezer'.pc, tick |-> freezer'.tick, snap |-> freezer'.snap]
    BY <1>4 DEF WakeDetached, Sleep, ListInv, EntriesTyped
  <2> QED
    BY <2>1, <2>2 DEF ListInv, EntriesTyped, RowsTyped, IdsBehind, SnapshotHolds, Rest
<1>5. ASSUME NEW id \in DOMAIN Rest, ResolveOne(id)
      PROVE  ListInv'
  <2>1. Following(Rest[id]) \in Entries
    BY <1>1, FollowingTyped DEF ListInv, EntriesTyped
  <2>2. /\ Freezer("resolve", Without(id)) /\ UNCHANGED <<points, user, edited>>
        /\ UNCHANGED list \/ Update(id, Following(Rest[id]))
    BY <1>5 DEF ResolveOne, Resolved, world
  <2> QED
    BY <2>1, <2>2, OneRowKeeps
<1>6. ASSUME NEW id \in DOMAIN Rest, FreezeOne(id)
      PROVE  ListInv'
  <2>1. [Rest[id] EXCEPT !.frozen = FALSE] \in Entries
    BY <1>1 DEF Entries
  <2>2. /\ Freezer("freeze", Without(id)) /\ UNCHANGED <<points, user, edited>>
        /\ UNCHANGED list \/ Update(id, [Rest[id] EXCEPT !.frozen = FALSE])
    BY <1>6 DEF FreezeOne, GiveUp, world
  <2> QED
    BY <2>1, <2>2, OneRowKeeps
<1> QED
  BY <1>2, <1>3, <1>4, <1>5, <1>6 DEF FreezerStep

LEMMA ListStep == ListInv /\ [EntriesNext]_vars => ListInv'
<1> SUFFICES ASSUME ListInv, [EntriesNext]_vars PROVE ListInv'
  OBVIOUS
<1>1. CASE Add
  <2> DEFINE row(a, v) == [addr |-> a, value |-> v, frozen |-> FALSE, resolved |-> TRUE, chain |-> FALSE]
  <2>1. PICK a \in Addrs : \E v \in ReadNow(a) : AppendEntry(row(a, v))
    BY <1>1 DEF Add
  <2>2. PICK v \in ReadNow(a) : AppendEntry(row(a, v))
    BY <2>1
  <2>3. row(a, v) \in Entries
    BY DEF ReadNow, Entries
  <2>4. UNCHANGED <<points, freezer, user, edited>>
    BY <1>1 DEF Add, Edit, world
  <2> QED
    BY <2>2, <2>3, <2>4, AddKeeps
<1>2. CASE AddChain
  <2> DEFINE row(v) == [addr |-> IF attached THEN points ELSE None, value |-> v, frozen |-> FALSE,
                        resolved |-> attached /\ points # None, chain |-> TRUE]
  <2>1. PICK v \in ReadNow(points) : AppendEntry(row(v))
    BY <1>2 DEF AddChain
  <2>2. row(v) \in Entries
    BY DEF ReadNow, Entries, ListInv, EntriesTyped
  <2>3. UNCHANGED <<points, freezer, user, edited>>
    BY <1>2 DEF AddChain, Edit, world
  <2> QED
    BY <2>1, <2>2, <2>3, AddKeeps
<1>3. CASE UNCHANGED vars
  BY <1>3 DEF vars, list, world, ListInv, EntriesTyped, RowsTyped, IdsBehind, SnapshotHolds, Rest
<1> QED
  BY <1>1, <1>2, <1>3, ReplaceKeeps, EndEditKeeps, TargetKeeps, RemoveKeeps, BeginEditKeeps, FreezerKeeps
  DEF EntriesNext

(* A step that moves the freezer is the freezer's own.                        *)
LEMMA OnlyItMoves ==
    ASSUME EntriesNext, freezer' # freezer
    PROVE  FreezerStep
BY DEF EntriesNext, Add, AddChain, ReplaceEntries, EndEdit, TargetChanges, RemoveEntry, BeginEdit, Edit

(* The freezer overwrites whole rows with what it read some time ago, and     *)
(* takes back nothing the user did meanwhile to the rows he did not touch in  *)
(* that time, nor brings back one that was removed                            *)
(* (RuntimeServices.cpp, resolvePointerChains and freezeLoop).                *)
THEOREM FreezerNeverUndoes ==
    ASSUME AddressAssumption
    PROVE  Spec => FreezerKeepsEdits
<1> DEFINE Kept == /\ DOMAIN entries' = DOMAIN entries
                   /\ \A id \in DOMAIN entries \ edited : OnlyFreezerFields(entries[id], entries'[id])
<1>1. ASSUME ListInv, [EntriesNext]_vars
      PROVE  [freezer' # freezer => Kept]_vars
  <2> SUFFICES ASSUME EntriesNext, freezer' # freezer PROVE Kept
    BY <1>1
  <2>1. \A id \in DOMAIN entries : OnlyFreezerFields(entries[id], entries[id])
    BY <1>1, FreezerFields DEF ListInv, EntriesTyped, RowsTyped
  <2>2. CASE UNCHANGED list
    BY <2>1, <2>2 DEF list
  <2>3. ASSUME NEW id \in DOMAIN Rest, NEW row, Update(id, row),
               OnlyFreezerFields(Rest[id], row)
        PROVE  Kept
    <3>1. CASE id \notin DOMAIN entries
      BY <2>2, <2>3, <3>1 DEF Update
    <3>2. CASE id \in DOMAIN entries
      <4>1. entries' = [entries EXCEPT ![id] = row]
        BY <2>3, <3>2 DEF Update, Install
      <4>2. id \notin edited => Rest[id] = entries[id]
        BY <1>1 DEF ListInv, SnapshotHolds
      <4> QED
        BY <2>1, <2>3, <4>1, <4>2
    <3> QED
      BY <3>1, <3>2
  <2>4. \A id \in DOMAIN Rest : Rest[id] \in Entries
    BY <1>1 DEF ListInv, EntriesTyped, RowsTyped, Rest
  <2>5. ASSUME NEW id \in DOMAIN Rest, ResolveOne(id)
        PROVE  Kept
    <3>1. UNCHANGED list \/ Update(id, Following(Rest[id]))
      BY <2>5 DEF ResolveOne, Resolved
    <3>2. OnlyFreezerFields(Rest[id], Following(Rest[id]))
      BY <2>4, FreezerFields
    <3> QED
      BY <2>2, <2>3, <3>1, <3>2
  <2>6. ASSUME NEW id \in DOMAIN Rest, FreezeOne(id)
        PROVE  Kept
    <3>1. UNCHANGED list \/ Update(id, [Rest[id] EXCEPT !.frozen = FALSE])
      BY <2>6 DEF FreezeOne, GiveUp
    <3>2. OnlyFreezerFields(Rest[id], [Rest[id] EXCEPT !.frozen = FALSE])
      BY <2>4, FreezerFields
    <3> QED
      BY <2>2, <2>3, <3>1, <3>2
  <2>7. CASE Wake \/ WakeDetached \/ EndResolve \/ Sleep
    BY <2>2, <2>7 DEF Wake, WakeDetached, EndResolve, Sleep
  <2> QED
    BY <2>5, <2>6, <2>7, OnlyItMoves DEF FreezerStep
<1> QED
  BY <1>1, ListInitially, ListStep, PTL DEF Spec, FreezerKeepsEdits

--------------------------------------------------------------------------------
(* The window's copy                                                          *)

(* Every change of the list moves its revision.                               *)
LEMMA ChangesCount ==
    ASSUME [EntriesNext]_vars
    PROVE  UNCHANGED <<entries, revision>> \/ revision' = revision + 1
<1>1. CASE Add \/ AddChain \/ ReplaceEntries
  BY <1>1 DEF Add, AddChain, ReplaceEntries, AppendEntry, Replace, Install
<1>2. CASE EndEdit \/ TargetChanges \/ UNCHANGED vars
  BY <1>2 DEF EndEdit, Update, Install, TargetChanges, list, vars
<1>3. ASSUME NEW id, RemoveEntry(id) \/ BeginEdit(id)
      PROVE  UNCHANGED <<entries, revision>> \/ revision' = revision + 1
  BY <1>3 DEF RemoveEntry, BeginEdit, Install, list
<1>4. CASE Wake \/ WakeDetached \/ EndResolve \/ Sleep
  BY <1>4 DEF Wake, WakeDetached, EndResolve, Sleep, list
<1>5. ASSUME NEW id, ResolveOne(id) \/ FreezeOne(id)
      PROVE  UNCHANGED <<entries, revision>> \/ revision' = revision + 1
  BY <1>5 DEF ResolveOne, FreezeOne, GiveUp, Update, Install, list
<1> QED
  BY <1>1, <1>2, <1>3, <1>4, <1>5 DEF EntriesNext, FreezerStep

(* The window never has a revision the list has not come to.                  *)
ShownInv ==
    /\ revision \in Int /\ shown.revision \in Int /\ shown.revision <= revision
    /\ shown = [pc |-> shown.pc, revision |-> shown.revision, entries |-> shown.entries]
    /\ ShownIsCurrent

(* The rows the window shows are the list whenever it takes them to be        *)
(* current, whoever writes between its two reads (UiApp.cpp).                 *)
THEOREM WindowShowsList == ShownSpec => []ShownIsCurrent
<1>1. ShownInit => ShownInv
  BY DEF ShownInit, Init, ShownInv, ShownIsCurrent
<1>2. ShownInv /\ [ShownNext]_<<vars, shown>> => ShownInv'
  <2> SUFFICES ASSUME ShownInv, [ShownNext]_<<vars, shown>> PROVE ShownInv'
    OBVIOUS
  <2>1. CASE [EntriesNext]_vars /\ UNCHANGED shown
    BY <2>1, ChangesCount DEF ShownInv, ShownIsCurrent
  <2>2. CASE SeeRevision
    <3>1. shown' = [pc |-> "seen", revision |-> revision, entries |-> shown.entries]
      BY <2>2 DEF SeeRevision, ShownInv
    <3>2. UNCHANGED <<entries, revision>>
      BY <2>2 DEF SeeRevision, vars, list
    <3> QED
      BY <3>1, <3>2 DEF ShownInv, ShownIsCurrent
  <2>3. CASE CopyEntries
    <3>1. shown' = [pc |-> "idle", revision |-> shown.revision, entries |-> entries]
      BY <2>3 DEF CopyEntries, ShownInv
    <3>2. UNCHANGED <<entries, revision>>
      BY <2>3 DEF CopyEntries, vars, list
    <3> QED
      BY <3>1, <3>2 DEF ShownInv, ShownIsCurrent
  <2>4. UNCHANGED <<vars, shown>> => [EntriesNext]_vars /\ UNCHANGED shown
    OBVIOUS
  <2> QED
    BY <2>1, <2>2, <2>3, <2>4 DEF ShownNext
<1>3. ShownInv => ShownIsCurrent
  BY DEF ShownInv
<1> QED
  BY <1>1, <1>2, <1>3, PTL DEF ShownSpec

--------------------------------------------------------------------------------
(* The access watch: AccessWatch                                              *)

InHand == recorder.pc \in {"record", "resolved"}

WatchTypes ==
    /\ watch \in [active : BOOLEAN, watched : Watched \cup {Nowhere}, total : Nat, truncated : BOOLEAN]
    /\ sites \in [DOMAIN sites -> Nat]
    /\ recorder \in [pc : {"wait", "record", "resolved"}, address : Watched \cup {Nowhere},
                     trap : Traps \cup {Nowhere}]
    /\ starter \in [pc : {"idle", "begin", "arm", "remove"}, address : Watched \cup {Nowhere}]
    /\ foreign \in Nat

(* A hit of an earlier watch can only be counted while there is none.         *)
OneInFlight ==
    /\ foreign <= 1
    /\ InHand /\ recorder.address # watch.watched => foreign = 0

WatchInv == WatchTypes /\ IsFiniteSet(Shown) /\ OneInFlight /\ ListHonest

--------------------------------------------------------------------------------

LEMMA WatchStarts == WatchInit => WatchInv
<1> SUFFICES ASSUME WatchInit PROVE WatchInv
  OBVIOUS
<1>1. Shown = {}
      BY DEF WatchInit, Shown
<1>2. IsFiniteSet(Shown) /\ Cardinality(Shown) = 0
      BY <1>1, FS_EmptySet
<1>3. ListHonest
      BY <1>2 DEF ListHonest, WatchInit
<1>4. WatchTypes /\ OneInFlight
      BY DEF WatchTypes, OneInFlight, InHand, WatchInit
<1> QED BY <1>2, <1>3, <1>4 DEF WatchInv

(* A list begun or cleared is empty.                                          *)
LEMMA EmptyShown == Empty => IsFiniteSet(Shown') /\ Cardinality(Shown') = 0
<1> SUFFICES ASSUME Empty PROVE IsFiniteSet(Shown') /\ Cardinality(Shown') = 0
  OBVIOUS
<1>1. Shown' = {}
      BY DEF Empty, Shown
<1> QED BY <1>1, FS_EmptySet

(* A hit counted is one hit more in the list.                                 *)
LEMMA CountShows ==
    ASSUME WatchTypes, IsFiniteSet(Shown), CountInto
    PROVE  /\ IsFiniteSet(Shown') /\ Cardinality(Shown') = Cardinality(Shown) + 1
           /\ sites' \in [DOMAIN sites' -> Nat]
<1>1. PICK n \in Nat : n = IF recorder.trap \in DOMAIN sites THEN sites[recorder.trap] ELSE 0
      BY DEF WatchTypes
<1>2. PICK trap : trap = recorder.trap
      OBVIOUS
<1>3. /\ DOMAIN sites' = DOMAIN sites \cup {trap}
      /\ sites'[trap] = n + 1
      /\ \A t \in DOMAIN sites \ {trap} : sites'[t] = sites[t]
      BY <1>1, <1>2 DEF CountInto, WatchTypes
<1>4. \A h : h \in Shown <=> \E t \in DOMAIN sites : h \in {t} \X (1 .. sites[t])
      BY DEF Shown
<1>5. \A h : h \in Shown' <=> \E t \in DOMAIN sites' : h \in {t} \X (1 .. sites'[t])
      BY DEF Shown
<1>6. \A t, k : <<t, k>> \in Shown <=> t \in DOMAIN sites /\ k \in 1 .. sites[t]
      BY <1>4
<1>7. <<trap, n + 1>> \notin Shown
      BY <1>1, <1>2, <1>6
<1>8. Shown' = Shown \cup {<<trap, n + 1>>}
  <2>1. ASSUME NEW h \in Shown' PROVE h \in Shown \cup {<<trap, n + 1>>}
    <3>1. PICK t \in DOMAIN sites' : h \in {t} \X (1 .. sites'[t])
          BY <1>5
    <3>2. PICK k \in 1 .. sites'[t] : h = <<t, k>>
          BY <3>1
    <3>3. CASE t # trap
          BY <1>3, <1>6, <3>2, <3>3
    <3>4. CASE t = trap /\ k = n + 1
          BY <3>2, <3>4
    <3>5. CASE t = trap /\ k # n + 1
      <4>1. k \in 1 .. n
            BY <1>3, <3>2, <3>5
      <4>2. t \in DOMAIN sites /\ n = sites[t]
            BY <1>1, <1>2, <3>5, <4>1
      <4> QED BY <1>6, <3>2, <4>1, <4>2
    <3> QED BY <3>3, <3>4, <3>5
  <2>2. ASSUME NEW h \in Shown PROVE h \in Shown'
    <3>1. PICK t \in DOMAIN sites : h \in {t} \X (1 .. sites[t])
          BY <1>4
    <3>2. t \in DOMAIN sites' /\ 1 .. sites[t] \subseteq 1 .. sites'[t]
          BY <1>1, <1>2, <1>3 DEF WatchTypes
    <3> QED BY <1>5, <3>1, <3>2
  <2>3. <<trap, n + 1>> \in {trap} \X (1 .. sites'[trap])
        BY <1>3
  <2>4. <<trap, n + 1>> \in Shown'
        BY <1>3, <1>5, <2>3
  <2> QED BY <2>1, <2>2, <2>4
<1>9. sites' \in [DOMAIN sites' -> Nat]
  <2>1. sites' = [t \in DOMAIN sites' |-> sites'[t]]
        BY DEF CountInto
  <2>2. \A t \in DOMAIN sites' : sites'[t] \in Nat
        BY <1>1, <1>3 DEF WatchTypes
  <2> QED BY <2>1, <2>2
<1> QED BY <1>7, <1>8, <1>9, FS_AddElement

--------------------------------------------------------------------------------
(* The pump's thread                                                          *)

(* What counts a hit: it is dropped into the list, or off its end.            *)
LEMMA CountKeeps ==
    ASSUME WatchInv, InHand, Done, CountInto \/ DropSite, starter' = starter
    PROVE  WatchInv'
<1>1. recorder'.pc = "wait" /\ recorder' \in [pc : {"wait", "record", "resolved"},
            address : Watched \cup {Nowhere}, trap : Traps \cup {Nowhere}]
      BY DEF Done, WatchInv, WatchTypes
<1>2. Cardinality(Shown) \in Nat
      BY FS_CardinalityType DEF WatchInv
<1>3. CASE CountInto
  <2>1. /\ IsFiniteSet(Shown') /\ Cardinality(Shown') = Cardinality(Shown) + 1
        /\ sites' \in [DOMAIN sites' -> Nat]
        BY <1>3, CountShows DEF WatchInv
  <2>2. /\ watch' = [watch EXCEPT !.total = @ + 1]
        /\ foreign' = foreign + (IF recorder.address # watch.watched THEN 1 ELSE 0)
        BY <1>3 DEF CountInto
  <2>3. ListHonest'
        BY <1>2, <2>1, <2>2 DEF ListHonest, WatchInv, WatchTypes, OneInFlight
  <2>4. OneInFlight'
        BY <1>1, <2>2 DEF OneInFlight, InHand, WatchInv, WatchTypes
  <2>5. WatchTypes'
        BY <1>1, <2>1, <2>2 DEF WatchTypes, WatchInv
  <2> QED BY <2>1, <2>3, <2>4, <2>5 DEF WatchInv
<1>4. CASE DropSite
  <2>1. Shown' = Shown
        BY <1>4 DEF DropSite, Shown
  <2>2. ListHonest'
        BY <1>2, <1>4, <2>1 DEF DropSite, ListHonest, WatchInv, WatchTypes
  <2>3. OneInFlight'
        BY <1>1, <1>4 DEF DropSite, OneInFlight, InHand, WatchInv
  <2>4. /\ watch' \in [active : BOOLEAN, watched : Watched \cup {Nowhere}, total : Nat, truncated : BOOLEAN]
        /\ sites' = sites /\ foreign' = foreign
    <3>1. PICK w : w = [watch EXCEPT !.truncated = TRUE]
          OBVIOUS
    <3>2. w \in [active : BOOLEAN, watched : Watched \cup {Nowhere}, total : Nat, truncated : BOOLEAN]
          BY <3>1 DEF WatchInv, WatchTypes
    <3>3. watch' = [w EXCEPT !.total = watch.total + 1] /\ watch.total + 1 \in Nat
          BY <1>4, <3>1 DEF DropSite, WatchInv, WatchTypes
    <3> QED BY <1>4, <3>2, <3>3 DEF DropSite
  <2>5. WatchTypes'
        BY <1>1, <2>4 DEF WatchInv, WatchTypes
  <2> QED BY <2>1, <2>2, <2>3, <2>5 DEF WatchInv
<1> QED BY <1>3, <1>4

(* Whatever leaves the list alone.                                            *)
LEMMA ListAlone ==
    ASSUME WatchInv, UNCHANGED <<sites, foreign>>, WatchTypes',
           watch'.total = watch.total, watch'.truncated = watch.truncated,
           watch'.watched = watch.watched,
           InHand' => recorder'.address = watch.watched \/ (InHand /\ recorder'.address = recorder.address)
    PROVE  WatchInv'
<1>1. Shown' = Shown
      BY DEF Shown
<1>2. ListHonest' /\ OneInFlight'
      BY <1>1 DEF ListHonest, OneInFlight, WatchInv
<1> QED BY <1>1, <1>2 DEF WatchInv

LEMMA PumpKeeps ==
    ASSUME WatchInv, (\E a \in Watched, t \in Traps : Hit(a, t)) \/ Record \/ RecordResolved
    PROVE  WatchInv'
<1> USE DEF WatchTypes
<1>1. CASE \E a \in Watched, t \in Traps : Hit(a, t)
  <2>1. WatchTypes' /\ (InHand' => recorder'.address = watch.watched)
        BY <1>1 DEF Hit, OfWatch, InHand, WatchInv
  <2> QED BY <1>1, <2>1, ListAlone DEF Hit
<1>2. ASSUME InHand, Done \/ recorder' = [recorder EXCEPT !.pc = "resolved"],
             UNCHANGED <<watch, sites, foreign, starter>>
      PROVE  WatchInv'
  <2>1. WatchTypes' /\ recorder'.address = recorder.address
        BY <1>2 DEF Done, WatchInv
  <2> QED BY <1>2, <2>1, ListAlone
<1>3. CASE Record
  <2>1. InHand /\ starter' = starter
        BY <1>3 DEF Record, InHand
  <2>2. \/ Done /\ (CountInto \/ DropSite)
        \/ (Done \/ recorder' = [recorder EXCEPT !.pc = "resolved"]) /\ UNCHANGED <<watch, sites, foreign>>
        BY <1>3 DEF Record
  <2> QED BY <1>2, <2>1, <2>2, CountKeeps
<1>4. CASE RecordResolved
  <2>1. InHand /\ starter' = starter /\ Done
        BY <1>4 DEF RecordResolved, InHand
  <2>2. CountInto \/ UNCHANGED <<watch, sites, foreign>>
        BY <1>4 DEF RecordResolved
  <2> QED BY <1>2, <2>1, <2>2, CountKeeps
<1> QED BY <1>1, <1>3, <1>4

--------------------------------------------------------------------------------
(* The user                                                                   *)

LEMMA UserKeeps ==
    ASSUME WatchInv,
           \/ \E a \in Watched : StartWatch(a) \/ SetBreakpoint(a)
           \/ Begin \/ Arm \/ ArmRefused \/ StopWatch \/ RemoveBreakpoint \/ Clear \/ LeaveDebugger
    PROVE  WatchInv'
<1> USE DEF WatchTypes, WatchInv, Call, User
<1>1. WatchTypes'
  <2>1. CASE \E a \in Watched : StartWatch(a) \/ SetBreakpoint(a)
        BY <2>1 DEF StartWatch, SetBreakpoint
  <2>2. CASE Begin
        BY <2>2 DEF Begin, Empty
  <2>3. CASE Arm
        BY <2>3 DEF Arm
  <2>8. CASE ArmRefused
        BY <2>8 DEF ArmRefused
  <2>4. CASE StopWatch
        BY <2>4 DEF StopWatch
  <2>5. CASE RemoveBreakpoint
        BY <2>5 DEF RemoveBreakpoint
  <2>6. CASE Clear
        BY <2>6 DEF Clear, Empty
  <2>7. CASE LeaveDebugger
        BY <2>7 DEF LeaveDebugger
  <2> QED BY <2>1, <2>2, <2>3, <2>4, <2>5, <2>6, <2>7, <2>8
<1>2. CASE Begin \/ Clear
  <2>1. Empty /\ watch'.total = 0 /\ ~watch'.truncated
    <3>1. CASE Begin
          BY <3>1 DEF Begin
    <3>2. CASE Clear
          BY <3>2 DEF Clear
    <3> QED BY <1>2, <3>1, <3>2
  <2>2. IsFiniteSet(Shown') /\ Cardinality(Shown') = 0
        BY <2>1, EmptyShown
  <2>3. ListHonest' /\ OneInFlight'
        BY <2>1, <2>2 DEF ListHonest, OneInFlight, Empty
  <2> QED BY <1>1, <2>2, <2>3
<1>3. CASE UNCHANGED <<watch, sites, recorder, foreign>>
      BY <1>1, <1>3, ListAlone DEF InHand
<1>4. CASE ArmRefused \/ StopWatch
      BY <1>1, <1>4, ListAlone DEF ArmRefused, StopWatch, InHand
<1> QED BY <1>2, <1>3, <1>4 DEF StartWatch, SetBreakpoint, Arm, RemoveBreakpoint, LeaveDebugger

LEMMA WatchKept == ASSUME WatchInv, [WatchNext]_watchVars PROVE WatchInv'
<1>1. CASE UNCHANGED watchVars
  <2>1. WatchTypes' /\ (InHand' => InHand /\ recorder'.address = recorder.address)
        BY <1>1 DEF watchVars, WatchInv, WatchTypes, InHand
  <2> QED BY <1>1, <2>1, ListAlone DEF watchVars
<1>2. CASE WatchNext
      BY <1>2, PumpKeeps, UserKeeps DEF WatchNext
<1> QED BY <1>1, <1>2

(* Whatever is begun, stopped or cleared while a hit is being looked up, the  *)
(* list adds up to its total and at most one of its hits belongs to an        *)
(* earlier watch (AccessWatch::record, begin, clear).                         *)
THEOREM ListAlwaysHonest == WatchSpec => []ListHonest
<1>1. WatchInit => WatchInv
      BY WatchStarts
<1>2. WatchInv /\ [WatchNext]_watchVars => WatchInv'
      BY WatchKept
<1>3. WatchInv => ListHonest
      BY DEF WatchInv
<1> QED BY <1>1, <1>2, <1>3, PTL DEF WatchSpec

(* A stopped list does not move: only an active watch counts a hit, and a     *)
(* list is emptied with a watch begun or at the user's word                   *)
(* (AccessWatch::record, the second look under the lock).                     *)
THEOREM StoppedNeverMoves == WatchSpec => StoppedStandsStill
<1>1. ASSUME WatchNext, ~watch.active, ~watch'.active
      PROVE  DOMAIN sites' \subseteq DOMAIN sites /\ \A t \in DOMAIN sites' : sites'[t] = sites[t]
  <2>1. CASE sites' = sites
        BY <2>1
  <2>2. CASE Begin \/ Clear
        BY <1>1, <2>2 DEF Begin, Clear, Empty
  <2>3. CASE Record \/ RecordResolved
        BY <1>1, <2>3 DEF Record, RecordResolved, StillActive
  <2> QED BY <1>1, <2>1, <2>2, <2>3
          DEF WatchNext, Hit, StartWatch, SetBreakpoint, Arm, ArmRefused, StopWatch, RemoveBreakpoint, LeaveDebugger
<1>2. [WatchNext]_watchVars => [StaysStopped]_watchVars
      BY <1>1 DEF StaysStopped
<1> QED BY <1>2, PTL DEF WatchSpec, StoppedStandsStill

--------------------------------------------------------------------------------
(* The speed hack: Speed                                                      *)

Rates == Nat \ {0}
Clocks == [started : BOOLEAN, baseReal : Nat, baseFake : Nat]

SpeedTypes ==
    /\ time \in Nat
    /\ clock \in Clocks
    /\ block \in [requested : Rates, applied : Rates, unhook : BOOLEAN, alive : BOOLEAN]
    /\ worker \in [pc : {"none", "start", "poll", "unpatch", "unhooked", "request", "hook", "apply"},
                   applied : Rates, want : Rates, since : Nat, hooked : BOOLEAN]
    /\ caller \in [Threads -> Nat \cup {Idle}]
    /\ last \in [Threads -> Nat]
    /\ controller \in [pc : {"idle", "write", "unhook"}, scale : Rates]

(* FakeOf of any clock.                                                       *)
Elapsed(stretch, rate) == (stretch * rate) \div Unit
Since(c, real) == IF c.baseReal <= real THEN real - c.baseReal ELSE 0
FakeAt(c, real, rate) ==
    IF c.started THEN c.baseFake + Elapsed(Since(c, real), rate) ELSE real

(* The real time a thread's next answer is for, or an earlier one.            *)
Pending(t) == IF caller[t] = Idle THEN time ELSE caller[t]

(* Nothing is ahead of the real clock, and nobody has been told more than he  *)
(* would be told now.  A clock nobody has asked has told nobody anything.     *)
NothingAhead ==
    /\ clock.baseReal <= time
    /\ \A t \in Threads : Pending(t) <= time
ToldBefore ==
    \A t \in Threads : /\ last[t] <= FakeAt(clock, Pending(t), block.applied)
                       /\ ~clock.started => last[t] = 0
SpeedInv == SpeedTypes /\ NothingAhead /\ ToldBefore

--------------------------------------------------------------------------------
(* Arithmetic                                                                 *)

LEMMA QuotientGrows ==
    ASSUME NEW x \in Nat, NEW y \in Nat, NEW d \in Nat \ {0}, x <= y
    PROVE  /\ x \div d \in Nat
           /\ x \div d <= y \div d
<1>1. PICK p : p = x \div d OBVIOUS
<1>2. PICK q : q = y \div d OBVIOUS
<1>3. p \in Nat /\ q \in Nat BY <1>1, <1>2
<1>4. d * p <= x /\ y < d * q + d BY <1>1, <1>2
<1>5. ASSUME q + 1 <= p PROVE FALSE
  <2>1. d * (q + 1) <= d * p BY <1>3, <1>5
  <2>2. d * (q + 1) = d * q + d BY <1>3
  <2> QED BY <1>3, <1>4, <2>1, <2>2
<1> QED BY <1>1, <1>2, <1>3, <1>5

LEMMA ElapsedGrows ==
    ASSUME NEW x \in Nat, NEW y \in Nat, NEW rate \in Rates, x <= y, SpeedAssumption
    PROVE  /\ Elapsed(x, rate) \in Nat
           /\ Elapsed(x, rate) <= Elapsed(y, rate)
<1>1. x * rate \in Nat /\ y * rate \in Nat BY DEF Rates
<1>2. x * rate <= y * rate BY DEF Rates
<1> QED BY <1>1, <1>2, QuotientGrows DEF Elapsed, SpeedAssumption

--------------------------------------------------------------------------------
(* What a clock answers                                                       *)

(* The base moves back to a real time older than itself, for which nothing    *)
(* has gone by.                                                               *)
LEMMA FakeOfIsFakeAt ==
    ASSUME clock \in Clocks, NEW real \in Nat, NEW rate \in Rates, SpeedAssumption
    PROVE  FakeOf(real, rate) = FakeAt(clock, real, rate)
<1>1. real - Base(real) = Since(clock, real) \/ ~clock.started
      BY DEF Base, Since, Clocks
<1> QED BY <1>1 DEF FakeOf, FakeAt, Elapsed

(* The later the real time, the later the answer; none is before the base.    *)
LEMMA FakeGrows ==
    ASSUME SpeedAssumption, NEW c \in Clocks, NEW rate \in Rates,
           NEW r \in Nat, NEW s \in Nat, r <= s
    PROVE  /\ FakeAt(c, r, rate) \in Nat
           /\ FakeAt(c, r, rate) <= FakeAt(c, s, rate)
           /\ c.started => c.baseFake <= FakeAt(c, r, rate)
<1>1. PICK x : x = Since(c, r)
      OBVIOUS
<1>2. PICK y : y = Since(c, s)
      OBVIOUS
<1>3. x \in Nat /\ y \in Nat /\ x <= y
      BY <1>1, <1>2 DEF Since, Clocks
<1>4. /\ Elapsed(x, rate) \in Nat /\ Elapsed(y, rate) \in Nat
      /\ Elapsed(x, rate) <= Elapsed(y, rate)
      BY <1>3, ElapsedGrows
<1> QED BY <1>1, <1>2, <1>4 DEF FakeAt, Clocks

LEMMA NotBeforeBase ==
    ASSUME SpeedAssumption, NEW c \in Clocks, NEW rate \in Rates, NEW r \in Nat, c.started
    PROVE  FakeAt(c, r, rate) \in Nat /\ c.baseFake <= FakeAt(c, r, rate)
<1>1. r <= r OBVIOUS
<1> QED BY <1>1, FakeGrows

(* A base moved back makes every answer to come the later.                    *)
LEMMA OlderBase ==
    ASSUME SpeedAssumption, NEW c \in Clocks, NEW d \in Clocks, NEW rate \in Rates, NEW r \in Nat,
           c.started, d.started, d.baseFake = c.baseFake, d.baseReal <= c.baseReal
    PROVE  FakeAt(c, r, rate) <= FakeAt(d, r, rate)
<1>1. PICK x : x = Since(c, r)
      OBVIOUS
<1>2. PICK y : y = Since(d, r)
      OBVIOUS
<1>3. x \in Nat /\ y \in Nat /\ x <= y
      BY <1>1, <1>2 DEF Since, Clocks
<1>4. /\ Elapsed(x, rate) \in Nat /\ Elapsed(y, rate) \in Nat
      /\ Elapsed(x, rate) <= Elapsed(y, rate)
      BY <1>3, ElapsedGrows
<1> QED BY <1>1, <1>2, <1>4 DEF FakeAt, Clocks

--------------------------------------------------------------------------------
(* The steps                                                                  *)

LEMMA SpeedStarts == ASSUME SpeedAssumption, SpeedInit PROVE SpeedInv
<1>1. SpeedTypes
      BY DEF SpeedInit, SpeedTypes, SpeedAssumption, Clocks, Rates, Real, Idle
<1>2. NothingAhead /\ ToldBefore
      BY DEF SpeedInit, NothingAhead, ToldBefore, Pending, FakeAt, Idle
<1> QED BY <1>1, <1>2 DEF SpeedInv

LEMMA PendingReal == SpeedTypes => \A t \in Threads : Pending(t) \in Nat
BY DEF SpeedTypes, Pending

(* Steps that leave the clock, its rate and what was told alone, and take no  *)
(* call back in time.                                                         *)
LEMMA TimePasses ==
    ASSUME SpeedInv, SpeedTypes', SpeedAssumption,
           UNCHANGED <<clock, last>>, block'.applied = block.applied, time <= time',
           \A t \in Threads : Pending(t) <= Pending(t)' /\ Pending(t)' <= time'
    PROVE  SpeedInv'
<1>1. \A t \in Threads : Pending(t) \in Nat /\ Pending(t)' \in Nat
      BY PendingReal DEF SpeedInv, SpeedTypes, Pending
<1>2. NothingAhead'
      BY DEF SpeedInv, SpeedTypes, NothingAhead, Clocks
<1>3. ASSUME NEW t \in Threads
      PROVE  last'[t] <= FakeAt(clock, Pending(t), block.applied)' /\ (~clock'.started => last'[t] = 0)
  <2>1. PICK r \in Nat : r = Pending(t)
        BY <1>1
  <2>2. PICK s \in Nat : s = Pending(t)'
        BY <1>1
  <2>3. PICK rate \in Rates : rate = block.applied
        BY DEF SpeedInv, SpeedTypes
  <2>4. /\ FakeAt(clock, r, rate) \in Nat /\ FakeAt(clock, s, rate) \in Nat
        /\ FakeAt(clock, r, rate) <= FakeAt(clock, s, rate)
        BY <2>1, <2>2, FakeGrows DEF SpeedInv, SpeedTypes
  <2>5. FakeAt(clock, Pending(t), block.applied)' = FakeAt(clock, s, rate)
        BY <2>2, <2>3
  <2> QED BY <2>1, <2>3, <2>4, <2>5 DEF SpeedInv, ToldBefore, SpeedTypes
<1> QED BY <1>2, <1>3 DEF SpeedInv, ToldBefore

(* The rate changes under the lock, at the real time the worker reads there.  *)
LEMMA RateChanges ==
    ASSUME SpeedInv, SpeedTypes', SpeedAssumption, NEW next, ApplyScale(next),
           UNCHANGED <<time, caller, last>>
    PROVE  SpeedInv'
<1>1. PICK now \in Nat : now = time
      BY DEF SpeedInv, SpeedTypes
<1>2. \A t \in Threads : /\ Pending(t) \in Nat /\ Pending(t)' = Pending(t)
                         /\ Pending(t) <= now
      BY <1>1, PendingReal DEF SpeedInv, Pending, NothingAhead
<1>3. CASE ~clock.started
  <2>1. clock' = clock
        BY <1>3 DEF ApplyScale, Rebased
  <2>2. NothingAhead'
        BY <1>1, <1>2, <2>1 DEF SpeedInv, NothingAhead
  <2>3. ToldBefore'
        BY <1>2, <1>3, <2>1 DEF SpeedInv, ToldBefore, FakeAt
  <2> QED BY <2>2, <2>3 DEF SpeedInv
<1>4. CASE clock.started
  <2>1. PICK rate \in Rates : rate = block.applied
        BY DEF SpeedInv, SpeedTypes
  <2>2. clock' = [started |-> TRUE, baseReal |-> now, baseFake |-> FakeAt(clock, now, rate)]
        BY <1>1, <1>4, <2>1, FakeOfIsFakeAt DEF ApplyScale, Rebased, SpeedInv, SpeedTypes
  <2>3. NothingAhead'
        BY <1>1, <1>2, <2>2 DEF NothingAhead
  <2>4. ASSUME NEW t \in Threads PROVE last'[t] <= FakeAt(clock, Pending(t), block.applied)'
    <3>1. PICK r \in Nat : r = Pending(t) /\ r <= now
          BY <1>2
    <3>2. PICK new \in Rates : new = block'.applied
          BY DEF SpeedTypes
    <3>3. /\ FakeAt(clock, r, rate) \in Nat /\ FakeAt(clock, now, rate) \in Nat
          /\ FakeAt(clock, r, rate) <= FakeAt(clock, now, rate)
          BY <3>1, FakeGrows DEF SpeedInv, SpeedTypes
    <3>4. last[t] <= FakeAt(clock, r, rate)
          BY <2>1, <3>1 DEF SpeedInv, ToldBefore
    <3>5. /\ FakeAt(clock', r, new) \in Nat
          /\ clock'.baseFake <= FakeAt(clock', r, new)
      <4>1. clock'.started /\ clock' \in Clocks
            BY <2>2 DEF SpeedTypes
      <4> QED BY <4>1, NotBeforeBase
    <3>6. FakeAt(clock, Pending(t), block.applied)' = FakeAt(clock', r, new)
          BY <1>2, <3>1, <3>2
    <3> QED BY <2>2, <3>3, <3>4, <3>5, <3>6 DEF SpeedInv, SpeedTypes
  <2> QED BY <2>2, <2>3, <2>4 DEF SpeedInv, ToldBefore
<1> QED BY <1>3, <1>4 DEF SpeedInv, SpeedTypes, Clocks

(* An answer is the latest its thread has had, and moves the base back if at  *)
(* all.                                                                       *)
LEMMA AnswerIsLater ==
    ASSUME SpeedInv, SpeedTypes', SpeedAssumption, NEW t \in Threads, Answer(t)
    PROVE  SpeedInv' /\ last'[t] >= last[t]
<1>1. PICK r \in Nat : r = caller[t] /\ r = Pending(t) /\ r <= time
      BY DEF Answer, SpeedInv, SpeedTypes, Pending, NothingAhead
<1>2. PICK rate \in Rates : rate = block.applied /\ rate = block'.applied
      BY DEF Answer, control, SpeedInv, SpeedTypes
<1>3. /\ last' = [last EXCEPT ![t] = FakeAt(clock, r, rate)]
      /\ clock' = Asked(r) /\ time' = time /\ caller' = [caller EXCEPT ![t] = Idle]
  <2>1. FakeOf(r, rate) = FakeAt(clock, r, rate)
        BY FakeOfIsFakeAt DEF SpeedInv, SpeedTypes
  <2> QED BY <1>1, <1>2, <2>1 DEF Answer
<1>4. last[t] <= FakeAt(clock, r, rate)
      BY <1>1, <1>2 DEF SpeedInv, ToldBefore
<1>5. \A u \in Threads : /\ Pending(u) \in Nat /\ Pending(u)' \in Nat
                         /\ Pending(u) <= Pending(u)' /\ Pending(u)' <= time
      BY <1>1, <1>3 DEF SpeedInv, SpeedTypes, Pending, NothingAhead
<1>6. NothingAhead'
      BY <1>1, <1>3, <1>5 DEF NothingAhead, Asked, Base, SpeedInv, SpeedTypes, Clocks
<1>7. \A u \in Threads \ {t} : last'[u] = last[u]
      BY <1>3 DEF SpeedInv, SpeedTypes
<1>8. last'[t] = FakeAt(clock, r, rate)
      BY <1>3 DEF SpeedInv, SpeedTypes
<1>9. clock'.started /\ clock' \in Clocks
      BY <1>3 DEF Asked, SpeedTypes
<1>10. CASE ~clock.started
  <2>1. clock'.baseFake = r /\ FakeAt(clock, r, rate) = r
        BY <1>3, <1>10 DEF Asked, FakeAt
  <2>2. ASSUME NEW u \in Threads PROVE last'[u] <= FakeAt(clock, Pending(u), block.applied)'
    <3>1. PICK s \in Nat : s = Pending(u)'
          BY <1>5
    <3>2. FakeAt(clock', s, rate) \in Nat /\ r <= FakeAt(clock', s, rate)
          BY <1>9, <2>1, NotBeforeBase
    <3>3. last'[u] <= r
          BY <1>7, <1>8, <1>10, <2>1 DEF SpeedInv, ToldBefore
    <3> QED BY <1>2, <3>1, <3>2, <3>3 DEF SpeedTypes
  <2> QED BY <1>4, <1>6, <1>8, <1>9, <2>2 DEF SpeedInv, ToldBefore, SpeedTypes, Clocks
<1>11. CASE clock.started
  <2>1. clock'.baseFake = clock.baseFake /\ clock'.baseReal <= clock.baseReal
        BY <1>3, <1>11 DEF Asked, Base, SpeedInv, SpeedTypes, Clocks
  <2>2. ASSUME NEW u \in Threads PROVE last'[u] <= FakeAt(clock, Pending(u), block.applied)'
    <3>1. PICK p \in Nat : p = Pending(u)
          BY <1>5
    <3>2. PICK s \in Nat : s = Pending(u)' /\ p <= s
          BY <1>5, <3>1
    <3>3. /\ FakeAt(clock, p, rate) \in Nat /\ FakeAt(clock, s, rate) \in Nat
          /\ FakeAt(clock, p, rate) <= FakeAt(clock, s, rate)
          BY <3>2, FakeGrows DEF SpeedInv, SpeedTypes
    <3>4. FakeAt(clock', s, rate) \in Nat
          BY <1>9, NotBeforeBase
    <3>5. FakeAt(clock, s, rate) <= FakeAt(clock', s, rate)
          BY <1>9, <1>11, <2>1, OlderBase DEF SpeedInv, SpeedTypes
    <3>6. last'[u] <= FakeAt(clock, p, rate)
          BY <1>1, <1>2, <1>7, <1>8, <3>1, <3>3 DEF SpeedInv, ToldBefore
    <3>7. FakeAt(clock, Pending(u), block.applied)' = FakeAt(clock', s, rate)
          BY <1>2, <3>2
    <3> QED BY <3>3, <3>4, <3>5, <3>6, <3>7 DEF SpeedTypes
  <2> QED BY <1>4, <1>6, <1>8, <1>9, <2>2 DEF SpeedInv, ToldBefore, SpeedTypes
<1> QED BY <1>10, <1>11 DEF SpeedInv, SpeedTypes, Clocks

--------------------------------------------------------------------------------
(* Types                                                                      *)

LEMMA SpeedTypesKept ==
    ASSUME SpeedInv, SpeedAssumption, [SpeedNext]_speedVars
    PROVE  SpeedTypes'
<1> USE DEF SpeedTypes, Rates, Clocks
<1>1. CASE UNCHANGED speedVars
      BY <1>1 DEF SpeedInv, speedVars, targetSide, control
<1>2. CASE Tick
      BY <1>2 DEF SpeedInv, Tick, control
<1>3. CASE \E t \in Threads : LoadModule(t) \/ EnterHook(t)
      BY <1>3 DEF SpeedInv, LoadModule, EnterHook, control
<1>4. ASSUME NEW t \in Threads, Answer(t) PROVE SpeedTypes'
  <2>1. PICK r \in Nat : r = caller[t]
        BY <1>4 DEF Answer, SpeedInv
  <2>2. FakeOf(r, block.applied) \in Nat
        BY FakeOfIsFakeAt, FakeGrows DEF SpeedInv
  <2>3. Asked(r) \in Clocks
        BY DEF Asked, Base, SpeedInv
  <2> QED BY <1>4, <2>1, <2>2, <2>3 DEF Answer, SpeedInv, control
<1>5. ASSUME NEW next \in Rates, ApplyScale(next)
      PROVE  clock' \in Clocks /\ block' \in [requested : Rates, applied : Rates, unhook : BOOLEAN, alive : BOOLEAN]
  <2>1. FakeOf(time, block.applied) \in Nat
        BY FakeOfIsFakeAt, FakeGrows DEF SpeedInv
  <2>2. Rebased(next) \in Clocks
        BY <2>1 DEF Rebased, SpeedInv
  <2> QED BY <1>5, <2>2 DEF ApplyScale, SpeedInv
<1>6. Real \in Rates
      BY DEF Real, SpeedAssumption
<1>7. CASE Injected
      BY <1>7 DEF SpeedInv, Injected, control
<1>8. CASE Poll
      BY <1>5, <1>6, <1>8 DEF SpeedInv, Poll, Go, control
<1>9. CASE Unpatch
      BY <1>6, <1>9 DEF SpeedInv, Unpatch, RateAfter, control
<1>10. CASE Unhooked
      BY <1>10 DEF SpeedInv, Unhooked, Go, targetSide, control
<1>11. CASE Request
      BY <1>11 DEF SpeedInv, Request, targetSide, control
<1>12. CASE HookAgain
      BY <1>12 DEF SpeedInv, HookAgain, control
<1>13. CASE Apply
  <2>1. worker.want \in Rates /\ worker.since + 1 \in Nat
        BY DEF SpeedInv
  <2>2. PICK since \in Nat : worker' = [worker EXCEPT !.pc = "poll", !.applied = worker.want, !.since = since]
        BY <1>13, <2>1 DEF Apply
  <2>3. worker' \in [pc : {"none", "start", "poll", "unpatch", "unhooked", "request", "hook", "apply"},
                     applied : Rates, want : Rates, since : Nat, hooked : BOOLEAN]
        BY <2>1, <2>2 DEF SpeedInv
  <2>4. clock' \in Clocks /\ block' \in [requested : Rates, applied : Rates, unhook : BOOLEAN, alive : BOOLEAN]
        BY <1>5, <1>13, <2>1 DEF Apply, SpeedInv
  <2> QED BY <1>13, <2>3, <2>4 DEF SpeedInv, Apply, control
<1>14. CASE \E s \in Scales : SetScale(s)
      BY <1>14 DEF SpeedInv, SetScale, Go, SpeedAssumption, targetSide
<1>15. CASE Reset
      BY <1>6, <1>15 DEF SpeedInv, Reset, targetSide
<1>16. CASE Forget
      BY <1>16 DEF SpeedInv, Forget, targetSide
<1>17. CASE Finishes
      BY <1>17 DEF SpeedInv, Finishes, WriteScale, WriteUnhook, targetSide
<1> QED BY <1>1, <1>2, <1>3, <1>4, <1>7, <1>8, <1>9, <1>10, <1>11, <1>12, <1>13, <1>14, <1>15, <1>16, <1>17
        DEF SpeedNext, Worker, Controller, Target

--------------------------------------------------------------------------------

LEMMA SpeedKept ==
    ASSUME SpeedInv, SpeedAssumption, [SpeedNext]_speedVars
    PROVE  SpeedInv' /\ \A t \in Threads : last'[t] >= last[t]
<1>0. SpeedTypes'
      BY SpeedTypesKept
<1>a. \A t \in Threads : last[t] \in Nat
      BY DEF SpeedInv, SpeedTypes
<1>b. \A t \in Threads : Pending(t) \in Nat /\ Pending(t) <= time
      BY PendingReal DEF SpeedInv, NothingAhead
<1>c. time \in Nat
      BY DEF SpeedInv, SpeedTypes
<1>1. ASSUME UNCHANGED <<time, clock, caller, last>>, block'.applied = block.applied
      PROVE  SpeedInv' /\ \A t \in Threads : last'[t] >= last[t]
  <2>1. \A t \in Threads : Pending(t)' = Pending(t)
        BY <1>1 DEF Pending
  <2> QED BY <1>0, <1>a, <1>b, <1>c, <1>1, <2>1, TimePasses
<1>2. CASE Tick
  <2>1. \A t \in Threads : Pending(t) <= Pending(t)' /\ Pending(t)' <= time'
        BY <1>2, <1>b, <1>c DEF Tick, Pending
  <2> QED BY <1>0, <1>2, <1>a, <1>c, <2>1, TimePasses DEF Tick
<1>3. ASSUME NEW t \in Threads, EnterHook(t)
      PROVE  SpeedInv' /\ \A u \in Threads : last'[u] >= last[u]
  <2>1. \A u \in Threads : Pending(u) <= Pending(u)' /\ Pending(u)' <= time'
        BY <1>3, <1>b, <1>c DEF EnterHook, Pending, SpeedInv, SpeedTypes
  <2> QED BY <1>0, <1>3, <1>a, <1>c, <2>1, TimePasses DEF EnterHook
<1>4. ASSUME NEW t \in Threads, Answer(t)
      PROVE  SpeedInv' /\ \A u \in Threads : last'[u] >= last[u]
  <2>1. \A u \in Threads \ {t} : last'[u] = last[u]
        BY <1>4 DEF Answer, SpeedInv, SpeedTypes
  <2> QED BY <1>0, <1>4, <1>a, <2>1, AnswerIsLater
<1>5. ASSUME NEW next, ApplyScale(next), UNCHANGED <<time, caller, last>>
      PROVE  SpeedInv' /\ \A t \in Threads : last'[t] >= last[t]
      BY <1>0, <1>5, <1>a, RateChanges
<1>6. CASE UNCHANGED speedVars
      BY <1>1, <1>6 DEF speedVars, targetSide
<1>7. CASE \E t \in Threads : LoadModule(t)
      BY <1>1, <1>7 DEF LoadModule
<1>8. CASE Injected
      BY <1>1, <1>8 DEF Injected, SpeedInv, SpeedTypes
<1>9. CASE Poll
      BY <1>1, <1>5, <1>9 DEF Poll
<1>10. CASE Unpatch
      BY <1>1, <1>10 DEF Unpatch
<1>11. CASE Unhooked
      BY <1>1, <1>11 DEF Unhooked, targetSide, SpeedInv, SpeedTypes
<1>12. CASE Request
      BY <1>1, <1>12 DEF Request, targetSide
<1>13. CASE HookAgain
      BY <1>1, <1>13 DEF HookAgain, SpeedInv, SpeedTypes
<1>14. CASE Apply
      BY <1>1, <1>5, <1>14 DEF Apply
<1>15. CASE Controller
      BY <1>1, <1>15 DEF Controller, Finishes, SetScale, Reset, Forget, WriteScale, WriteUnhook, targetSide, SpeedInv, SpeedTypes
<1> QED BY <1>2, <1>3, <1>4, <1>6, <1>7, <1>8, <1>9, <1>10, <1>11, <1>12, <1>13, <1>14, <1>15
        DEF SpeedNext, Worker, Target

(* Two answers of the hook to one thread never go backwards, for any threads, *)
(* rates and units: whatever the user sets, resets and sets again between     *)
(* them, and however old the real time a call has in hand when the base moves *)
(* (fakeOf and applyScale of the payload).                                    *)
THEOREM ClockNeverBack == ASSUME SpeedAssumption PROVE SpeedSpec => ClockMonotonic
<1>1. SpeedInit => SpeedInv
      BY SpeedStarts
<1>2. SpeedInv /\ [SpeedNext]_speedVars => SpeedInv'
      BY SpeedKept
<1>3. SpeedInv /\ [SpeedNext]_speedVars => [\A t \in Threads : last'[t] >= last[t]]_speedVars
      BY SpeedKept
<1> QED BY <1>1, <1>2, <1>3, PTL DEF SpeedSpec, ClockMonotonic
================================================================================
