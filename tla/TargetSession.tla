------------------------------ MODULE TargetSession ------------------------------
(* The one process the program is attached to, and what is derived from its   *)
(* module and region tables: the exports the resolver has parsed, the sorted  *)
(* ranges of the dissector, and the window's copy.  The window, scripts and MCP *)
(* calls reach the session from threads of their own.                         *)
EXTENDS Integers, FiniteSets

CONSTANTS
    Targets,        \* processes there are
    Bases,          \* where a module can be loaded
    Absent,         \* no process; a module that is not loaded
    Readers,        \* threads that resolve exports
    Keepers,        \* who keeps a copy of the tables: the window, the dissector
    MaxGeneration

SessionAssumption == Absent \notin Targets \cup Bases /\ Bases # {} /\ MaxGeneration \in Nat

VARIABLES
    loaded,         \* pid -> where its client.dll is now, or Absent
    session,        \* [pid, base, generation]: base stands for both tables
    opening,        \* a process an attach has opened and not yet installed
    exportCache,    \* [generation, entries: base -> the process parsed]
    reader,         \* reader -> [pc, generation, base, from]
    copies          \* keeper -> [pc, generation, base]

sessionVars == <<loaded, session, opening, exportCache, reader, copies>>
derived == <<exportCache, reader, copies>>

AtRest == [pc |-> "idle", generation |-> 0, base |-> Absent, from |-> {}]
Copy == [pc |-> "idle", generation |-> 0, base |-> Absent]

SessionInit ==
    /\ loaded = [p \in Targets |-> CHOOSE b \in Bases : TRUE]
    /\ session = [pid |-> Absent, base |-> Absent, generation |-> 1]
    /\ opening = Absent
    /\ exportCache = [generation |-> 0, entries |-> [b \in {} |-> Absent]]
    /\ reader = [r \in Readers |-> AtRest]
    /\ copies = [k \in Keepers |-> Copy]

--------------------------------------------------------------------------------
(* The session: the handle is opened outside its lock, the rest is one        *)
(* critical section that moves the generation.                                *)

BaseIn(pid) == IF pid = Absent THEN Absent ELSE loaded[pid]
SameGeneration(pid) ==                           \* mutant: the tables move alone
    session' = [pid |-> pid, base |-> BaseIn(pid), generation |-> session.generation]
TakeTables(pid) ==
    session' = [pid |-> pid, base |-> BaseIn(pid), generation |-> session.generation + 1]

CanMove == session.generation < MaxGeneration

OpenProcess(pid) ==
    /\ opening = Absent /\ CanMove /\ opening' = pid
    /\ UNCHANGED <<loaded, session, derived>>

Attach ==
    /\ opening # Absent /\ CanMove /\ TakeTables(opening) /\ opening' = Absent
    /\ UNCHANGED <<loaded, derived>>

Detach ==
    /\ CanMove /\ TakeTables(Absent)
    /\ UNCHANGED <<loaded, opening, derived>>

Refresh ==
    /\ session.pid # Absent /\ CanMove /\ TakeTables(session.pid)
    /\ UNCHANGED <<loaded, opening, derived>>

(* The target loads, unloads or moves the module; nobody is told.             *)
ModuleMoves(pid) ==
    /\ loaded[pid] # Absent /\ CanMove
    /\ \E base \in (Bases \cup {Absent}) \ {loaded[pid]} : loaded' = [loaded EXCEPT ![pid] = base]
    /\ UNCHANGED <<session, opening, derived>>

--------------------------------------------------------------------------------
(* ExportResolver::exports                                                    *)

(* moduleBase, a critical section of its own.                                 *)
LookUpModule(r) ==
    /\ reader[r].pc = "idle" /\ session.base # Absent
    /\ reader' = [reader EXCEPT ![r] = [pc |-> "generation", generation |-> 0, base |-> session.base, from |-> {}]]
    /\ UNCHANGED <<loaded, session, opening, exportCache, copies>>

ReadGeneration(r) ==
    /\ reader[r].pc = "generation"
    /\ reader' = [reader EXCEPT ![r] = IF session.pid = Absent THEN AtRest
                                       ELSE [@ EXCEPT !.pc = "cache", !.generation = session.generation]]
    /\ UNCHANGED <<loaded, session, opening, exportCache, copies>>

(* Another generation empties the cache; otherwise a hit is the answer.       *)
LookInCache(r) ==
    LET old == exportCache.generation # reader[r].generation IN
    /\ reader[r].pc = "cache"
    /\ IF old THEN exportCache' = [generation |-> reader[r].generation, entries |-> [b \in {} |-> Absent]]
              ELSE UNCHANGED exportCache
    /\ reader' = [reader EXCEPT ![r] = IF ~old /\ @.base \in DOMAIN exportCache.entries THEN AtRest
                                       ELSE [@ EXCEPT !.pc = "parse"]]
    /\ UNCHANGED <<loaded, session, opening, copies>>

(* The headers, the tables and the names are read one after the other; a read *)
(* that finds no process, or no module there, gives up.                       *)
ParseSome(r) ==
    /\ reader[r].pc = "parse"
    /\ reader' = [reader EXCEPT ![r] =
                    IF session.pid = Absent \/ loaded[session.pid] # @.base THEN AtRest
                    ELSE [@ EXCEPT !.from = reader[r].from \cup {session.pid}]]
    /\ UNCHANGED <<loaded, session, opening, exportCache, copies>>

AlwaysStore(r) == TRUE                           \* mutant: stored unseen
StillCurrent(r) == session.generation = reader[r].generation

StoreExports(r) ==
    /\ reader[r].pc = "parse" /\ reader[r].from # {}
    /\ IF StillCurrent(r)
       THEN exportCache' = [generation |-> reader[r].generation,
                            entries |-> [b \in DOMAIN exportCache.entries \cup {reader[r].base} |->
                                           IF b = reader[r].base THEN reader[r].from ELSE exportCache.entries[b]]]
       ELSE UNCHANGED exportCache
    /\ reader' = [reader EXCEPT ![r] = AtRest]
    /\ UNCHANGED <<loaded, session, opening, copies>>

--------------------------------------------------------------------------------
(* The window's and the dissector's copies: the generation, then the tables   *)

Seen(c) == [pc |-> "copy", generation |-> session.generation, base |-> c.base]
Copied(c) == [pc |-> "idle", generation |-> c.generation, base |-> session.base]

RefreshCopy(k) ==
    /\ copies[k].pc = "copy" \/ copies[k].generation # session.generation
    /\ copies' = [copies EXCEPT ![k] = IF @.pc = "copy" THEN Copied(@) ELSE Seen(@)]
    /\ UNCHANGED <<loaded, session, opening, exportCache, reader>>

SessionNext ==
    \/ \E pid \in Targets : OpenProcess(pid) \/ ModuleMoves(pid)
    \/ Attach \/ Detach \/ Refresh
    \/ \E r \in Readers : \/ LookUpModule(r) \/ ReadGeneration(r) \/ LookInCache(r)
                          \/ ParseSome(r) \/ StoreExports(r)
    \/ \E k \in Keepers : RefreshCopy(k)

SessionSpec == SessionInit /\ [][SessionNext]_sessionVars

--------------------------------------------------------------------------------
(* Properties                                                                 *)

CopyTrue(c) == c.pc = "idle" /\ c.generation = session.generation => c.base = session.base

(* Whatever is kept with the generation of now is of now: the window's and    *)
(* the dissector's copies are the session's tables, and every export table    *)
(* the resolver would answer from was parsed from the attached process alone, *)
(* though its parts are read one lock at a time, by several threads, while    *)
(* others attach, refresh and detach.                                         *)
CachesTellTheTruth ==
    /\ \A k \in Keepers : CopyTrue(copies[k])
    /\ exportCache.generation = session.generation =>
         \A b \in DOMAIN exportCache.entries : exportCache.entries[b] = {session.pid}
================================================================================
