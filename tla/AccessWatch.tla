------------------------------ MODULE AccessWatch -------------------------------
(* "Find out what accesses this address": a hardware data breakpoint, whose   *)
(* hits the pump's thread gathers by the instruction that trapped, and the    *)
(* user, who starts, stops and clears the list and sets breakpoints of        *)
(* another kind meanwhile.                                                    *)
EXTENDS Integers, FiniteSets

CONSTANTS
    Watched,        \* addresses
    Traps,          \* where the processor reports an access
    Nowhere,
    SlotCount,      \* debug registers
    MaxSites,       \* 256 in the program
    MaxHits, MaxCalls

WatchAssumption == SlotCount \in Nat /\ MaxSites \in Nat \ {0} /\ Nowhere \notin Watched \cup Traps

VARIABLES
    watch,          \* [active, watched, total, truncated]
    sites,          \* trap -> hits, in the order of nobody
    armed,          \* addresses with a hardware breakpoint
    debugged,       \* the pump is attached
    recorder,       \* the thread that reports hits: [pc, address, trap]
    starter,        \* [pc, address]
    foreign,        \* history: hits in the list that were not the watch's
    hits, calls

watchVars == <<watch, sites, armed, debugged, recorder, starter, foreign, hits, calls>>

WatchInit ==
    /\ watch = [active |-> FALSE, watched |-> Nowhere, total |-> 0, truncated |-> FALSE]
    /\ sites = [t \in {} |-> 0]
    /\ armed = {} /\ debugged = FALSE
    /\ recorder = [pc |-> "wait", address |-> Nowhere, trap |-> Nowhere]
    /\ starter = [pc |-> "idle", address |-> Nowhere]
    /\ foreign = 0 /\ hits = 0 /\ calls = 0

--------------------------------------------------------------------------------
(* The pump's thread                                                          *)

(* The address is compared before record takes the watch's lock.              *)
AnyHit(a) == TRUE          \* mutant: every breakpoint feeds the watch
OfWatch(a) == a = watch.watched

Hit(a, t) ==
    /\ recorder.pc = "wait" /\ debugged /\ a \in armed /\ hits < MaxHits /\ hits' = hits + 1
    /\ recorder' = IF OfWatch(a) THEN [pc |-> "record", address |-> a, trap |-> t] ELSE recorder
    /\ UNCHANGED <<watch, sites, armed, debugged, starter, foreign, calls>>

Done == recorder' = [recorder EXCEPT !.pc = "wait"]

CountInto ==
    /\ sites' = [t \in DOMAIN sites \cup {recorder.trap} |->
                   (IF t \in DOMAIN sites THEN sites[t] ELSE 0) + (IF t = recorder.trap THEN 1 ELSE 0)]
    /\ watch' = [watch EXCEPT !.total = @ + 1]
    /\ foreign' = foreign + (IF recorder.address # watch.watched THEN 1 ELSE 0)

DropSite == watch' = [watch EXCEPT !.truncated = TRUE, !.total = @ + 1] /\ UNCHANGED <<sites, foreign>>

(* record: a trap already seen is counted, a new one is looked up outside the *)
(* lock unless the list is full.                                              *)
Record ==
    /\ recorder.pc = "record"
    /\ CASE ~watch.active -> Done /\ UNCHANGED <<watch, sites, foreign>>
         [] watch.active /\ recorder.trap \in DOMAIN sites -> Done /\ CountInto
         [] watch.active /\ recorder.trap \notin DOMAIN sites /\ Cardinality(DOMAIN sites) >= MaxSites -> Done /\ DropSite
         [] OTHER -> recorder' = [recorder EXCEPT !.pc = "resolved"] /\ UNCHANGED <<watch, sites, foreign>>
    /\ UNCHANGED <<armed, debugged, starter, hits, calls>>

NeverStopped == TRUE            \* mutant: checked before the lookup only
StillActive == watch.active

RecordResolved ==
    /\ recorder.pc = "resolved" /\ Done
    /\ IF StillActive THEN CountInto ELSE UNCHANGED <<watch, sites, foreign>>
    /\ UNCHANGED <<armed, debugged, starter, hits, calls>>

--------------------------------------------------------------------------------
(* The user                                                                   *)

User(pc, a) == starter' = [pc |-> pc, address |-> a]
Empty == sites' = [t \in {} |-> 0] /\ foreign' = 0

Call == starter.pc = "idle" /\ calls < MaxCalls /\ calls' = calls + 1

(* startAccessWatch: the debugger is attached, the list begun, then the       *)
(* breakpoint armed.                                                          *)
StartWatch(a) ==
    /\ Call /\ debugged' = TRUE /\ User("begin", a)
    /\ UNCHANGED <<watch, sites, armed, recorder, foreign, hits>>

Begin ==
    /\ starter.pc = "begin"
    /\ watch' = [active |-> TRUE, watched |-> starter.address, total |-> 0, truncated |-> FALSE]
    /\ Empty /\ User("arm", starter.address)
    /\ UNCHANGED <<armed, debugged, recorder, hits, calls>>

CanArm(a) == debugged /\ a \notin armed /\ Cardinality(armed) < SlotCount

Arm ==
    /\ starter.pc = "arm" /\ CanArm(starter.address)
    /\ armed' = armed \cup {starter.address} /\ User("idle", Nowhere)
    /\ UNCHANGED <<watch, sites, debugged, recorder, foreign, hits, calls>>

(* Refused: the watch that was just begun is stopped.                         *)
ArmRefused ==
    /\ starter.pc = "arm" /\ ~CanArm(starter.address)
    /\ watch' = [watch EXCEPT !.active = FALSE] /\ User("idle", Nowhere)
    /\ UNCHANGED <<sites, armed, debugged, recorder, foreign, hits, calls>>

(* stopAccessWatch: recording stops before the breakpoint goes.  The address  *)
(* stays the watch's afterwards.                                              *)
StopWatch ==
    /\ Call /\ User(IF watch.watched = Nowhere THEN "idle" ELSE "remove", watch.watched)
    /\ watch' = [watch EXCEPT !.active = FALSE]
    /\ UNCHANGED <<sites, armed, debugged, recorder, foreign, hits>>

RemoveBreakpoint ==
    /\ starter.pc = "remove" /\ armed' = armed \ {starter.address} /\ User("idle", Nowhere)
    /\ UNCHANGED <<watch, sites, debugged, recorder, foreign, hits, calls>>

Clear ==
    /\ Call /\ watch' = [watch EXCEPT !.total = 0, !.truncated = FALSE] /\ Empty
    /\ UNCHANGED <<armed, debugged, recorder, starter, hits>>

(* The breakpoints panel: one of the user's own, or the debugger detached.    *)
SetBreakpoint(a) ==
    /\ Call /\ a \notin armed /\ Cardinality(armed) < SlotCount
    /\ debugged' = TRUE /\ armed' = armed \cup {a}
    /\ UNCHANGED <<watch, sites, recorder, starter, foreign, hits>>

LeaveDebugger ==
    /\ Call /\ debugged /\ debugged' = FALSE /\ armed' = {} /\ recorder.pc = "wait"
    /\ UNCHANGED <<watch, sites, recorder, starter, foreign, hits>>

WatchNext ==
    \/ \E a \in Watched, t \in Traps : Hit(a, t)
    \/ Record \/ RecordResolved
    \/ \E a \in Watched : StartWatch(a) \/ SetBreakpoint(a)
    \/ Begin \/ Arm \/ ArmRefused \/ StopWatch \/ RemoveBreakpoint \/ Clear \/ LeaveDebugger

WatchSpec == WatchInit /\ [][WatchNext]_watchVars

--------------------------------------------------------------------------------
(* Properties                                                                 *)

(* The list's hits, each by its row and its number in the row.                *)
Shown == UNION {{t} \X (1 .. sites[t]) : t \in DOMAIN sites}

(* The list can be believed: the hits of its rows are the total, unless the   *)
(* list says it is cut short, and then the total still counts every hit; and  *)
(* whatever is begun, stopped or cleared while a hit is being looked up, at   *)
(* most the one hit in flight belongs to the watch before.                    *)
ListHonest ==
    LET shown == Cardinality(Shown) IN
    /\ IF watch.truncated THEN watch.total > shown ELSE watch.total = shown
    /\ foreign <= 1

(* A list that was stopped does not move: a hit whose instruction is still    *)
(* being disassembled when the user presses Stop is dropped.                  *)
StaysStopped ==
    ~watch.active /\ ~watch'.active =>
      DOMAIN sites' \subseteq DOMAIN sites /\ \A t \in DOMAIN sites' : sites'[t] = sites[t]
StoppedStandsStill == [][StaysStopped]_watchVars
================================================================================
