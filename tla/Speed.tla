---------------------------------- MODULE Speed ----------------------------------
(* The speed hack: SpeedController on one side, the payload in the target on  *)
(* the other, and the control block both of them read and write.  The         *)
(* payload's worker polls it; the target's threads ask the time through their *)
(* import tables, hooked or not.  One clock stands for the four, which differ *)
(* in their units.                                                            *)
EXTENDS Integers, FiniteSets

CONSTANTS
    Threads,        \* of the target, each asking through a module of its own
    LateThreads,    \* those whose module is loaded after the payload
    Scales,         \* what the user asks for, in units of 1/Unit
    Unit,
    MaxTime,        \* the real clock stops here
    MaxSettings,    \* calls of the user's that set a rate or give up the hooks
    RescanEvery     \* polls between two looks for new modules: 60 in the program

SpeedAssumption == Unit \in Nat \ {0} /\ Scales \subseteq Nat \ {0} /\ RescanEvery \in Nat \ {0}

VARIABLES
    time,           \* the real clock
    clock,          \* [started, baseReal, baseFake], under the payload's lock
    block,          \* the control block: [requested, applied, unhook, alive]
    hooked,         \* threads whose import leads to the hook
    present,        \* threads whose module is loaded
    worker,         \* the payload's: [pc, applied, want, since, hooked]; "none": not injected
    caller,         \* a thread's call: "idle", or the real time it read
    last,           \* history: what the hook last told a thread
    controller,     \* where it is: [pc, scale]
    located,        \* requestedScale_ # 0
    settings, wish  \* bound; history: what the last call asked for

targetSide == <<time, clock, hooked, present, caller, last>>
control == <<controller, located, settings, wish>>
speedVars == <<targetSide, block, worker, control>>

Idle == -1
Real == Unit     \* the scale of real time

SpeedInit ==
    /\ time = 0
    /\ clock = [started |-> FALSE, baseReal |-> 0, baseFake |-> 0]
    /\ block = [requested |-> Real, applied |-> Real, unhook |-> FALSE, alive |-> FALSE]
    /\ hooked = {} /\ present = Threads \ LateThreads
    /\ worker = [pc |-> "none", applied |-> Real, want |-> Real, since |-> 0, hooked |-> FALSE]
    /\ caller = [t \in Threads |-> Idle]
    /\ last = [t \in Threads |-> 0]
    /\ controller = [pc |-> "idle", scale |-> Real] /\ located = FALSE
    /\ settings = 0 /\ wish = Real

--------------------------------------------------------------------------------
(* The clock                                                                  *)

(* What the hook answers; a real value older than the base moves the base     *)
(* back to it.                                                                *)
Base(real) == IF clock.started /\ clock.baseReal <= real THEN clock.baseReal ELSE real
FakeOf(real, scale) ==
    IF clock.started THEN clock.baseFake + ((real - Base(real)) * scale) \div Unit ELSE real
Asked(real) ==
    [started |-> TRUE, baseReal |-> Base(real),
     baseFake |-> IF clock.started THEN clock.baseFake ELSE real]

NoRebase(next) == clock              \* mutant: an assignment rather than a rebase
Rebased(next) ==
    IF clock.started
    THEN [started |-> TRUE, baseReal |-> time, baseFake |-> FakeOf(time, block.applied)]
    ELSE clock

(* ApplyScale: under the lock.                                                *)
ApplyScale(next) ==
    /\ clock' = Rebased(next)
    /\ block' = [block EXCEPT !.applied = next]

--------------------------------------------------------------------------------
(* The target                                                                 *)

Tick ==
    /\ time < MaxTime /\ time' = time + 1
    /\ UNCHANGED <<clock, hooked, present, caller, last, block, worker, control>>

LoadModule(t) ==
    /\ t \notin present /\ present' = present \cup {t}
    /\ UNCHANGED <<time, clock, hooked, caller, last, block, worker, control>>

(* In the hook the real clock is read first, then the lock is taken.          *)
EnterHook(t) ==
    /\ t \in hooked /\ caller[t] = Idle
    /\ caller' = [caller EXCEPT ![t] = time]
    /\ UNCHANGED <<time, clock, hooked, present, last, block, worker, control>>

Answer(t) ==
    /\ caller[t] # Idle
    /\ last' = [last EXCEPT ![t] = FakeOf(caller[t], block.applied)]
    /\ clock' = Asked(caller[t])
    /\ caller' = [caller EXCEPT ![t] = Idle]
    /\ UNCHANGED <<time, hooked, present, block, worker, control>>

--------------------------------------------------------------------------------
(* The payload's worker                                                       *)

PatchEverything == hooked' = hooked \cup present
Go(where) == worker' = [worker EXCEPT !.pc = where]

Injected ==
    /\ worker.pc = "start"
    /\ PatchEverything
    /\ block' = [block EXCEPT !.alive = TRUE]
    /\ worker' = [worker EXCEPT !.pc = "poll", !.applied = block.applied, !.hooked = TRUE]
    /\ UNCHANGED <<time, clock, present, caller, last, control>>

Poll ==
    /\ worker.pc = "poll"
    /\ IF block.unhook
       THEN Go("unpatch") /\ ApplyScale(Real)
       ELSE Go("request") /\ UNCHANGED <<clock, block>>
    /\ UNCHANGED <<time, hooked, present, caller, last, control>>

LeaveOn(r) == r                        \* mutant: takes the rate asked for before for its own
RateAfter(r) == Real
Unpatch ==
    /\ worker.pc = "unpatch"
    /\ hooked' = {}
    /\ worker' = [worker EXCEPT !.pc = "unhooked", !.applied = RateAfter(worker.applied), !.hooked = FALSE]
    /\ UNCHANGED <<time, clock, present, caller, last, block, control>>

Unhooked ==
    /\ worker.pc = "unhooked"
    /\ block' = [block EXCEPT !.unhook = FALSE, !.alive = FALSE]
    /\ Go("request")
    /\ UNCHANGED <<targetSide, control>>

(* The request is read once a poll.  Unhooked, the worker idles until it is   *)
(* for something other than real time.                                        *)
Request ==
    /\ worker.pc = "request"
    /\ worker' = [worker EXCEPT !.want = block.requested,
                     !.pc = IF worker.hooked THEN "apply"
                            ELSE IF block.requested # Real THEN "hook" ELSE "poll"]
    /\ UNCHANGED <<targetSide, block, control>>

HookAgain ==
    /\ worker.pc = "hook"
    /\ PatchEverything
    /\ block' = [block EXCEPT !.alive = TRUE]
    /\ worker' = [worker EXCEPT !.pc = "apply", !.hooked = TRUE, !.since = 0]
    /\ UNCHANGED <<time, clock, present, caller, last, control>>

(* Then the rate, and every so often a look for new modules.                  *)
Apply ==
    /\ worker.pc = "apply"
    /\ LET since == worker.since + 1
           rescan == since >= RescanEvery IN
       /\ worker' = [worker EXCEPT !.pc = "poll", !.applied = worker.want,
                                   !.since = IF rescan THEN 0 ELSE since]
       /\ IF rescan THEN PatchEverything ELSE UNCHANGED hooked
    /\ IF worker.want # worker.applied THEN ApplyScale(worker.want) ELSE UNCHANGED <<clock, block>>
    /\ UNCHANGED <<time, present, caller, last, control>>

--------------------------------------------------------------------------------
(* The controller                                                             *)

(* setScale: the first call injects the payload, or finds it there.           *)
SetScale(s) ==
    /\ controller.pc = "idle" /\ settings < MaxSettings /\ settings' = settings + 1
    /\ located' = TRUE
    /\ IF worker.pc = "none" THEN Go("start") ELSE UNCHANGED worker
    /\ controller' = [pc |-> "write", scale |-> s]
    /\ UNCHANGED <<targetSide, block, wish>>

WriteScale ==
    /\ controller.pc = "write"
    /\ block' = [block EXCEPT !.requested = controller.scale]
    /\ wish' = controller.scale
    /\ controller' = [controller EXCEPT !.pc = "idle"]
    /\ UNCHANGED <<targetSide, worker, located, settings>>

(* reset: the rate first, the hooks after; nothing if nothing was injected.   *)
Reset ==
    /\ controller.pc = "idle" /\ located /\ settings < MaxSettings /\ settings' = settings + 1
    /\ block' = [block EXCEPT !.requested = Real]
    /\ controller' = [controller EXCEPT !.pc = "unhook"]
    /\ UNCHANGED <<targetSide, worker, located, wish>>

WriteUnhook ==
    /\ controller.pc = "unhook"
    /\ block' = [block EXCEPT !.unhook = TRUE]
    /\ wish' = 0
    /\ controller' = [controller EXCEPT !.pc = "idle"]
    /\ UNCHANGED <<targetSide, worker, located, settings>>

Forget ==
    /\ controller.pc = "idle" /\ located
    /\ located' = FALSE
    /\ UNCHANGED <<targetSide, block, worker, controller, settings, wish>>

--------------------------------------------------------------------------------
Worker == Injected \/ Poll \/ Unpatch \/ Unhooked \/ Request \/ HookAgain \/ Apply
Finishes == WriteScale \/ WriteUnhook
Controller == (\E s \in Scales : SetScale(s)) \/ Reset \/ Forget \/ Finishes
Target == Tick \/ \E t \in Threads : LoadModule(t) \/ EnterHook(t) \/ Answer(t)
SpeedNext == Worker \/ Controller \/ Target

SpeedSpec == SpeedInit /\ [][SpeedNext]_speedVars

(* The worker's loop sleeps 8 ms and goes on; a call of the user's returns.   *)
FairSpeedSpec == SpeedSpec /\ WF_speedVars(Worker) /\ WF_speedVars(Finishes)

--------------------------------------------------------------------------------
(* Properties                                                                 *)

(* Two answers of the hook to one thread never go backwards, whatever changes *)
(* of rate, unhooking and hooking again lie between and however old the real  *)
(* time is that a call has in hand when the bases move under it.              *)
ClockMonotonic == [][\A t \in Threads : last'[t] >= last[t]]_speedVars

(* When the user has stopped asking, the payload does as he asked last: the   *)
(* rate in force is the one he wants with every module hooked, or there is    *)
(* not one hook left.                                                         *)
DoesAsAsked ==
    <>[](worker.pc # "none" =>
            IF wish = 0 THEN hooked = {}
            ELSE block.applied = wish /\ (wish # Real => hooked = present))
================================================================================
