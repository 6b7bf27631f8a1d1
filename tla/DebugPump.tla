------------------------------- MODULE DebugPump -------------------------------
(***************************************************************************)
(* DebugEventPump (platform_win32): software and hardware breakpoints in a *)
(* live target.  Three parties interleave: the target's threads, the pump  *)
(* thread that answers debug events, and the UI thread that attaches,      *)
(* detaches, adds and removes.  Windows suspends the whole target from a   *)
(* debug event to its ContinueDebugEvent, and every handler below runs     *)
(* under mutex_, so one event handled is one step.  A thread has at most   *)
(* one event in flight; events of different threads race to the queue, so  *)
(* the pump may meet them in any order.                                    *)
(***************************************************************************)
EXTENDS Naturals, FiniteSets

CONSTANTS
    Threads,        \* the target's thread ids
    SwAddrs,        \* where the user sets software breakpoints
    HwAddrs,        \* where the user sets hardware breakpoints
    OwnInt3,        \* addresses whose own instruction is an int3
    SlotCount,      \* debug registers the processor has (debugSlotCount, 4)
    Executes,       \* the addresses a thread's code comes through
    ReaddSteppedOver, \* TRUE: the user may set a breakpoint again at an address
                    \* some thread is still stepping over
    Faults,         \* platform calls that may fail: "write", "context"
    DrainExpires,   \* TRUE: the drain's 2 s deadline may cut it short
    None            \* "no address", "no register"

Addrs == SwAddrs \cup HwAddrs \cup OwnInt3
Slots == 0 .. SlotCount - 1

ASSUME DebugPumpAssumption ==
    /\ SlotCount \in Nat
    /\ Faults \subseteq {"write", "context"}
    /\ Executes \in [Threads -> SUBSET Addrs]
    /\ DrainExpires \in BOOLEAN /\ ReaddSteppedOver \in BOOLEAN
    /\ None \notin Addrs \cup Slots
    /\ SwAddrs \cap OwnInt3 = {} /\ HwAddrs \cap OwnInt3 = {}

VARIABLES
    \* the target
    mem,            \* the byte at each address: "code" is the program's own
    mode,           \* what each thread is doing, see Modes
    at,             \* the address a thread's mode is about
    regs,           \* DR0-DR3 of each thread, as the address each watches
    dr6,            \* DR6 of each thread: the registers that reported
    fate,           \* "alive", "exited", or "killed" by a stray exception
    breakin,        \* the loader breakpoint an attach raises: "none", "pending"
    \* the pump
    pump,           \* where run() is: "off", "loop", "disarm", "drain", "release"
    sawInitialBreakpoint,
    breakpoints,    \* address -> entry (breakpoints_)
    stepping,       \* thread -> address it steps over (stepping_)
    disarmed,       \* addresses whose trap may still be in flight (disarmed_)
    hardwareUsed,
    \* the UI thread: "idle", or "detaching", blocked in detach()'s join
    ui,
    \* history: addresses holding a stray int3 when this attach began,
    \* exceptions that reached the wrong party, and the address the last event
    \* handled was reported for (the onHit_ callback)
    inherited, misdelivered, reported

target == <<mem, mode, at, regs, dr6, fate, breakin>>
history == <<inherited, misdelivered, reported>>
tables == <<breakpoints, stepping, disarmed, hardwareUsed>>
vars == <<target, pump, sawInitialBreakpoint, tables, ui, history>>

(* "trap": executed an int3, event in flight.  "tf": rewound onto the        *)
(* original instruction with the trap flag set.  "step": single-step event   *)
(* in flight.  "new" / "exit": CREATE_THREAD / EXIT_THREAD in flight.         *)
(* "derailed": resumed one byte past an int3, in the tail of an instruction.  *)
Modes == {"gone", "new", "run", "trap", "tf", "step", "exit", "derailed"}
InFlight == {"new", "trap", "step", "exit"}

NoEntry == [kind |-> "none", originalByte |-> "zero", slot |-> None]
(* A hardware entry never reads the byte: originalByte keeps its default 0.  *)
Software(byte) == [kind |-> "software", originalByte |-> byte, slot |-> None]
Hardware(s) == [kind |-> "hardware", originalByte |-> "zero", slot |-> s]
Bytes == {"code", "int3", "zero"}
Entries == {NoEntry} \cup {Software(b) : b \in {"code", "zero"}} \cup {Hardware(s) : s \in Slots}

Program == [a \in Addrs |-> IF a \in OwnInt3 THEN "int3" ELSE "code"]
Found(a) == breakpoints[a] # NoEntry
SteppingOver(a) == \E t \in Threads : stepping[t] = a
Debugged == pump # "off"

(* Whether a platform call of this kind succeeds: it always may, and fails    *)
(* only where the configuration lets it.                                      *)
Outcomes(call) == IF call \in Faults THEN BOOLEAN ELSE {TRUE}

--------------------------------------------------------------------------------
(* Debug registers, always written wholesale from the table.                  *)

HardwareArmedPastSlotZero ==    \* mutant: slot 0 taken for "no slot"
    {a \in Addrs : breakpoints[a].kind = "hardware" /\ breakpoints[a].slot > 0}
HardwareArmed == {a \in Addrs : breakpoints[a].kind = "hardware"}

Image(table) ==
    [s \in Slots |-> IF \E a \in Addrs : table[a].slot = s
                     THEN CHOOSE a \in Addrs : table[a].slot = s
                     ELSE None]

FreeDebugSlot(s) ==
    LET free == {r \in Slots : \A a \in Addrs : breakpoints[a].slot # r}
    IN s \in free /\ \A r \in free : s <= r

(* applyDebugRegistersToAllThreads: every thread whose context the platform   *)
(* lets us write gets the table's registers, and a cleared DR6.               *)
ApplyLeavesStatus(table) ==    \* mutant: an old DR6 survives the new registers
    /\ regs' = [t \in Threads |-> IF mode[t] \notin {"gone", "exit"} THEN Image(table) ELSE regs[t]]
    /\ UNCHANGED dr6
ApplyToAllThreads(table) ==
    \E skipped \in (IF "context" \in Faults THEN SUBSET Threads ELSE {{}}) :
        LET written == {t \in Threads \ skipped : mode[t] \notin {"gone", "exit"}} IN
        /\ regs' = [t \in Threads |-> IF t \in written THEN Image(table) ELSE regs[t]]
        /\ dr6' = [t \in Threads |-> IF t \in written THEN {} ELSE dr6[t]]

--------------------------------------------------------------------------------
Init ==
    /\ mem = Program
    /\ mode \in [Threads -> {"run", "gone"}]
    /\ at = [t \in Threads |-> None]
    /\ regs = [t \in Threads |-> [s \in Slots |-> None]]
    /\ dr6 = [t \in Threads |-> {}]
    /\ fate = "alive"
    /\ breakin = "none"
    /\ pump = "off"
    /\ sawInitialBreakpoint = FALSE
    /\ breakpoints = [a \in Addrs |-> NoEntry]
    /\ stepping = [t \in Threads |-> None]
    /\ disarmed = {}
    /\ hardwareUsed = FALSE
    /\ ui = "idle"
    /\ inherited = {}
    /\ misdelivered = {}
    /\ reported = None

--------------------------------------------------------------------------------
(* The target.  An exception of ours raised while no debugger is attached     *)
(* has nobody to field it and kills the process.                              *)

MoveThread(t, newMode, where) ==
    /\ mode' = [mode EXCEPT ![t] = newMode]
    /\ at' = [at EXCEPT ![t] = where]

Raise(t, newMode, where) ==
    IF Debugged THEN MoveThread(t, newMode, where) /\ UNCHANGED fate
                ELSE fate' = "killed" /\ UNCHANGED <<mode, at>>

TargetRest == UNCHANGED <<mem, regs, breakin, pump, sawInitialBreakpoint, tables,
                          ui, history>>

(* Thread t reaches address a and executes the int3 it finds there.  Its own  *)
(* int3 with no debugger is the program's business and not modelled.          *)
ExecuteInt3(t, a) ==
    /\ fate = "alive" /\ mode[t] = "run" /\ a \in Executes[t] /\ mem[a] = "int3"
    /\ Debugged \/ a \notin OwnInt3
    /\ Raise(t, "trap", a)
    /\ UNCHANGED dr6 /\ TargetRest

(* The instruction a thread was rewound onto executes under the trap flag,    *)
(* unless somebody put the int3 back first.  It may also touch a watched      *)
(* address: one exception then carries both.                                  *)
ExecuteStepped(t) ==
    /\ fate = "alive" /\ mode[t] = "tf"
    /\ IF mem[at[t]] = "int3"
       THEN Raise(t, "trap", at[t]) /\ UNCHANGED dr6
       ELSE /\ Raise(t, "step", at[t])
            /\ \E hit \in {{}} \cup {{s} : s \in {s \in Slots : regs[t][s] # None}} :
                   dr6' = [dr6 EXCEPT ![t] = @ \cup hit]
    /\ TargetRest

(* A debug register of this thread fires.                                     *)
WatchFires(t, s) ==
    /\ fate = "alive" /\ mode[t] = "run" /\ regs[t][s] # None
    /\ Raise(t, "step", regs[t][s])
    /\ dr6' = [dr6 EXCEPT ![t] = @ \cup {s}]
    /\ TargetRest

StartThread(t) ==
    /\ fate = "alive" /\ mode[t] = "gone"
    /\ MoveThread(t, IF Debugged THEN "new" ELSE "run", None)
    /\ UNCHANGED <<dr6, fate>> /\ TargetRest

(* A thread can be terminated anywhere, between its hit and its step too.     *)
EndThread(t) ==
    /\ fate = "alive" /\ mode[t] \in {"run", "tf", "derailed"}
    /\ MoveThread(t, IF Debugged THEN "exit" ELSE "gone", None)
    /\ regs' = [regs EXCEPT ![t] = [s \in Slots |-> None]]
    /\ dr6' = [dr6 EXCEPT ![t] = {}]
    /\ UNCHANGED <<mem, fate, breakin, pump, sawInitialBreakpoint, tables, ui, history>>

ExitProcess ==
    /\ fate = "alive"
    /\ fate' = "exited"
    /\ UNCHANGED <<mode, at, dr6>> /\ TargetRest

(* A fresh process takes the place of the dead one.                           *)
Relaunch ==
    /\ fate # "alive" /\ pump = "off" /\ ui = "idle"
    /\ fate' = "alive" /\ breakin' = "none"
    /\ mem' = Program
    /\ mode' \in [Threads -> {"run", "gone"}]
    /\ at' = [t \in Threads |-> None]
    /\ regs' = [t \in Threads |-> [s \in Slots |-> None]]
    /\ dr6' = [t \in Threads |-> {}]
    /\ UNCHANGED <<pump, sawInitialBreakpoint, tables, ui, history>>

--------------------------------------------------------------------------------
(* The pump: one debug event answered per step, whichever is delivered next.  *)
(* The loop and the drain answer alike except where a disjunct names pump.    *)

Pumping == pump \in {"loop", "drain"}
Deliver(t, event) == Pumping /\ fate = "alive" /\ mode[t] = event
HandlerRest == UNCHANGED <<fate, breakin, pump, ui, inherited>>

RearmBlind(a) ==    \* mutant: re-arms a breakpoint already removed
    mem' = [mem EXCEPT ![a] = "int3"] /\ UNCHANGED breakpoints

(* rearmLocked: a write that fails drops the entry.                           *)
Rearm(a) ==
    IF ~Found(a) THEN UNCHANGED <<mem, breakpoints>>
    ELSE \E armed \in Outcomes("write") :
             IF armed THEN mem' = [mem EXCEPT ![a] = "int3"] /\ UNCHANGED breakpoints
                      ELSE breakpoints' = [breakpoints EXCEPT ![a] = NoEntry] /\ UNCHANGED mem

NoteNothing(addresses) == UNCHANGED disarmed    \* mutant: no trap is in flight

(* A trap already executed at these addresses is still to be absorbed.        *)
NoteInFlight(addresses) == disarmed' = disarmed \cup addresses

RestoreNothing(a) == UNCHANGED mem    \* mutant: the int3 stays under the thread
RestoreOriginal(a) == mem' = [mem EXCEPT ![a] = breakpoints[a].originalByte]

KeepEntry(a) == UNCHANGED breakpoints    \* mutant: the entry outlives its int3
EraseEntry(a) == breakpoints' = [breakpoints EXCEPT ![a] = NoEntry]

(* handleBreakpoint finds an entry: put the original byte back, rewind the    *)
(* thread under the trap flag, remember whom it steps over, report the hit.   *)
HandleHit(t) ==
    LET a == at[t] IN
    /\ Deliver(t, "trap") /\ Found(a)
    /\ \E opened, rewound \in Outcomes("context"), restored \in Outcomes("write") :
        /\ IF opened /\ restored THEN RestoreOriginal(a) ELSE UNCHANGED mem
        /\ IF opened /\ restored /\ rewound
           THEN /\ MoveThread(t, "tf", a)
                /\ stepping' = [stepping EXCEPT ![t] = a]
                /\ reported' = a
                /\ UNCHANGED <<breakpoints, disarmed>>
           ELSE /\ MoveThread(t, "derailed", None)
                /\ reported' = None
                /\ IF opened /\ restored THEN NoteInFlight({a}) /\ EraseEntry(a)
                                         ELSE UNCHANGED <<breakpoints, disarmed>>
                /\ UNCHANGED stepping
    /\ UNCHANGED <<regs, dr6, sawInitialBreakpoint, hardwareUsed, misdelivered>>
    /\ HandlerRest

(* handleBreakpoint finds no entry, but the address was disarmed: the trap    *)
(* was in flight when the byte went back.  Rewind and swallow; a thread that  *)
(* was stepping over the address already keeps its trap flag.                 *)
AbsorbStaleTrap(t) ==
    /\ Deliver(t, "trap") /\ ~Found(at[t]) /\ at[t] \in disarmed
    /\ \/ stepping[t] = at[t] /\ MoveThread(t, "tf", at[t])
       \/ stepping[t] # at[t] /\ MoveThread(t, "run", None)
       \/ "context" \in Faults /\ MoveThread(t, "derailed", None)
    /\ reported' = None
    /\ UNCHANGED <<mem, regs, dr6, sawInitialBreakpoint, tables, misdelivered>>
    /\ HandlerRest

(* Nobody's breakpoint: the loop takes the first for the loader's own and     *)
(* swallows it, every other one goes to the target.                           *)
PassTrap(t) ==
    LET swallowed == pump = "loop" /\ ~sawInitialBreakpoint
        ours == at[t] \notin OwnInt3 \cup inherited
    IN
    /\ Deliver(t, "trap") /\ ~Found(at[t]) /\ at[t] \notin disarmed
    /\ sawInitialBreakpoint' = (sawInitialBreakpoint \/ swallowed)
    /\ misdelivered' = misdelivered \cup (IF ours THEN {"trap"} ELSE {})
    /\ MoveThread(t, IF at[t] \in OwnInt3 THEN "run" ELSE "derailed", None)
    /\ reported' = None
    /\ UNCHANGED <<mem, regs, dr6, tables>>
    /\ HandlerRest

(* The breakpoint that attaching itself raises, at no address of the table.   *)
InitialBreakpoint ==
    /\ Pumping /\ fate = "alive" /\ breakin = "pending"
    /\ breakin' = "none"
    /\ IF pump = "loop" /\ ~sawInitialBreakpoint
       THEN sawInitialBreakpoint' = TRUE /\ UNCHANGED misdelivered
       ELSE misdelivered' = misdelivered \cup {"initial"} /\ UNCHANGED sawInitialBreakpoint
    /\ reported' = None
    /\ UNCHANGED <<mem, mode, at, regs, dr6, fate, pump, tables, ui, inherited>>

(* handleHardwareHit: what DR6 says, once hardware has been used.  The        *)
(* entry reported is one whose register fired; its status is cleared.         *)
Owners(fired) == {a \in Addrs : breakpoints[a].slot \in fired}
HardwareHit(t) ==
    \E opened, cleared \in Outcomes("context") :
        IF hardwareUsed /\ opened /\ dr6[t] # {}
        THEN /\ dr6' = IF cleared THEN [dr6 EXCEPT ![t] = {}] ELSE dr6
             /\ IF Owners(dr6[t]) = {} THEN reported' = None
                                       ELSE reported' \in Owners(dr6[t])
        ELSE reported' = None /\ UNCHANGED dr6

ClaimedByStatus(t) ==    \* mutant: only what DR6 still says is ours
    stepping[t] # None \/ dr6[t] # {}
Claimed(t) == stepping[t] # None \/ hardwareUsed

(* handleSingleStep: a hardware hit, the step that follows a software hit, or *)
(* both.  Unclaimed, it is still ours if hardware was ever used.              *)
HandleSingleStep(t) ==
    /\ Deliver(t, "step")
    /\ HardwareHit(t)
    /\ IF stepping[t] = None
       THEN UNCHANGED <<mem, breakpoints, stepping>>
       ELSE stepping' = [stepping EXCEPT ![t] = None] /\ Rearm(stepping[t])
    /\ misdelivered' = misdelivered \cup (IF Claimed(t) THEN {} ELSE {"step"})
    /\ MoveThread(t, "run", None)
    /\ UNCHANGED <<regs, sawInitialBreakpoint, disarmed, hardwareUsed>>
    /\ HandlerRest

NeverLastStepper(t) == FALSE    \* mutant: a dead thread's step is nobody's
LastStepper(t) ==
    stepping[t] # None /\ \A u \in Threads \ {t} : stepping[u] # stepping[t]

(* handleThreadExit: a thread that dies between its hit and its step has its  *)
(* breakpoint re-armed for it, unless another thread will do that.            *)
HandleThreadExit(t) ==
    /\ Deliver(t, "exit")
    /\ stepping' = [stepping EXCEPT ![t] = None]
    /\ IF LastStepper(t) THEN Rearm(stepping[t])
                         ELSE UNCHANGED <<mem, breakpoints>>
    /\ MoveThread(t, "gone", None)
    /\ reported' = None
    /\ UNCHANGED <<regs, dr6, sawInitialBreakpoint, disarmed, hardwareUsed, misdelivered>>
    /\ HandlerRest

(* CREATE_THREAD: debug registers are per thread, so the loop programs a new  *)
(* one before its first instruction.  The drain has nothing to program.       *)
HandleThreadCreate(t) ==
    /\ Deliver(t, "new")
    /\ \E programmed \in Outcomes("context") :
          IF pump = "loop" /\ HardwareArmed # {} /\ programmed
          THEN /\ regs' = [regs EXCEPT ![t] = Image(breakpoints)]
               /\ dr6' = [dr6 EXCEPT ![t] = {}]
          ELSE UNCHANGED <<regs, dr6>>
    /\ MoveThread(t, "run", None)
    /\ reported' = None
    /\ UNCHANGED <<mem, sawInitialBreakpoint, tables, misdelivered>>
    /\ HandlerRest

(* EXIT_PROCESS ends the loop with the tables cleared, and the drain at once. *)
HandleProcessExit ==
    /\ Pumping /\ fate # "alive"
    /\ IF pump = "loop"
       THEN /\ breakpoints' = [a \in Addrs |-> NoEntry]
            /\ stepping' = [t \in Threads |-> None]
            /\ pump' = "disarm"
       ELSE pump' = "release" /\ UNCHANGED <<breakpoints, stepping>>
    /\ reported' = None
    /\ UNCHANGED <<target, sawInitialBreakpoint, disarmed, hardwareUsed, ui, inherited,
                   misdelivered>>

NeverHoldsInt3(a) == FALSE    \* mutant: no byte is put back
(* What the code takes for "the int3 is in memory".                           *)
HoldsInt3(a) == ~SteppingOver(a)

(* The way out of run(), stop_ seen or target gone: every original byte goes  *)
(* back first, except under a thread stepping over it, whose byte is back.    *)
DisarmAll ==
    LET software == {a \in Addrs : breakpoints[a].kind = "software"}
        armed == {a \in software : HoldsInt3(a)}
    IN
    /\ (pump = "loop" /\ ui = "detaching") \/ pump = "disarm"
    /\ \E failed \in (IF "write" \in Faults THEN SUBSET armed ELSE {{}}) :
          mem' = [a \in Addrs |-> IF a \in armed \ failed
                                  THEN breakpoints[a].originalByte ELSE mem[a]]
    /\ NoteInFlight(software)
    /\ breakpoints' = [a \in Addrs |-> NoEntry]
    /\ IF HardwareArmed # {} THEN ApplyToAllThreads(breakpoints')
                             ELSE UNCHANGED <<regs, dr6>>
    /\ pump' = IF pump = "disarm" THEN "release" ELSE "drain"
    /\ reported' = None
    /\ UNCHANGED <<mode, at, fate, breakin, sawInitialBreakpoint, stepping,
                   hardwareUsed, ui, inherited, misdelivered>>

QueueEmpty ==    \* mutant: no wait, a step still to come is missed
    breakin = "none" /\ \A t \in Threads : mode[t] \notin InFlight
DrainQuiet ==
    breakin = "none" /\ \A t \in Threads : mode[t] \notin InFlight \cup {"tf"}

EndDrainWhenQuiet ==    \* mutant: no deadline
    /\ pump = "drain" /\ fate = "alive" /\ DrainQuiet
    /\ pump' = "release"
    /\ UNCHANGED <<target, sawInitialBreakpoint, tables, ui, history>>

(* The drain ends when nothing arrives for 50 ms, which finds every runnable  *)
(* thread past the step it owes, or at its deadline.                          *)
EndDrain ==
    /\ pump = "drain" /\ fate = "alive"
    /\ DrainExpires \/ DrainQuiet
    /\ pump' = "release"
    /\ UNCHANGED <<target, sawInitialBreakpoint, tables, ui, history>>

(* DebugActiveProcessStop hands whatever is still in flight to the target; an *)
(* exception of ours kills it.  Then, under the lock, the pump lets go.       *)
Release ==
    /\ pump = "release"
    /\ fate' = IF fate = "alive"
                  /\ \E t \in Threads :
                        mode[t] = "step" \/ (mode[t] = "trap" /\ at[t] \notin OwnInt3)
               THEN "killed" ELSE fate
    /\ mode' = [t \in Threads |-> CASE mode[t] = "new" -> "run"
                                    [] mode[t] = "exit" -> "gone"
                                    [] mode[t] \in {"trap", "step"} -> "run"
                                    [] OTHER -> mode[t]]
    /\ stepping' = [t \in Threads |-> None]
    /\ disarmed' = {}
    /\ pump' = "off"
    /\ UNCHANGED <<mem, at, regs, dr6, breakin, sawInitialBreakpoint, breakpoints,
                   hardwareUsed, ui, history>>

--------------------------------------------------------------------------------
(* The UI thread.  detach() joins the worker, so between BeginDetach and      *)
(* EndDetach it does nothing else.                                            *)

ForgetTables ==
    /\ breakpoints' = [a \in Addrs |-> NoEntry]
    /\ stepping' = [t \in Threads |-> None]
    /\ hardwareUsed' = FALSE
    /\ UNCHANGED disarmed

(* attach() detaches first, then starts the worker, which may be refused.     *)
Attach ==
    /\ ui = "idle" /\ pump = "off" /\ fate = "alive"
    /\ ForgetTables
    /\ \/ UNCHANGED <<pump, sawInitialBreakpoint, breakin>>
       \/ pump' = "loop" /\ sawInitialBreakpoint' = FALSE /\ breakin' = "pending"
    /\ inherited' = {a \in Addrs : mem[a] # Program[a]}
    /\ UNCHANGED <<mem, mode, at, regs, dr6, fate, ui, misdelivered, reported>>

BeginDetach ==
    /\ ui = "idle"
    /\ ui' = "detaching"
    /\ UNCHANGED <<target, pump, sawInitialBreakpoint, tables, history>>

EndDetach ==
    /\ ui = "detaching" /\ pump = "off"
    /\ ui' = "idle"
    /\ ForgetTables
    /\ UNCHANGED <<target, pump, sawInitialBreakpoint, history>>

TableRest == UNCHANGED <<mode, at, fate, breakin, pump, sawInitialBreakpoint,
                         stepping, ui, history>>

NeverAlreadyTrapped(a) == FALSE    \* mutant: saves an int3 as the original
AlreadyTrapped(a) == mem[a] = "int3"

(* Refused, as every request the code turns down, leaves all state alone.     *)
AddSoftware(a) ==
    /\ ui = "idle" /\ Debugged /\ fate = "alive" /\ ~Found(a)
    /\ ~AlreadyTrapped(a)
    /\ ReaddSteppedOver \/ ~SteppingOver(a)
    /\ mem' = [mem EXCEPT ![a] = "int3"]
    /\ disarmed' = disarmed \ {a}
    /\ breakpoints' = [breakpoints EXCEPT ![a] = Software(mem[a])]
    /\ UNCHANGED <<regs, dr6, hardwareUsed>> /\ TableRest

(* Reads nothing of the target, so it succeeds on one that has just exited.   *)
AddHardware(a) ==
    /\ ui = "idle" /\ Debugged /\ ~Found(a)
    /\ \E s \in Slots : /\ FreeDebugSlot(s)
                        /\ breakpoints' = [breakpoints EXCEPT ![a] = Hardware(s)]
    /\ hardwareUsed' = TRUE
    /\ ApplyToAllThreads(breakpoints')
    /\ UNCHANGED <<mem, disarmed>> /\ TableRest

RemoveBreakpoint(a) ==
    /\ ui = "idle" /\ Debugged /\ Found(a)
    /\ EraseEntry(a)
    /\ IF breakpoints[a].kind = "hardware"
       THEN ApplyToAllThreads(breakpoints') /\ UNCHANGED <<mem, disarmed>>
       ELSE /\ NoteInFlight({a})
            /\ \E restored \in Outcomes("write") :
                  IF HoldsInt3(a) /\ restored THEN RestoreOriginal(a) ELSE UNCHANGED mem
            /\ UNCHANGED <<regs, dr6>>
    /\ UNCHANGED hardwareUsed /\ TableRest

--------------------------------------------------------------------------------
TargetStep ==
    \/ \E t \in Threads, a \in Addrs : ExecuteInt3(t, a)
    \/ \E t \in Threads : ExecuteStepped(t) \/ StartThread(t) \/ EndThread(t)
    \/ \E t \in Threads, s \in Slots : WatchFires(t, s)
    \/ ExitProcess
    \/ Relaunch

HandleThreadEvent(t) ==
    \/ HandleHit(t) \/ AbsorbStaleTrap(t) \/ PassTrap(t)
    \/ HandleSingleStep(t) \/ HandleThreadExit(t) \/ HandleThreadCreate(t)

PumpStep ==
    \/ \E t \in Threads : HandleThreadEvent(t)
    \/ InitialBreakpoint \/ HandleProcessExit
    \/ DisarmAll \/ EndDrain \/ Release

UiStep ==
    \/ Attach \/ BeginDetach \/ EndDetach
    \/ \E a \in SwAddrs : AddSoftware(a)
    \/ \E a \in HwAddrs : AddHardware(a)
    \/ \E a \in Addrs : RemoveBreakpoint(a)

Next == TargetStep \/ PumpStep \/ UiStep

Spec == Init /\ [][Next]_vars

--------------------------------------------------------------------------------
(* The types of the variables.                                                *)
TypeOK ==
    /\ mem \in [Addrs -> Bytes]
    /\ mode \in [Threads -> Modes]
    /\ at \in [Threads -> Addrs \cup {None}]
    /\ \A t \in Threads : mode[t] \in {"trap", "tf", "step"} => at[t] \in Addrs
    /\ regs \in [Threads -> [Slots -> Addrs \cup {None}]]
    /\ dr6 \in [Threads -> SUBSET Slots]
    /\ fate \in {"alive", "exited", "killed"}
    /\ breakin \in {"none", "pending"}
    /\ pump \in {"off", "loop", "disarm", "drain", "release"}
    /\ sawInitialBreakpoint \in BOOLEAN
    /\ breakpoints \in [Addrs -> Entries]
    /\ stepping \in [Threads -> Addrs \cup {None}]
    /\ disarmed \subseteq Addrs
    /\ hardwareUsed \in BOOLEAN
    /\ ui \in {"idle", "detaching"}
    /\ inherited \subseteq Addrs
    /\ misdelivered \subseteq {"trap", "step", "initial"}
    /\ reported \in Addrs \cup {None}

(* The pump recognises every int3 it planted in this attach, whenever its     *)
(* trap arrives - after a removal, in the drain, with other threads stepping  *)
(* over the same address: none is passed on to the target or taken for the    *)
(* loader's, which would resume the thread without a rewind.                  *)
OwnTrapsClaimed == "trap" \notin misdelivered

(* Why it does: every int3 in memory, every trap in flight and every step     *)
(* still to re-arm is at an address the pump answers for - a software entry,  *)
(* one it remembers having disarmed - or was there before this attach.        *)
Ours == {a \in Addrs : breakpoints[a].kind = "software"} \cup disarmed \cup inherited \cup OwnInt3
TrapsAccounted ==
    /\ Debugged /\ fate = "alive" =>
          /\ \A a \in Addrs : mem[a] = "int3" => a \in Ours
          /\ \A t \in Threads : mode[t] = "trap" => at[t] \in Ours
          /\ \A t \in Threads : stepping[t] # None => stepping[t] \in Ours
    /\ ~Debugged => \A t \in Threads : mode[t] # "trap"

(* Nor is a single step it caused, by the trap flag or by a debug register    *)
(* that has been given back since.                                            *)
OwnStepsClaimed == "step" \notin misdelivered

(* Nothing of the debugger's kills the target once it has let go, as an int3  *)
(* left in memory would, or a trap flag or debug register left on a thread.   *)
(* What the pump wrongly passes on before it lets go is in misdelivered, not  *)
(* here.                                                                      *)
TargetSurvives == fate # "killed"

(* An int3 that is not the program's is in memory only while a software       *)
(* breakpoint owns it: none survives a removal, a detach, a thread that died  *)
(* mid-step, or a re-arm that lost its breakpoint.                            *)
Int3Owned ==
    fate = "alive" =>
        \A a \in Addrs : mem[a] # Program[a] =>
            mem[a] = "int3" /\ breakpoints[a].kind = "software"

(* A software breakpoint whose int3 is not in memory has a thread stepping    *)
(* over it, whose step or exit will put it back: it never goes quiet.         *)
ArmedOrStepped ==
    fate = "alive" =>
        \A a \in Addrs : breakpoints[a].kind = "software" /\ mem[a] # "int3" => SteppingOver(a)

(* Once the pump is about to let go the target is the program again: every    *)
(* byte its own and no debug register set on any thread.                      *)
ReleasedClean ==
    fate = "alive" /\ pump \in {"release", "off"} =>
        /\ mem = Program
        /\ \A t \in Threads, s \in Slots : regs[t][s] = None

(* Every thread that can run carries exactly the table's debug registers, the *)
(* ones created while breakpoints come and go included.                       *)
RegistersMatchTable ==
    fate = "alive" /\ Debugged =>
        \A t \in Threads : mode[t] \notin {"gone", "new", "exit"} => regs[t] = Image(breakpoints)

(* The loader's breakpoint, raised once by every attach, is swallowed.        *)
InitialSwallowed == "initial" \notin misdelivered

(* A hit is credited to the breakpoint that was hit, not to another that has  *)
(* taken over its debug register since.                                       *)
HitsCreditedRight ==
    [][\A t \in Threads :
          HandleSingleStep(t) /\ stepping[t] = None => reported' \in {None, at[t]}]_vars

(* A breakpoint disarmed for a step is armed again, or gone from the table.   *)
RearmedEventually ==
    \A a \in SwAddrs :
        (breakpoints[a].kind = "software" /\ mem[a] # "int3")
            ~> (mem[a] = "int3" \/ breakpoints[a].kind # "software")

(* A thread stopped by an int3 gets past it, unless the pump lets go of the   *)
(* target first: it is not trapped by the same breakpoint over and over.      *)
TrappedThreadsGetPast ==
    \A t \in Threads :
        mode[t] = "trap" ~> (mode[t] \notin {"trap", "tf", "step"} \/ fate # "alive" \/ ~Debugged)

(* detach() returns: the join it makes on the pump cannot hang the UI.        *)
DetachReturns == ui = "detaching" ~> ui = "idle"

(* The pump thread runs on; Windows delivers every queued event in turn; a    *)
(* thread let go under the trap flag executes its instruction; a blocked      *)
(* join returns when its thread has ended.  Nothing else must happen.         *)
Fairness ==
    /\ \A t \in Threads : WF_vars(HandleThreadEvent(t)) /\ WF_vars(ExecuteStepped(t))
    /\ WF_vars(HandleProcessExit) /\ WF_vars(DisarmAll)
    /\ WF_vars(EndDrain) /\ WF_vars(Release) /\ WF_vars(EndDetach)

FairSpec == Spec /\ Fairness
================================================================================
