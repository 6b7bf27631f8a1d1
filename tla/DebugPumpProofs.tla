---------------------------- MODULE DebugPumpProofs ----------------------------
(* Proofs about DebugPump, for any number of threads, addresses and debug     *)
(* registers.                                                                 *)
EXTENDS DebugPump, TLAPS

(* The pieces a table is made of have the types the table asks for.           *)
LEMMA EntriesTyped ==
    /\ NoEntry \in Entries
    /\ \A s \in Slots : Hardware(s) \in Entries
    /\ \A b \in {"code", "zero"} : Software(b) \in Entries
BY DEF Entries

LEMMA EntryFields ==
    ASSUME NEW e \in Entries
    PROVE  /\ e.originalByte \in {"code", "zero"}
           /\ e.slot \in Slots \cup {None}
           /\ e.kind \in {"none", "software", "hardware"}
BY DEF Entries, NoEntry, Software, Hardware

LEMMA ImageTyped ==
    ASSUME NEW table
    PROVE  Image(table) \in [Slots -> Addrs \cup {None}]
BY DEF Image

(* Moving a thread keeps every thread in a known mode, at a known address     *)
(* when the mode is about one.                                                *)
PositionOK ==
    /\ mode \in [Threads -> Modes]
    /\ at \in [Threads -> Addrs \cup {None}]
    /\ \A t \in Threads : mode[t] \in {"trap", "tf", "step"} => at[t] \in Addrs

LEMMA MoveTyped ==
    ASSUME PositionOK, NEW t \in Threads, NEW newMode \in Modes,
           NEW where \in Addrs \cup {None},
           newMode \in {"trap", "tf", "step"} => where \in Addrs,
           MoveThread(t, newMode, where)
    PROVE  PositionOK'
BY DEF PositionOK, MoveThread

(* Raising an exception at an address does too, attached or not.              *)
LEMMA RaiseTyped ==
    ASSUME TypeOK, NEW t \in Threads, NEW newMode \in {"trap", "step"},
           NEW where \in Addrs, Raise(t, newMode, where)
    PROVE  PositionOK' /\ fate' \in {"alive", "exited", "killed"}
<1>1. PositionOK
  BY DEF TypeOK, PositionOK
<1>2. CASE Debugged
  <2>1. MoveThread(t, newMode, where) /\ fate' = fate
    BY <1>2 DEF Raise
  <2>2. PositionOK'
    BY <1>1, <2>1, MoveTyped DEF Modes
  <2> QED
    BY <2>1, <2>2 DEF TypeOK
<1>3. CASE ~Debugged
  BY <1>1, <1>3 DEF Raise, PositionOK
<1> QED
  BY <1>2, <1>3

(* Re-arming writes an int3 or drops an entry.                                *)
LEMMA RearmTyped ==
    ASSUME TypeOK, NEW a, Rearm(a)
    PROVE  mem' \in [Addrs -> Bytes] /\ breakpoints' \in [Addrs -> Entries]
BY EntriesTyped DEF Rearm, TypeOK, Bytes

(* The initial state is typed.                                                *)
LEMMA InitTyped == Init => TypeOK
<1> SUFFICES ASSUME Init PROVE TypeOK
  OBVIOUS
<1>1. mode \in [Threads -> Modes] /\ \A t \in Threads : mode[t] \notin {"trap", "tf", "step"}
  BY DEF Init, Modes
<1>2. mem \in [Addrs -> Bytes] /\ breakpoints \in [Addrs -> Entries]
  BY EntriesTyped DEF Init, Program, Bytes
<1>3. /\ at \in [Threads -> Addrs \cup {None}]
      /\ stepping \in [Threads -> Addrs \cup {None}]
      /\ dr6 \in [Threads -> SUBSET Slots]
      /\ regs \in [Threads -> [Slots -> Addrs \cup {None}]]
  BY DEF Init
<1> QED
  BY <1>1, <1>2, <1>3 DEF Init, TypeOK

(* Every step of the target, of Windows and of the program that is debugged   *)
(* keeps the types.                                                           *)
LEMMA TargetTyped == TypeOK /\ TargetStep => TypeOK'
<1> SUFFICES ASSUME TypeOK, TargetStep PROVE TypeOK'
  OBVIOUS
<1>0. PositionOK
  BY DEF TypeOK, PositionOK
<1> USE DEF target, history, tables, TargetRest
<1>1. ASSUME NEW t \in Threads, NEW a \in Addrs, ExecuteInt3(t, a) PROVE TypeOK'
  <2>1. PositionOK' /\ fate' \in {"alive", "exited", "killed"}
    BY <1>1, RaiseTyped DEF ExecuteInt3
  <2> QED
    BY <1>1, <2>1 DEF ExecuteInt3, TypeOK, PositionOK
<1>2. ASSUME NEW t \in Threads, ExecuteStepped(t) PROVE TypeOK'
  <2>1. at[t] \in Addrs
    BY <1>2 DEF ExecuteStepped, TypeOK
  <2>2. PositionOK' /\ fate' \in {"alive", "exited", "killed"}
    BY <1>2, <2>1, RaiseTyped DEF ExecuteStepped
  <2>3. dr6' \in [Threads -> SUBSET Slots]
    BY <1>2 DEF ExecuteStepped, TypeOK
  <2> QED
    BY <1>2, <2>2, <2>3 DEF ExecuteStepped, TypeOK, PositionOK
<1>3. ASSUME NEW t \in Threads, NEW s \in Slots, WatchFires(t, s) PROVE TypeOK'
  <2>1. regs[t][s] \in Addrs
    BY <1>3 DEF WatchFires, TypeOK
  <2>2. PositionOK' /\ fate' \in {"alive", "exited", "killed"}
    BY <1>3, <2>1, RaiseTyped DEF WatchFires
  <2>3. dr6' \in [Threads -> SUBSET Slots]
    BY <1>3 DEF WatchFires, TypeOK
  <2> QED
    BY <1>3, <2>2, <2>3 DEF WatchFires, TypeOK, PositionOK
<1>4. ASSUME NEW t \in Threads, StartThread(t) PROVE TypeOK'
  <2>1. PositionOK'
    BY <1>0, <1>4, MoveTyped DEF StartThread, Modes
  <2> QED
    BY <1>4, <2>1 DEF StartThread, TypeOK, PositionOK
<1>5. ASSUME NEW t \in Threads, EndThread(t) PROVE TypeOK'
  <2>1. PositionOK'
    BY <1>0, <1>5, MoveTyped DEF EndThread, Modes
  <2> QED
    BY <1>5, <2>1 DEF EndThread, TypeOK, PositionOK
<1>6. CASE ExitProcess
  BY <1>6 DEF ExitProcess, TypeOK
<1>7. CASE Relaunch
  BY <1>7 DEF Relaunch, TypeOK, Program, Bytes, Modes
<1> QED
  BY <1>1, <1>2, <1>3, <1>4, <1>5, <1>6, <1>7 DEF TargetStep

(* Every event the pump answers keeps the types.                              *)
LEMMA ThreadEventTyped ==
    ASSUME TypeOK, NEW t \in Threads, HandleThreadEvent(t)
    PROVE  TypeOK'
<1>0. PositionOK
  BY DEF TypeOK, PositionOK
<1> USE DEF HandlerRest, Deliver, tables
<1>1. CASE HandleHit(t)
  <2>1. at[t] \in Addrs /\ PositionOK'
    BY <1>0, <1>1, MoveTyped DEF HandleHit, TypeOK, Modes
  <2>2. breakpoints[at[t]].originalByte \in Bytes
    BY <2>1, EntryFields DEF TypeOK, Bytes
  <2>3. mem' \in [Addrs -> Bytes]
    BY <1>1, <2>1, <2>2 DEF HandleHit, RestoreOriginal, TypeOK
  <2>4. breakpoints' \in [Addrs -> Entries]
    BY <1>1, <2>1, EntriesTyped DEF HandleHit, EraseEntry, TypeOK
  <2>5. disarmed' \subseteq Addrs /\ reported' \in Addrs \cup {None}
    BY <1>1, <2>1 DEF HandleHit, NoteInFlight, TypeOK
  <2>6. stepping' \in [Threads -> Addrs \cup {None}]
    BY <1>1, <2>1 DEF HandleHit, TypeOK
  <2> QED
    BY <1>1, <2>1, <2>3, <2>4, <2>5, <2>6 DEF HandleHit, TypeOK, PositionOK
<1>2. CASE AbsorbStaleTrap(t)
  <2>1. PositionOK'
    <3>1. at[t] \in Addrs
      BY <1>2 DEF AbsorbStaleTrap, TypeOK
    <3> QED
      BY <1>0, <1>2, <3>1, MoveTyped DEF AbsorbStaleTrap, Modes
  <2> QED
    BY <1>2, <2>1 DEF AbsorbStaleTrap, TypeOK, PositionOK
<1>3. CASE PassTrap(t)
  <2>1. PositionOK'
    BY <1>0, <1>3, MoveTyped DEF PassTrap, Modes
  <2>2. sawInitialBreakpoint' \in BOOLEAN /\ misdelivered' \subseteq {"trap", "step", "initial"}
    BY <1>3 DEF PassTrap, TypeOK
  <2> QED
    BY <1>3, <2>1, <2>2 DEF PassTrap, TypeOK, PositionOK
<1>4. CASE HandleSingleStep(t)
  <2>1. PositionOK'
    BY <1>0, <1>4, MoveTyped DEF HandleSingleStep, Modes
  <2>2. mem' \in [Addrs -> Bytes] /\ breakpoints' \in [Addrs -> Entries]
    BY <1>4, RearmTyped DEF HandleSingleStep, TypeOK
  <2>3. dr6' \in [Threads -> SUBSET Slots] /\ reported' \in Addrs \cup {None}
    BY <1>4 DEF HandleSingleStep, HardwareHit, Owners, TypeOK
  <2>4. stepping' \in [Threads -> Addrs \cup {None}] /\ misdelivered' \subseteq {"trap", "step", "initial"}
    BY <1>4 DEF HandleSingleStep, TypeOK
  <2> QED
    BY <1>4, <2>1, <2>2, <2>3, <2>4 DEF HandleSingleStep, TypeOK, PositionOK
<1>5. CASE HandleThreadExit(t)
  <2>1. PositionOK'
    BY <1>0, <1>5, MoveTyped DEF HandleThreadExit, Modes
  <2>2. mem' \in [Addrs -> Bytes] /\ breakpoints' \in [Addrs -> Entries]
    BY <1>5, RearmTyped DEF HandleThreadExit, TypeOK
  <2> QED
    BY <1>5, <2>1, <2>2 DEF HandleThreadExit, TypeOK, PositionOK
<1>6. CASE HandleThreadCreate(t)
  <2>1. PositionOK'
    BY <1>0, <1>6, MoveTyped DEF HandleThreadCreate, Modes
  <2>2. /\ regs' \in [Threads -> [Slots -> Addrs \cup {None}]]
        /\ dr6' \in [Threads -> SUBSET Slots]
    <3>1. PICK programmed \in Outcomes("context") :
             IF pump = "loop" /\ HardwareArmed # {} /\ programmed
             THEN /\ regs' = [regs EXCEPT ![t] = Image(breakpoints)]
                  /\ dr6' = [dr6 EXCEPT ![t] = {}]
             ELSE UNCHANGED <<regs, dr6>>
      BY <1>6 DEF HandleThreadCreate
    <3>2. Image(breakpoints) \in [Slots -> Addrs \cup {None}]
      BY ImageTyped
    <3> QED
      BY <3>1, <3>2 DEF TypeOK
  <2> QED
    BY <1>6, <2>1, <2>2 DEF HandleThreadCreate, TypeOK, PositionOK
<1> QED
  BY <1>1, <1>2, <1>3, <1>4, <1>5, <1>6 DEF HandleThreadEvent

(* And so does everything else the pump does.                                 *)
LEMMA PumpTyped == TypeOK /\ PumpStep => TypeOK'
<1> SUFFICES ASSUME TypeOK, PumpStep PROVE TypeOK'
  OBVIOUS
<1> USE DEF target, history, tables
<1>1. CASE \E t \in Threads : HandleThreadEvent(t)
  BY <1>1, ThreadEventTyped
<1>2. CASE InitialBreakpoint
  BY <1>2 DEF InitialBreakpoint, TypeOK
<1>3. CASE HandleProcessExit
  BY <1>3, EntriesTyped DEF HandleProcessExit, TypeOK
<1>4. CASE DisarmAll
  <2>1. \A a \in Addrs : breakpoints[a].originalByte \in Bytes
    BY EntryFields DEF TypeOK, Bytes
  <2>2. mem' \in [Addrs -> Bytes]
    BY <1>4, <2>1 DEF DisarmAll, TypeOK
  <2>3. breakpoints' \in [Addrs -> Entries] /\ disarmed' \subseteq Addrs
    BY <1>4, EntriesTyped DEF DisarmAll, NoteInFlight, TypeOK
  <2>4. /\ regs' \in [Threads -> [Slots -> Addrs \cup {None}]]
        /\ dr6' \in [Threads -> SUBSET Slots]
    <3>1. CASE HardwareArmed # {}
      <4>1. ApplyToAllThreads(breakpoints')
        BY <1>4, <3>1 DEF DisarmAll
      <4> QED
        BY <4>1, ImageTyped DEF ApplyToAllThreads, TypeOK
    <3>2. CASE HardwareArmed = {}
      BY <1>4, <3>2 DEF DisarmAll, TypeOK
    <3> QED
      BY <3>1, <3>2
  <2> QED
    BY <1>4, <2>2, <2>3, <2>4 DEF DisarmAll, TypeOK
<1>5. CASE EndDrain
  BY <1>5 DEF EndDrain, TypeOK
<1>6. CASE Release
  <2>1. /\ mode' \in [Threads -> Modes]
        /\ \A t \in Threads : mode'[t] \in {"trap", "tf", "step"} => at'[t] \in Addrs
    BY <1>6 DEF Release, TypeOK, Modes
  <2>2. fate' \in {"alive", "exited", "killed"} /\ stepping' \in [Threads -> Addrs \cup {None}]
    BY <1>6 DEF Release, TypeOK
  <2> QED
    BY <1>6, <2>1, <2>2 DEF Release, TypeOK
<1> QED
  BY <1>1, <1>2, <1>3, <1>4, <1>5, <1>6 DEF PumpStep

(* And everything the UI thread asks for.                                     *)
LEMMA UiTyped == TypeOK /\ UiStep => TypeOK'
<1> SUFFICES ASSUME TypeOK, UiStep PROVE TypeOK'
  OBVIOUS
<1> USE DEF target, history, tables, TableRest
<1>1. CASE Attach
  BY <1>1, EntriesTyped DEF Attach, ForgetTables, TypeOK
<1>2. CASE BeginDetach
  BY <1>2 DEF BeginDetach, TypeOK
<1>3. CASE EndDetach
  BY <1>3, EntriesTyped DEF EndDetach, ForgetTables, TypeOK
<1>4. ASSUME NEW a \in SwAddrs, AddSoftware(a) PROVE TypeOK'
  <2>1. a \in Addrs /\ mem[a] \in {"code", "zero"}
    BY <1>4 DEF AddSoftware, AlreadyTrapped, TypeOK, Bytes, Addrs
  <2>2. mem' \in [Addrs -> Bytes] /\ breakpoints' \in [Addrs -> Entries]
    BY <1>4, <2>1, EntriesTyped DEF AddSoftware, TypeOK, Bytes
  <2> QED
    BY <1>4, <2>2 DEF AddSoftware, TypeOK
<1>5. ASSUME NEW a \in HwAddrs, AddHardware(a) PROVE TypeOK'
  <2>1. breakpoints' \in [Addrs -> Entries]
    BY <1>5, EntriesTyped DEF AddHardware, TypeOK
  <2>2. /\ regs' \in [Threads -> [Slots -> Addrs \cup {None}]]
        /\ dr6' \in [Threads -> SUBSET Slots]
    BY <1>5, ImageTyped DEF AddHardware, ApplyToAllThreads, TypeOK
  <2> QED
    BY <1>5, <2>1, <2>2 DEF AddHardware, TypeOK
<1>6. ASSUME NEW a \in Addrs, RemoveBreakpoint(a) PROVE TypeOK'
  <2>1. breakpoints' \in [Addrs -> Entries] /\ disarmed' \subseteq Addrs
    BY <1>6, EntriesTyped DEF RemoveBreakpoint, EraseEntry, NoteInFlight, TypeOK
  <2>2. breakpoints[a].originalByte \in Bytes
    BY EntryFields DEF TypeOK, Bytes
  <2>3. mem' \in [Addrs -> Bytes]
    BY <1>6, <2>2 DEF RemoveBreakpoint, RestoreOriginal, TypeOK
  <2>4. /\ regs' \in [Threads -> [Slots -> Addrs \cup {None}]]
        /\ dr6' \in [Threads -> SUBSET Slots]
    <3>1. CASE breakpoints[a].kind = "hardware"
      <4>1. ApplyToAllThreads(breakpoints')
        BY <1>6, <3>1 DEF RemoveBreakpoint
      <4> QED
        BY <4>1, ImageTyped DEF ApplyToAllThreads, TypeOK
    <3>2. CASE breakpoints[a].kind # "hardware"
      BY <1>6, <3>2 DEF RemoveBreakpoint, TypeOK
    <3> QED
      BY <3>1, <3>2
  <2> QED
    BY <1>6, <2>1, <2>3, <2>4 DEF RemoveBreakpoint, TypeOK
<1> QED
  BY <1>1, <1>2, <1>3, <1>4, <1>5, <1>6 DEF UiStep

(* Type correctness, for every number of threads, breakpoints and registers   *)
(* and whatever platform calls fail.                                          *)
THEOREM TypeCorrect == Spec => []TypeOK
<1>1. TypeOK /\ [Next]_vars => TypeOK'
  <2> SUFFICES ASSUME TypeOK, [Next]_vars PROVE TypeOK'
    OBVIOUS
  <2>1. CASE Next
    BY <2>1, TargetTyped, PumpTyped, UiTyped DEF Next
  <2>2. CASE UNCHANGED vars
    BY <2>2 DEF TypeOK, vars, target, history, tables
  <2> QED
    BY <2>1, <2>2
<1> QED
  BY <1>1, InitTyped, PTL DEF Spec

--------------------------------------------------------------------------------
(* Own traps are claimed.  The types, what TrapsAccounted says and the claim  *)
(* itself are inductive together, as long as writes to the target's memory    *)
(* succeed: a re-arm whose write fails drops its entry and remembers nothing. *)
TrapInv == TypeOK /\ TrapsAccounted /\ OwnTrapsClaimed

(* While the pump is attached to a live target an address it answers for      *)
(* stays one, so a step is safe if it makes no int3, trap or step elsewhere.  *)
Attended == Debugged /\ fate = "alive"

LEMMA AccountedStep ==
    ASSUME TrapInv, TypeOK', Attended' => Attended,
           Attended' =>
              /\ Ours \subseteq Ours'
              /\ \A a \in Addrs : mem'[a] = "int3" => mem[a] = "int3" \/ a \in Ours'
              /\ \A t \in Threads : mode'[t] = "trap" =>
                    (mode[t] = "trap" /\ at'[t] = at[t]) \/ at'[t] \in Ours'
              /\ \A t \in Threads : stepping'[t] # None =>
                    stepping'[t] = stepping[t] \/ stepping'[t] \in Ours',
           ~Debugged' => \A t \in Threads : mode'[t] # "trap",
           OwnTrapsClaimed'
    PROVE  TrapInv'
<1>1. CASE Attended'
  <2>0. Attended /\ Ours \subseteq Ours'
    BY <1>1
  <2>1. \A a \in Addrs : mem'[a] = "int3" => a \in Ours'
    BY <1>1, <2>0 DEF TrapInv, TrapsAccounted, Attended
  <2>2. \A t \in Threads : mode'[t] = "trap" => at'[t] \in Ours'
    BY <1>1, <2>0 DEF TrapInv, TrapsAccounted, Attended
  <2>3. \A t \in Threads : stepping'[t] # None => stepping'[t] \in Ours'
    BY <1>1, <2>0 DEF TrapInv, TrapsAccounted, Attended
  <2> QED
    BY <1>1, <2>1, <2>2, <2>3 DEF TrapInv, TrapsAccounted, Attended
<1>2. CASE ~Attended'
  BY <1>2 DEF TrapInv, TrapsAccounted, Attended
<1> QED
  BY <1>1, <1>2

(* Writes succeed, so a re-arm drops no entry and puts an int3 only at an     *)
(* address the pump answers for.                                              *)
LEMMA RearmAccounted ==
    ASSUME TrapInv, "write" \notin Faults, NEW a \in Ours, Rearm(a)
    PROVE  /\ breakpoints' = breakpoints
           /\ \A b \in Addrs : mem'[b] = "int3" => mem[b] = "int3" \/ b \in Ours
BY DEF Rearm, Outcomes, TrapInv, TypeOK

LEMMA TrapTarget == TrapInv /\ TargetStep => TrapInv'
<1> SUFFICES ASSUME TrapInv, TargetStep PROVE TrapInv'
  OBVIOUS
<1>0. TypeOK'
  BY TargetTyped DEF TrapInv
<1> USE <1>0 DEF target, history, tables, TargetRest, Ours, OwnTrapsClaimed, Attended, Debugged
<1>1. ASSUME NEW t \in Threads, NEW a \in Addrs, ExecuteInt3(t, a) PROVE TrapInv'
  BY <1>1, AccountedStep DEF ExecuteInt3, Raise, MoveThread, TrapInv, TypeOK, TrapsAccounted
<1>2. ASSUME NEW t \in Threads, ExecuteStepped(t) PROVE TrapInv'
  BY <1>2, AccountedStep DEF ExecuteStepped, Raise, MoveThread, TrapInv, TypeOK, TrapsAccounted
<1>3. ASSUME NEW t \in Threads, NEW s \in Slots, WatchFires(t, s) PROVE TrapInv'
  BY <1>3, AccountedStep DEF WatchFires, Raise, MoveThread, TrapInv, TypeOK, TrapsAccounted
<1>4. ASSUME NEW t \in Threads, StartThread(t) PROVE TrapInv'
  BY <1>4, AccountedStep DEF StartThread, MoveThread, TrapInv, TypeOK, TrapsAccounted
<1>5. ASSUME NEW t \in Threads, EndThread(t) PROVE TrapInv'
  BY <1>5, AccountedStep DEF EndThread, MoveThread, TrapInv, TypeOK, TrapsAccounted
<1>6. CASE ExitProcess
  BY <1>6 DEF ExitProcess, TrapInv, TrapsAccounted
<1>7. CASE Relaunch
  BY <1>7 DEF Relaunch, TrapInv, TrapsAccounted
<1> QED
  BY <1>1, <1>2, <1>3, <1>4, <1>5, <1>6, <1>7 DEF TargetStep

LEMMA TrapThreadEvent ==
    ASSUME TrapInv, "write" \notin Faults, NEW t \in Threads, HandleThreadEvent(t)
    PROVE  TrapInv'
<1>0. TypeOK'
  BY ThreadEventTyped DEF TrapInv
<1>a. \A a \in Addrs : breakpoints[a].originalByte # "int3"
  BY EntryFields DEF TrapInv, TypeOK
<1>b. Attended /\ (Attended' => Attended) /\ Debugged'
  BY DEF HandleThreadEvent, HandleHit, AbsorbStaleTrap, PassTrap, HandleSingleStep,
         HandleThreadExit, HandleThreadCreate, HandlerRest, Deliver, Pumping, Attended, Debugged
<1> USE <1>0, <1>b DEF HandlerRest, Deliver, tables
<1>1. CASE HandleHit(t)
  <2>1. at[t] \in Addrs /\ at[t] \in Ours
    BY <1>1 DEF HandleHit, TrapInv, TypeOK, TrapsAccounted, Attended
  <2>2. Ours \subseteq Ours'
    BY <1>1, <2>1 DEF HandleHit, EraseEntry, NoteInFlight, Ours, TrapInv, TypeOK
  <2>3. \A a \in Addrs : mem'[a] = "int3" => mem[a] = "int3"
    BY <1>1, <1>a, <2>1 DEF HandleHit, RestoreOriginal, TrapInv, TypeOK
  <2>4. \A u \in Threads : mode'[u] = "trap" => mode[u] = "trap" /\ at'[u] = at[u]
    BY <1>1 DEF HandleHit, MoveThread, TrapInv, TypeOK
  <2>5. \A u \in Threads : stepping'[u] # None =>
            stepping'[u] = stepping[u] \/ stepping'[u] \in Ours'
    BY <1>1, <2>1, <2>2 DEF HandleHit, TrapInv, TypeOK
  <2> QED
    BY <1>1, <2>2, <2>3, <2>4, <2>5, AccountedStep DEF HandleHit, TrapInv, OwnTrapsClaimed
<1>2. CASE AbsorbStaleTrap(t)
  <2>1. \A u \in Threads : mode'[u] = "trap" => mode[u] = "trap" /\ at'[u] = at[u]
    BY <1>2 DEF AbsorbStaleTrap, MoveThread, TrapInv, TypeOK
  <2>2. Ours' = Ours
    BY <1>2 DEF AbsorbStaleTrap, Ours
  <2> QED
    BY <1>2, <2>1, <2>2, AccountedStep DEF AbsorbStaleTrap, TrapInv, OwnTrapsClaimed
<1>3. CASE PassTrap(t)
  <2>1. \A u \in Threads : mode'[u] = "trap" => mode[u] = "trap" /\ at'[u] = at[u]
    BY <1>3 DEF PassTrap, MoveThread, TrapInv, TypeOK
  <2>2. Ours' = Ours
    BY <1>3 DEF PassTrap, Ours
  <2>3. at[t] \in OwnInt3 \cup inherited
    BY <1>3 DEF PassTrap, Found, NoEntry, TrapInv, TypeOK, TrapsAccounted, Attended, Ours
  <2> QED
    BY <1>3, <2>1, <2>2, <2>3, AccountedStep DEF PassTrap, TrapInv, OwnTrapsClaimed
<1>4. CASE HandleSingleStep(t)
  <2>1. \A u \in Threads : mode'[u] = "trap" => mode[u] = "trap" /\ at'[u] = at[u]
    BY <1>4 DEF HandleSingleStep, MoveThread, TrapInv, TypeOK
  <2>2. \A u \in Threads : stepping'[u] # None => stepping'[u] = stepping[u]
    BY <1>4 DEF HandleSingleStep, TrapInv, TypeOK
  <2>3. /\ breakpoints' = breakpoints
        /\ \A b \in Addrs : mem'[b] = "int3" => mem[b] = "int3" \/ b \in Ours
    <3>1. CASE stepping[t] = None
      BY <1>4, <3>1 DEF HandleSingleStep
    <3>2. CASE stepping[t] # None
      <4>1. stepping[t] \in Ours
        BY <3>2 DEF TrapInv, TrapsAccounted, Attended
      <4> QED
        BY <1>4, <3>2, <4>1, RearmAccounted DEF HandleSingleStep
    <3> QED
      BY <3>1, <3>2
  <2>4. Ours' = Ours
    BY <1>4, <2>3 DEF HandleSingleStep, Ours
  <2> QED
    BY <1>4, <2>1, <2>2, <2>3, <2>4, AccountedStep DEF HandleSingleStep, TrapInv, OwnTrapsClaimed
<1>5. CASE HandleThreadExit(t)
  <2>1. \A u \in Threads : mode'[u] = "trap" => mode[u] = "trap" /\ at'[u] = at[u]
    BY <1>5 DEF HandleThreadExit, MoveThread, TrapInv, TypeOK
  <2>2. \A u \in Threads : stepping'[u] # None => stepping'[u] = stepping[u]
    BY <1>5 DEF HandleThreadExit, TrapInv, TypeOK
  <2>3. /\ breakpoints' = breakpoints
        /\ \A b \in Addrs : mem'[b] = "int3" => mem[b] = "int3" \/ b \in Ours
    <3>1. CASE ~LastStepper(t)
      BY <1>5, <3>1 DEF HandleThreadExit
    <3>2. CASE LastStepper(t)
      <4>1. stepping[t] \in Ours
        BY <3>2 DEF LastStepper, TrapInv, TrapsAccounted, Attended
      <4> QED
        BY <1>5, <3>2, <4>1, RearmAccounted DEF HandleThreadExit
    <3> QED
      BY <3>1, <3>2
  <2>4. Ours' = Ours
    BY <1>5, <2>3 DEF HandleThreadExit, Ours
  <2> QED
    BY <1>5, <2>1, <2>2, <2>3, <2>4, AccountedStep DEF HandleThreadExit, TrapInv, OwnTrapsClaimed
<1>6. CASE HandleThreadCreate(t)
  <2>1. \A u \in Threads : mode'[u] = "trap" => mode[u] = "trap" /\ at'[u] = at[u]
    BY <1>6 DEF HandleThreadCreate, MoveThread, TrapInv, TypeOK
  <2>2. Ours' = Ours
    BY <1>6 DEF HandleThreadCreate, Ours
  <2> QED
    BY <1>6, <2>1, <2>2, AccountedStep DEF HandleThreadCreate, TrapInv, OwnTrapsClaimed
<1> QED
  BY <1>1, <1>2, <1>3, <1>4, <1>5, <1>6 DEF HandleThreadEvent

LEMMA TrapPump == TrapInv /\ "write" \notin Faults /\ PumpStep => TrapInv'
<1> SUFFICES ASSUME TrapInv, "write" \notin Faults, PumpStep PROVE TrapInv'
  OBVIOUS
<1>0. TypeOK'
  BY PumpTyped DEF TrapInv
<1> USE <1>0 DEF target, history, tables, OwnTrapsClaimed
<1>1. CASE \E t \in Threads : HandleThreadEvent(t)
  BY <1>1, TrapThreadEvent
<1>2. CASE InitialBreakpoint
  BY <1>2, AccountedStep DEF InitialBreakpoint, TrapInv, TrapsAccounted, Attended, Debugged, Ours
<1>3. CASE HandleProcessExit
  BY <1>3, AccountedStep DEF HandleProcessExit, Pumping, TrapInv, TrapsAccounted, Attended, Debugged
<1>4. CASE DisarmAll
  <2>1. \A a \in Addrs : breakpoints[a].originalByte # "int3"
    BY EntryFields DEF TrapInv, TypeOK
  <2>2. \A a \in Addrs : mem'[a] = "int3" => mem[a] = "int3"
    BY <1>4, <2>1 DEF DisarmAll
  <2>3. Ours \subseteq Ours'
    BY <1>4 DEF DisarmAll, NoteInFlight, Ours
  <2>4. Debugged /\ (Attended' => Attended) /\ Debugged'
    BY <1>4 DEF DisarmAll, Debugged, Attended
  <2> QED
    BY <1>4, <2>2, <2>3, <2>4, AccountedStep DEF DisarmAll, TrapInv
<1>5. CASE EndDrain
  BY <1>5, AccountedStep DEF EndDrain, TrapInv, TrapsAccounted, Attended, Debugged, Ours
<1>6. CASE Release
  <2>1. ~Debugged' /\ \A t \in Threads : mode'[t] # "trap"
    BY <1>6 DEF Release, Debugged, TrapInv, TypeOK
  <2> QED
    BY <1>6, <2>1, AccountedStep DEF Release, TrapInv, Attended
<1> QED
  BY <1>1, <1>2, <1>3, <1>4, <1>5, <1>6 DEF PumpStep

LEMMA TrapUi == TrapInv /\ UiStep => TrapInv'
<1> SUFFICES ASSUME TrapInv, UiStep PROVE TrapInv'
  OBVIOUS
<1>0. TypeOK'
  BY UiTyped DEF TrapInv
<1> USE <1>0 DEF target, history, tables, TableRest, OwnTrapsClaimed
<1>1. CASE Attach
  <2>1. \A a \in Addrs : mem'[a] = "int3" => a \in inherited' \cup OwnInt3
    BY <1>1 DEF Attach, Program
  <2>2. \A t \in Threads : mode'[t] # "trap" /\ stepping'[t] = None
    BY <1>1 DEF Attach, ForgetTables, Debugged, TrapInv, TrapsAccounted
  <2> QED
    BY <1>1, <2>1, <2>2 DEF Attach, TrapInv, TrapsAccounted, Ours
<1>2. CASE BeginDetach
  BY <1>2, AccountedStep DEF BeginDetach, TrapInv, TrapsAccounted, Attended, Debugged, Ours
<1>3. CASE EndDetach
  BY <1>3, AccountedStep DEF EndDetach, TrapInv, TrapsAccounted, Attended, Debugged
<1>4. ASSUME NEW a \in SwAddrs, AddSoftware(a) PROVE TrapInv'
  <2>1. a \in Addrs
    BY DEF Addrs
  <2>2. Ours \subseteq Ours' /\ a \in Ours'
    BY <1>4, <2>1 DEF AddSoftware, Software, Ours, TrapInv, TypeOK
  <2> QED
    BY <1>4, <2>1, <2>2, AccountedStep DEF AddSoftware, TrapInv, TypeOK, Attended, Debugged
<1>5. ASSUME NEW a \in HwAddrs, AddHardware(a) PROVE TrapInv'
  <2>1. Ours \subseteq Ours'
    BY <1>5 DEF AddHardware, Found, NoEntry, Ours, TrapInv, TypeOK
  <2> QED
    BY <1>5, <2>1, AccountedStep DEF AddHardware, TrapInv, Attended, Debugged
<1>6. ASSUME NEW a \in Addrs, RemoveBreakpoint(a) PROVE TrapInv'
  <2>1. breakpoints[a].originalByte # "int3"
    BY EntryFields DEF TrapInv, TypeOK
  <2>2. Ours \subseteq Ours'
    BY <1>6 DEF RemoveBreakpoint, EraseEntry, NoteInFlight, Ours, TrapInv, TypeOK
  <2>3. \A b \in Addrs : mem'[b] = "int3" => mem[b] = "int3"
    BY <1>6, <2>1 DEF RemoveBreakpoint, RestoreOriginal, TrapInv, TypeOK
  <2> QED
    BY <1>6, <2>2, <2>3, AccountedStep DEF RemoveBreakpoint, TrapInv, Attended, Debugged
<1> QED
  BY <1>1, <1>2, <1>3, <1>4, <1>5, <1>6 DEF UiStep

(* The invariant is inductive as long as writes to the target succeed.        *)
LEMMA TrapInvariant ==
    ASSUME "write" \notin Faults PROVE Spec => []TrapInv
<1>1. Init => TrapInv
  <2> SUFFICES ASSUME Init PROVE TrapInv
    OBVIOUS
  <2>1. TypeOK
    BY InitTyped
  <2>2. TrapsAccounted
    BY DEF Init, TrapsAccounted, Debugged
  <2> QED
    BY <2>1, <2>2 DEF Init, TrapInv, OwnTrapsClaimed
<1>2. TrapInv /\ [Next]_vars => TrapInv'
  <2> SUFFICES ASSUME TrapInv, [Next]_vars PROVE TrapInv'
    OBVIOUS
  <2>1. CASE Next
    BY <2>1, TrapTarget, TrapPump, TrapUi DEF Next
  <2>2. CASE UNCHANGED vars
    BY <2>2 DEF TrapInv, TypeOK, TrapsAccounted, OwnTrapsClaimed, Ours, Debugged,
                vars, target, history, tables
  <2> QED
    BY <2>1, <2>2
<1> QED
  BY <1>1, <1>2, PTL DEF Spec

(* The pump recognises every trap it caused, for every number of threads and  *)
(* breakpoints, and whichever thread-context calls fail, as long as writes to *)
(* the target's memory succeed.                                               *)
THEOREM OwnTrapsAlwaysClaimed ==
    ASSUME "write" \notin Faults PROVE Spec => []OwnTrapsClaimed
<1>1. TrapInv => OwnTrapsClaimed
  BY DEF TrapInv
<1> QED
  BY <1>1, TrapInvariant, PTL

(* Every int3 in memory, trap in flight and step under way is at an address   *)
(* the pump's tables answer for, under the same assumption.                   *)
THEOREM TrapsAlwaysAccounted ==
    ASSUME "write" \notin Faults PROVE Spec => []TrapsAccounted
<1>1. TrapInv => TrapsAccounted
  BY DEF TrapInv
<1> QED
  BY <1>1, TrapInvariant, PTL

--------------------------------------------------------------------------------
(* A software breakpoint never goes quiet, whatever fails.                    *)

Alive == fate = "alive"

(* Outside its loop the pump has no software breakpoint, and nobody adds one: *)
(* the UI thread waits for it to let go, or the target is gone.               *)
PhaseOK ==
    /\ pump # "loop" => \A a \in Addrs : breakpoints[a].kind # "software"
    /\ pump = "disarm" => ~Alive
    /\ pump \in {"drain", "release"} /\ Alive => ui = "detaching"
    /\ ~Debugged => \A t \in Threads : stepping[t] = None

(* A thread that owes a step is at the address it steps over until the step   *)
(* is answered, unless it is ending or lost: it cannot hit another breakpoint *)
(* first, whose hit would make the pump forget the first one's.               *)
StepperOK ==
    /\ \A a \in OwnInt3 : ~Found(a)
    /\ \A t \in Threads : stepping[t] # None =>
          /\ stepping[t] \notin OwnInt3
          /\ \/ mode[t] \in {"tf", "step", "trap"} /\ at[t] = stepping[t]
             \/ mode[t] \in {"exit", "derailed"}

PhaseInv == TypeOK /\ PhaseOK /\ StepperOK /\ ArmedOrStepped

(* The names of the kinds of entry.                                           *)
LEMMA EntryKinds ==
    /\ NoEntry.kind = "none" /\ NoEntry.slot = None
    /\ \A s \in Slots : Hardware(s).kind = "hardware" /\ Hardware(s).slot = s
    /\ \A b : Software(b).kind = "software" /\ Software(b).slot = None
    /\ \A b : Software(b).originalByte = b
    /\ \A e \in Entries : e.kind = "none" <=> e = NoEntry
    /\ \A e \in Entries : e.kind # "hardware" => e.slot = None
    /\ \A e \in Entries : e.kind = "hardware" => e.slot \in Slots
BY DEF Entries, NoEntry, Software, Hardware

(* Re-arming an address leaves the others alone, and the address itself with  *)
(* an int3 or without an entry.                                               *)
LEMMA RearmEffect ==
    ASSUME TypeOK, NEW c \in Addrs, Rearm(c)
    PROVE  /\ \A a \in Addrs \ {c} : mem'[a] = mem[a] /\ breakpoints'[a] = breakpoints[a]
           /\ breakpoints'[c].kind = "software" => mem'[c] = "int3"
           /\ \A a \in Addrs : Found(a)' => Found(a)
BY EntryKinds DEF Rearm, TypeOK, Found

(* What the target does by itself disturbs none of this.                      *)
LEMMA PhaseTarget == PhaseInv /\ TargetStep => PhaseInv'
<1> SUFFICES ASSUME PhaseInv, TargetStep PROVE PhaseInv'
  OBVIOUS
<1>0. TypeOK'
  BY TargetTyped DEF PhaseInv
<1> USE <1>0 DEF target, history, tables, TargetRest, Alive, Debugged, Found
<1>a. ASSUME ~Relaunch PROVE UNCHANGED <<pump, ui, stepping, breakpoints>> /\ (Alive' => Alive) /\ mem' = mem
  BY <1>a DEF TargetStep, ExecuteInt3, ExecuteStepped, WatchFires, StartThread, EndThread, ExitProcess
<1>b. ASSUME ~Relaunch, StepperOK' PROVE PhaseInv'
  BY <1>a, <1>b DEF PhaseInv, PhaseOK, ArmedOrStepped, SteppingOver
<1>1. ASSUME NEW t \in Threads, NEW a \in Addrs, ExecuteInt3(t, a) PROVE PhaseInv'
  <2>1. stepping[t] = None /\ ~Relaunch
    BY <1>1 DEF ExecuteInt3, Relaunch, PhaseInv, StepperOK
  <2> QED
    BY <1>1, <2>1, <1>b DEF ExecuteInt3, Raise, MoveThread, PhaseInv, StepperOK, TypeOK
<1>2. ASSUME NEW t \in Threads, ExecuteStepped(t) PROVE PhaseInv'
  <2>1. ~Relaunch
    BY <1>2 DEF ExecuteStepped, Relaunch
  <2>2. stepping' = stepping /\ breakpoints' = breakpoints
    BY <1>2 DEF ExecuteStepped
  <2>3. CASE Debugged
    <3>1. \A u \in Threads \ {t} : mode'[u] = mode[u] /\ at'[u] = at[u]
      BY <1>2, <2>3 DEF ExecuteStepped, Raise, MoveThread, PhaseInv, TypeOK
    <3>2. mode'[t] \in {"trap", "step"} /\ at'[t] = at[t] /\ mode[t] = "tf"
      BY <1>2, <2>3 DEF ExecuteStepped, Raise, MoveThread, PhaseInv, TypeOK
    <3> QED
      BY <2>1, <2>2, <3>1, <3>2, <1>b DEF PhaseInv, StepperOK
  <2>4. CASE ~Debugged
    <3>1. UNCHANGED <<mode, at>>
      BY <1>2, <2>4 DEF ExecuteStepped, Raise
    <3> QED
      BY <2>1, <2>2, <3>1, <1>b DEF PhaseInv, StepperOK
  <2> QED
    BY <2>3, <2>4
<1>3. ASSUME NEW t \in Threads, NEW s \in Slots, WatchFires(t, s) PROVE PhaseInv'
  <2>1. stepping[t] = None /\ ~Relaunch
    BY <1>3 DEF WatchFires, Relaunch, PhaseInv, StepperOK
  <2> QED
    BY <1>3, <2>1, <1>b DEF WatchFires, Raise, MoveThread, PhaseInv, StepperOK, TypeOK
<1>4. ASSUME NEW t \in Threads, StartThread(t) PROVE PhaseInv'
  <2>1. stepping[t] = None /\ ~Relaunch
    BY <1>4 DEF StartThread, Relaunch, PhaseInv, StepperOK
  <2> QED
    BY <1>4, <2>1, <1>b DEF StartThread, MoveThread, PhaseInv, StepperOK, TypeOK
<1>5. ASSUME NEW t \in Threads, EndThread(t) PROVE PhaseInv'
  <2>1. ~Relaunch /\ (stepping[t] # None => Debugged)
    BY <1>5 DEF EndThread, Relaunch, PhaseInv, PhaseOK
  <2> QED
    BY <1>5, <2>1, <1>b DEF EndThread, MoveThread, PhaseInv, StepperOK, TypeOK
<1>6. CASE ExitProcess
  <2>1. ~Relaunch
    BY <1>6 DEF ExitProcess, Relaunch
  <2> QED
    BY <1>6, <2>1, <1>b DEF ExitProcess, PhaseInv, StepperOK
<1>7. CASE Relaunch
  BY <1>7 DEF Relaunch, PhaseInv, PhaseOK, StepperOK, ArmedOrStepped
<1> QED
  BY <1>1, <1>2, <1>3, <1>4, <1>5, <1>6, <1>7 DEF TargetStep

(* The pump's answer to a thread's event keeps the breakpoints going: who     *)
(* takes an int3 away steps over it, and who steps over it last puts it back. *)
LEMMA PhaseThreadEvent ==
    ASSUME PhaseInv, NEW t \in Threads, HandleThreadEvent(t)
    PROVE  PhaseInv'
<1>0. TypeOK'
  BY ThreadEventTyped DEF PhaseInv
<1>a. Alive /\ UNCHANGED <<pump, ui, fate>> /\ Pumping
  BY DEF HandleThreadEvent, HandleHit, AbsorbStaleTrap, PassTrap, HandleSingleStep,
         HandleThreadExit, HandleThreadCreate, HandlerRest, Deliver, Alive
<1>b. \A u \in Threads \ {t} : UNCHANGED <<mode[u], at[u], stepping[u]>>
  BY DEF HandleThreadEvent, HandleHit, AbsorbStaleTrap, PassTrap, HandleSingleStep,
         HandleThreadExit, HandleThreadCreate, HandlerRest, Deliver, MoveThread, tables, PhaseInv, TypeOK
<1>c. ASSUME \A a \in Addrs : Found(a)' => Found(a),
             \A a \in Addrs : breakpoints'[a].kind = "software" => breakpoints[a].kind = "software"
      PROVE  PhaseOK'
  BY <1>a, <1>b, <1>c DEF PhaseInv, PhaseOK, Pumping, Debugged, Alive
<1> USE <1>0 DEF HandlerRest, Deliver, tables
<1>1. CASE HandleHit(t)
  <2>1. at[t] \in Addrs /\ stepping[t] \in {None, at[t]} /\ at[t] \notin OwnInt3 /\ mode[t] = "trap"
    BY <1>1 DEF HandleHit, PhaseInv, StepperOK, TypeOK
  <2>2. \A a \in Addrs : breakpoints'[a] \in {breakpoints[a], NoEntry}
    BY <1>1, <2>1 DEF HandleHit, EraseEntry, PhaseInv, TypeOK
  <2>3. \A a \in Addrs \ {at[t]} : mem'[a] = mem[a]
    BY <1>1, <2>1 DEF HandleHit, RestoreOriginal, PhaseInv, TypeOK
  <2>4. \/ mode'[t] = "tf" /\ at'[t] = at[t] /\ stepping'[t] = at[t]
        \/ mode'[t] = "derailed" /\ stepping'[t] = stepping[t] /\ (breakpoints'[at[t]] = NoEntry \/ mem' = mem)
    BY <1>1, <2>1 DEF HandleHit, MoveThread, EraseEntry, PhaseInv, TypeOK
  <2>5. StepperOK'
    <3>1. \A a \in OwnInt3 : breakpoints'[a] = NoEntry
      BY <2>2 DEF PhaseInv, StepperOK, Found, Addrs
    <3> QED
      BY <1>b, <2>1, <2>4, <3>1 DEF PhaseInv, StepperOK, Found
  <2>6. ArmedOrStepped'
    <3> SUFFICES ASSUME NEW a \in Addrs, breakpoints'[a].kind = "software", mem'[a] # "int3"
                 PROVE  \E u \in Threads : stepping'[u] = a
      BY DEF ArmedOrStepped, SteppingOver
    <3>1. breakpoints'[a] = breakpoints[a]
      BY <2>2, EntryKinds
    <3>2. CASE mem[a] # "int3"
      <4>1. PICK u \in Threads : stepping[u] = a
        BY <1>a, <3>1, <3>2 DEF PhaseInv, ArmedOrStepped, SteppingOver, Alive
      <4>2. CASE u = t
        BY <2>1, <2>4, <4>1, <4>2, DebugPumpAssumption DEF Addrs
      <4> QED
        BY <1>b, <4>1, <4>2
    <3>3. CASE mem[a] = "int3"
      BY <2>3, <2>4, <3>1, <3>3, EntryKinds
    <3> QED
      BY <3>2, <3>3
  <2> QED
    BY <1>c, <2>2, <2>5, <2>6, EntryKinds DEF PhaseInv, Found
<1>2. ASSUME AbsorbStaleTrap(t) \/ PassTrap(t) PROVE PhaseInv'
  <2>1. UNCHANGED <<mem, breakpoints, stepping>>
    BY <1>2 DEF AbsorbStaleTrap, PassTrap
  <2>2. stepping[t] # None =>
            \/ mode'[t] = "tf" /\ at'[t] = stepping[t]
            \/ mode'[t] = "derailed"
    BY <1>2 DEF AbsorbStaleTrap, PassTrap, MoveThread, PhaseInv, StepperOK, TypeOK
  <2>3. StepperOK'
    BY <1>b, <2>1, <2>2 DEF PhaseInv, StepperOK, Found
  <2> QED
    BY <1>a, <1>c, <2>1, <2>3 DEF PhaseInv, ArmedOrStepped, SteppingOver, Found, Alive
<1>3. ASSUME HandleSingleStep(t) \/ HandleThreadExit(t) PROVE PhaseInv'
  <2>1. stepping'[t] = None
    BY <1>3 DEF HandleSingleStep, HandleThreadExit, PhaseInv, TypeOK
  <2>2. \/ UNCHANGED <<mem, breakpoints>> /\ (stepping[t] = None \/ \E u \in Threads \ {t} : stepping[u] = stepping[t])
        \/ stepping[t] \in Addrs /\ Rearm(stepping[t])
    BY <1>3 DEF HandleSingleStep, HandleThreadExit, LastStepper, PhaseInv, TypeOK
  <2>3. \A a \in Addrs : /\ Found(a)' => Found(a)
                         /\ breakpoints'[a].kind = "software" => breakpoints[a].kind = "software"
    BY <2>2, RearmEffect, EntryKinds DEF Rearm, Found, PhaseInv, TypeOK
  <2>4. StepperOK'
    BY <1>b, <2>1, <2>3, DebugPumpAssumption DEF PhaseInv, StepperOK, Found, Addrs
  <2>5. ArmedOrStepped'
    <3> SUFFICES ASSUME NEW a \in Addrs, breakpoints'[a].kind = "software", mem'[a] # "int3"
                 PROVE  \E u \in Threads : stepping'[u] = a
      BY DEF ArmedOrStepped, SteppingOver
    <3>1. CASE stepping[t] # a
      <4>1. mem'[a] = mem[a] /\ breakpoints'[a] = breakpoints[a]
        BY <2>2, <3>1, RearmEffect DEF PhaseInv
      <4>2. PICK u \in Threads : stepping[u] = a
        BY <1>a, <4>1 DEF PhaseInv, ArmedOrStepped, SteppingOver, Alive
      <4> QED
        BY <1>b, <3>1, <4>2
    <3>2. CASE stepping[t] = a
      <4>1. a # None
        BY DebugPumpAssumption DEF Addrs
      <4> QED
        BY <1>b, <2>2, <3>2, <4>1, RearmEffect DEF PhaseInv
    <3> QED
      BY <3>1, <3>2
  <2> QED
    BY <1>c, <2>3, <2>4, <2>5 DEF PhaseInv
<1>4. CASE HandleThreadCreate(t)
  <2>1. stepping[t] = None /\ UNCHANGED <<mem, breakpoints, stepping>>
    BY <1>4 DEF HandleThreadCreate, PhaseInv, StepperOK
  <2>2. StepperOK'
    BY <1>b, <2>1 DEF PhaseInv, StepperOK, Found
  <2> QED
    BY <1>a, <1>c, <2>1, <2>2 DEF PhaseInv, ArmedOrStepped, SteppingOver, Found, Alive
<1> QED
  BY <1>1, <1>2, <1>3, <1>4 DEF HandleThreadEvent

LEMMA PhasePump == PhaseInv /\ PumpStep => PhaseInv'
<1> SUFFICES ASSUME PhaseInv, PumpStep PROVE PhaseInv'
  OBVIOUS
<1>0. TypeOK'
  BY PumpTyped DEF PhaseInv
<1> USE <1>0 DEF target, history, tables, Alive, Debugged, Found
<1>1. CASE \E t \in Threads : HandleThreadEvent(t)
  BY <1>1, PhaseThreadEvent
<1>2. CASE InitialBreakpoint
  BY <1>2 DEF InitialBreakpoint, PhaseInv, PhaseOK, StepperOK, ArmedOrStepped, SteppingOver
<1>3. CASE HandleProcessExit
  <2>1. ~Alive' /\ ~Alive
    BY <1>3 DEF HandleProcessExit
  <2>2. \A a \in Addrs : breakpoints'[a].kind # "software"
    BY <1>3, EntryKinds DEF HandleProcessExit, Pumping, PhaseInv, PhaseOK
  <2>3. StepperOK'
    BY <1>3, DebugPumpAssumption DEF HandleProcessExit, PhaseInv, StepperOK, Addrs
  <2> QED
    BY <1>3, <2>1, <2>2, <2>3 DEF HandleProcessExit, Pumping, PhaseInv, PhaseOK, ArmedOrStepped
<1>4. CASE DisarmAll
  <2>1. \A a \in Addrs : breakpoints'[a] = NoEntry
    BY <1>4 DEF DisarmAll
  <2>2. UNCHANGED <<mode, at, stepping, fate, ui>>
    BY <1>4 DEF DisarmAll
  <2>3. PhaseOK'
    BY <1>4, <2>1, <2>2, EntryKinds DEF DisarmAll, PhaseInv, PhaseOK
  <2> QED
    BY <2>1, <2>2, <2>3, EntryKinds DEF PhaseInv, StepperOK, ArmedOrStepped, Addrs
<1>5. CASE EndDrain
  BY <1>5 DEF EndDrain, PhaseInv, PhaseOK, StepperOK, ArmedOrStepped, SteppingOver
<1>6. CASE Release
  BY <1>6 DEF Release, PhaseInv, PhaseOK, StepperOK, ArmedOrStepped, SteppingOver
<1> QED
  BY <1>1, <1>2, <1>3, <1>4, <1>5, <1>6 DEF PumpStep

LEMMA PhaseUi == PhaseInv /\ UiStep => PhaseInv'
<1> SUFFICES ASSUME PhaseInv, UiStep PROVE PhaseInv'
  OBVIOUS
<1>0. TypeOK'
  BY UiTyped DEF PhaseInv
<1> USE <1>0 DEF target, history, tables, TableRest, Alive, Debugged, Found
<1>1. ASSUME Attach \/ EndDetach PROVE PhaseInv'
  <2>1. /\ \A a \in Addrs : breakpoints'[a] = NoEntry
        /\ \A t \in Threads : stepping'[t] = None
    BY <1>1 DEF Attach, EndDetach, ForgetTables
  <2>2. pump' \in {"off", "loop"}
    BY <1>1 DEF Attach, EndDetach
  <2> QED
    BY <2>1, <2>2, EntryKinds DEF PhaseInv, PhaseOK, StepperOK, ArmedOrStepped, Addrs
<1>2. CASE BeginDetach
  BY <1>2 DEF BeginDetach, PhaseInv, PhaseOK, StepperOK, ArmedOrStepped, SteppingOver
<1>3. ASSUME NEW a \in SwAddrs, AddSoftware(a) PROVE PhaseInv'
  <2>1. a \in Addrs /\ a \notin OwnInt3 /\ pump = "loop"
    BY <1>3, DebugPumpAssumption DEF AddSoftware, Addrs, PhaseInv, PhaseOK, TypeOK
  <2>2. mem'[a] = "int3" /\ \A b \in Addrs \ {a} : mem'[b] = mem[b] /\ breakpoints'[b] = breakpoints[b]
    BY <1>3, <2>1 DEF AddSoftware, PhaseInv, TypeOK
  <2>3. UNCHANGED <<mode, at, stepping, fate, ui, pump>>
    BY <1>3 DEF AddSoftware
  <2> QED
    BY <2>1, <2>2, <2>3 DEF PhaseInv, PhaseOK, StepperOK, ArmedOrStepped, SteppingOver, Addrs
<1>4. ASSUME NEW a \in HwAddrs, AddHardware(a) PROVE PhaseInv'
  <2>1. a \in Addrs /\ a \notin OwnInt3
    BY DebugPumpAssumption DEF Addrs
  <2>2. breakpoints'[a].kind = "hardware" /\ \A b \in Addrs \ {a} : breakpoints'[b] = breakpoints[b]
    BY <1>4, <2>1, EntryKinds DEF AddHardware, PhaseInv, TypeOK
  <2>3. UNCHANGED <<mem, mode, at, stepping, fate, ui, pump>>
    BY <1>4 DEF AddHardware
  <2> QED
    BY <2>1, <2>2, <2>3 DEF PhaseInv, PhaseOK, StepperOK, ArmedOrStepped, SteppingOver, Addrs
<1>5. ASSUME NEW a \in Addrs, RemoveBreakpoint(a) PROVE PhaseInv'
  <2>1. breakpoints'[a] = NoEntry /\ \A b \in Addrs \ {a} : breakpoints'[b] = breakpoints[b]
    BY <1>5 DEF RemoveBreakpoint, EraseEntry, PhaseInv, TypeOK
  <2>2. \A b \in Addrs \ {a} : mem'[b] = mem[b]
    BY <1>5 DEF RemoveBreakpoint, RestoreOriginal, PhaseInv, TypeOK
  <2>3. UNCHANGED <<mode, at, stepping, fate, ui, pump>>
    BY <1>5 DEF RemoveBreakpoint
  <2> QED
    BY <2>1, <2>2, <2>3, EntryKinds DEF PhaseInv, PhaseOK, StepperOK, ArmedOrStepped, SteppingOver, Addrs
<1> QED
  BY <1>1, <1>2, <1>3, <1>4, <1>5 DEF UiStep

LEMMA PhaseInvariant == Spec => []PhaseInv
<1>1. Init => PhaseInv
  <2> SUFFICES ASSUME Init PROVE PhaseInv
    OBVIOUS
  <2>1. TypeOK
    BY InitTyped
  <2> QED
    BY <2>1, EntryKinds
    DEF Init, PhaseInv, PhaseOK, StepperOK, ArmedOrStepped, Debugged, Found, Addrs
<1>2. PhaseInv /\ [Next]_vars => PhaseInv'
  <2> SUFFICES ASSUME PhaseInv, [Next]_vars PROVE PhaseInv'
    OBVIOUS
  <2>1. CASE Next
    BY <2>1, PhaseTarget, PhasePump, PhaseUi DEF Next
  <2>2. CASE UNCHANGED vars
    BY <2>2 DEF PhaseInv, TypeOK, PhaseOK, StepperOK, ArmedOrStepped, SteppingOver, Alive,
                Debugged, Found, vars, target, history, tables
  <2> QED
    BY <2>1, <2>2
<1> QED
  BY <1>1, <1>2, PTL DEF Spec

(* A software breakpoint whose int3 is out of memory always has a thread that *)
(* will put it back: whatever the platform fails to do, whoever ends, and     *)
(* whenever the user removes the breakpoint and sets it again.                *)
THEOREM BreakpointsNeverGoQuiet == Spec => []ArmedOrStepped
<1>1. PhaseInv => ArmedOrStepped
  BY DEF PhaseInv
<1> QED
  BY <1>1, PhaseInvariant, PTL

--------------------------------------------------------------------------------
(* The debug registers, when every thread's context can be written.           *)

NoRegisters == [s \in Slots |-> None]

(* Entries have a register of their own or none; hardware has been used if    *)
(* there is one.                                                              *)
SlotsOK ==
    /\ \A a, b \in Addrs :
          breakpoints[a].slot # None /\ breakpoints[a].slot = breakpoints[b].slot => a = b
    /\ \A a \in Addrs : breakpoints[a].kind = "hardware" => hardwareUsed

(* A thread that is being created may not have been programmed yet; one that  *)
(* is gone has no registers; and a pump that lets go has none to program.     *)
RegistersOK ==
    Alive =>
      /\ Debugged => \A t \in Threads :
            /\ mode[t] \notin {"gone", "new", "exit"} => regs[t] = Image(breakpoints)
            /\ mode[t] = "new" => regs[t] \in {NoRegisters, Image(breakpoints)}
      /\ \A t \in Threads : mode[t] \in {"gone", "exit"} => regs[t] = NoRegisters
      /\ pump \in {"drain", "release"} => \A a \in Addrs : ~Found(a)
      /\ ~Debugged => \A t \in Threads : regs[t] = NoRegisters

RegisterInv == PhaseInv /\ SlotsOK /\ RegistersOK

(* The image of a table: a register watches the address whose entry has it.   *)
LEMMA ImageOfSlot ==
    ASSUME NEW table, NEW s \in Slots, NEW a \in Addrs, table[a].slot = s,
           \A b \in Addrs : table[b].slot = s => b = a
    PROVE  Image(table)[s] = a
BY DEF Image

LEMMA ImageOfNone ==
    ASSUME NEW table, \A a \in Addrs : table[a].slot = None
    PROVE  Image(table) = NoRegisters
BY DebugPumpAssumption DEF Image, NoRegisters

(* Tables whose entries have the same registers have the same image.          *)
LEMMA ImageOfSame ==
    ASSUME NEW old, NEW new, \A a \in Addrs : new[a].slot = old[a].slot,
           \A a, b \in Addrs : old[a].slot # None /\ old[a].slot = old[b].slot => a = b
    PROVE  Image(new) = Image(old)
<1>1. ASSUME NEW s \in Slots PROVE Image(new)[s] = Image(old)[s]
  <2>1. CASE \E a \in Addrs : old[a].slot = s
    <3>1. PICK a \in Addrs : old[a].slot = s
      BY <2>1
    <3>2. s # None
      BY DebugPumpAssumption
    <3>3. \A b \in Addrs : (old[b].slot = s => b = a) /\ (new[b].slot = s => b = a)
      BY <3>1, <3>2
    <3>4. new[a].slot = s
      BY <3>1
    <3>5. Image(old)[s] = a
      BY <3>1, <3>3, ImageOfSlot
    <3>6. Image(new)[s] = a
      BY <3>3, <3>4, ImageOfSlot
    <3> QED
      BY <3>5, <3>6
  <2>2. CASE ~\E a \in Addrs : old[a].slot = s
    BY <2>2 DEF Image
  <2> QED
    BY <2>1, <2>2
<1>2. Image(new) = [s \in Slots |-> Image(new)[s]] /\ Image(old) = [s \in Slots |-> Image(old)[s]]
  BY DEF Image
<1> QED
  BY <1>1, <1>2

(* A step that leaves the registers and who has them alone, and moves threads *)
(* only from one mode of a running thread to another.                         *)
Running(t) == mode[t] \notin {"gone", "new", "exit"}

LEMMA RegistersKept ==
    ASSUME RegisterInv, PhaseInv', Alive' => Alive, pump' = pump, regs' = regs,
           \A a \in Addrs : /\ breakpoints'[a].slot = breakpoints[a].slot
                            /\ breakpoints'[a].kind = "hardware" => breakpoints[a].kind = "hardware"
                            /\ Found(a)' => Found(a) \/ pump = "loop" \/ ~Alive,
           hardwareUsed => hardwareUsed',
           Alive' => \A t \in Threads : \/ mode'[t] = mode[t]
                                        \/ Running(t)' /\ Running(t)
    PROVE  RegisterInv'
<1>1. SlotsOK'
  BY DEF RegisterInv, SlotsOK
<1>2. Image(breakpoints') = Image(breakpoints)
  BY ImageOfSame DEF RegisterInv, SlotsOK
<1>3. RegistersOK'
  BY <1>2 DEF RegisterInv, RegistersOK, Running, Debugged
<1> QED
  BY <1>1, <1>3 DEF RegisterInv

LEMMA RegisterTarget == RegisterInv /\ TargetStep => RegisterInv'
<1> SUFFICES ASSUME RegisterInv, TargetStep PROVE RegisterInv'
  OBVIOUS
<1>0. PhaseInv'
  BY PhaseTarget DEF RegisterInv
<1> USE <1>0 DEF target, history, tables, TargetRest, Alive, Found
<1>1. ASSUME NEW t \in Threads, NEW a \in Addrs, ExecuteInt3(t, a) PROVE RegisterInv'
  BY <1>1, RegistersKept DEF ExecuteInt3, Raise, MoveThread, RegisterInv, PhaseInv, TypeOK, Running
<1>2. ASSUME NEW t \in Threads, ExecuteStepped(t) PROVE RegisterInv'
  BY <1>2, RegistersKept DEF ExecuteStepped, Raise, MoveThread, RegisterInv, PhaseInv, TypeOK, Running
<1>3. ASSUME NEW t \in Threads, NEW s \in Slots, WatchFires(t, s) PROVE RegisterInv'
  BY <1>3, RegistersKept DEF WatchFires, Raise, MoveThread, RegisterInv, PhaseInv, TypeOK, Running
<1>4. ASSUME NEW t \in Threads, StartThread(t) PROVE RegisterInv'
  BY <1>4 DEF StartThread, MoveThread, RegisterInv, PhaseInv, TypeOK, SlotsOK, RegistersOK, Debugged
<1>5. ASSUME NEW t \in Threads, EndThread(t) PROVE RegisterInv'
  <2>1. /\ mode' = [mode EXCEPT ![t] = mode'[t]] /\ mode'[t] \in {"gone", "exit"}
        /\ regs' = [regs EXCEPT ![t] = NoRegisters]
    BY <1>5 DEF EndThread, MoveThread, RegisterInv, PhaseInv, TypeOK, NoRegisters
  <2> QED
    BY <1>5, <2>1 DEF EndThread, RegisterInv, PhaseInv, TypeOK, SlotsOK, RegistersOK, Debugged
<1>6. CASE ExitProcess
  BY <1>6 DEF ExitProcess, RegisterInv, SlotsOK, RegistersOK
<1>7. CASE Relaunch
  BY <1>7 DEF Relaunch, RegisterInv, SlotsOK, RegistersOK, Debugged, NoRegisters
<1> QED
  BY <1>1, <1>2, <1>3, <1>4, <1>5, <1>6, <1>7 DEF TargetStep

(* With every call succeeding a re-arm drops no entry.                        *)
LEMMA RearmKeeps ==
    ASSUME Faults = {}, NEW a, Rearm(a)
    PROVE  /\ breakpoints' = breakpoints
           /\ mem' = IF Found(a) THEN [mem EXCEPT ![a] = "int3"] ELSE mem
BY DEF Rearm, Outcomes

(* And a hit is always a rewind onto the original instruction.                *)
LEMMA HitRewinds ==
    ASSUME Faults = {}, NEW t, HandleHit(t)
    PROVE  /\ mem' = [mem EXCEPT ![at[t]] = breakpoints[at[t]].originalByte]
           /\ MoveThread(t, "tf", at[t]) /\ stepping' = [stepping EXCEPT ![t] = at[t]]
           /\ UNCHANGED <<breakpoints, disarmed>>
BY DEF HandleHit, Outcomes, RestoreOriginal

LEMMA RegisterThreadEvent ==
    ASSUME Faults = {}, RegisterInv, NEW t \in Threads, HandleThreadEvent(t)
    PROVE  RegisterInv'
<1>0. PhaseInv'
  BY PhaseThreadEvent DEF RegisterInv
<1>a. UNCHANGED <<pump, hardwareUsed, fate, breakpoints>>
  <2>1. CASE HandleHit(t)
    BY <2>1, HitRewinds DEF HandleHit, HandlerRest
  <2>2. ASSUME AbsorbStaleTrap(t) \/ PassTrap(t) \/ HandleThreadCreate(t)
        PROVE  UNCHANGED <<pump, hardwareUsed, fate, breakpoints>>
    BY <2>2 DEF AbsorbStaleTrap, PassTrap, HandleThreadCreate, HandlerRest, tables
  <2>3. ASSUME HandleSingleStep(t) \/ HandleThreadExit(t)
        PROVE  UNCHANGED <<pump, hardwareUsed, fate, breakpoints>>
    BY <2>3, RearmKeeps DEF HandleSingleStep, HandleThreadExit, HandlerRest
  <2> QED
    BY <2>1, <2>2, <2>3 DEF HandleThreadEvent
<1>b. \A u \in Threads \ {t} : UNCHANGED mode[u]
  BY DEF HandleThreadEvent, HandleHit, AbsorbStaleTrap, PassTrap, HandleSingleStep,
         HandleThreadExit, HandleThreadCreate, Deliver, MoveThread, RegisterInv, PhaseInv, TypeOK
<1> USE <1>0 DEF HandlerRest, Deliver, tables, Alive, Found
<1>1. ASSUME HandleHit(t) \/ AbsorbStaleTrap(t) \/ PassTrap(t) \/ HandleSingleStep(t)
      PROVE  RegisterInv'
  <2>1. Running(t)' /\ Running(t) /\ regs' = regs
    BY <1>1 DEF HandleHit, AbsorbStaleTrap, PassTrap, HandleSingleStep, MoveThread, Running,
                RegisterInv, PhaseInv, TypeOK
  <2> QED
    BY <1>a, <1>b, <2>1, RegistersKept
<1>2. CASE HandleThreadExit(t)
  <2>1. mode[t] = "exit" /\ mode'[t] = "gone" /\ regs' = regs
    BY <1>2 DEF HandleThreadExit, MoveThread, RegisterInv, PhaseInv, TypeOK
  <2> QED
    BY <1>a, <1>b, <2>1 DEF RegisterInv, SlotsOK, RegistersOK, Debugged
<1>3. CASE HandleThreadCreate(t)
  <2>1. mode[t] = "new" /\ mode'[t] = "run" /\ fate = "alive" /\ Debugged
    BY <1>3 DEF HandleThreadCreate, MoveThread, RegisterInv, PhaseInv, TypeOK, Pumping, Debugged
  <2>2. regs'[t] = Image(breakpoints) /\ \A u \in Threads \ {t} : regs'[u] = regs[u]
    <3>1. CASE pump = "loop" /\ HardwareArmed # {}
      BY <1>3, <3>1 DEF HandleThreadCreate, Outcomes, RegisterInv, PhaseInv, TypeOK
    <3>2. CASE ~(pump = "loop" /\ HardwareArmed # {})
      <4>1. regs' = regs /\ Pumping
        BY <1>3, <3>2 DEF HandleThreadCreate
      <4>2. \A a \in Addrs : breakpoints[a].kind # "hardware"
        BY <2>1, <3>2, <4>1, EntryKinds DEF HardwareArmed, Pumping, RegisterInv, RegistersOK
      <4>3. \A a \in Addrs : breakpoints[a].slot = None
        BY <4>2, EntryKinds DEF RegisterInv, PhaseInv, TypeOK
      <4>4. Image(breakpoints) = NoRegisters
        BY <4>3, ImageOfNone
      <4> QED
        BY <2>1, <4>1, <4>4 DEF RegisterInv, RegistersOK
    <3> QED
      BY <3>1, <3>2
  <2> QED
    BY <1>a, <1>b, <2>1, <2>2 DEF RegisterInv, SlotsOK, RegistersOK, Debugged
<1> QED
  BY <1>1, <1>2, <1>3 DEF HandleThreadEvent

(* Once the table is empty every thread's registers are.                      *)
LEMMA RegistersEmpty ==
    ASSUME RegisterInv, Alive, \A a \in Addrs : breakpoints[a].kind # "hardware"
    PROVE  \A t \in Threads : regs[t] = NoRegisters
<1>1. \A a \in Addrs : breakpoints[a].slot = None
  BY EntryKinds DEF RegisterInv, PhaseInv, TypeOK
<1>2. Image(breakpoints) = NoRegisters
  BY <1>1, ImageOfNone
<1> QED
  BY <1>2 DEF RegisterInv, RegistersOK

(* An application reaches every thread that runs or is about to.              *)
LEMMA ApplyReachesAll ==
    ASSUME Faults = {}, NEW table, ApplyToAllThreads(table)
    PROVE  /\ regs' = [t \in Threads |-> IF mode[t] \notin {"gone", "exit"} THEN Image(table) ELSE regs[t]]
           /\ dr6' = [t \in Threads |-> IF mode[t] \notin {"gone", "exit"} THEN {} ELSE dr6[t]]
BY DEF ApplyToAllThreads

LEMMA RegisterPump == Faults = {} /\ RegisterInv /\ PumpStep => RegisterInv'
<1> SUFFICES ASSUME Faults = {}, RegisterInv, PumpStep PROVE RegisterInv'
  OBVIOUS
<1>0. PhaseInv'
  BY PhasePump DEF RegisterInv
<1> USE <1>0 DEF target, history, tables, Alive, Debugged, Found
<1>1. CASE \E t \in Threads : HandleThreadEvent(t)
  BY <1>1, RegisterThreadEvent
<1>2. CASE InitialBreakpoint
  BY <1>2, RegistersKept DEF InitialBreakpoint
<1>3. CASE HandleProcessExit
  <2>1. SlotsOK'
    BY <1>3, EntryKinds DEF HandleProcessExit, RegisterInv, SlotsOK
  <2> QED
    BY <1>3, <2>1 DEF HandleProcessExit, RegisterInv, RegistersOK
<1>4. CASE DisarmAll
  <2>1. \A a \in Addrs : breakpoints'[a] = NoEntry
    BY <1>4 DEF DisarmAll
  <2>2. SlotsOK'
    BY <2>1, EntryKinds DEF SlotsOK
  <2>3. RegistersOK'
    <3> SUFFICES ASSUME Alive' PROVE RegistersOK'
      BY DEF RegistersOK
    <3>1. Alive /\ pump' = "drain" /\ mode' = mode
      BY <1>4 DEF DisarmAll, RegisterInv, PhaseInv, PhaseOK
    <3>2. Image(breakpoints') = NoRegisters
      BY <2>1, EntryKinds, ImageOfNone
    <3>3. \A t \in Threads : regs'[t] = NoRegisters
      <4>1. CASE HardwareArmed = {}
        <5>1. regs' = regs /\ \A a \in Addrs : breakpoints[a].kind # "hardware"
          BY <1>4, <4>1 DEF DisarmAll, HardwareArmed
        <5> QED
          BY <3>1, <5>1, RegistersEmpty
      <4>2. CASE HardwareArmed # {}
        <5>1. ApplyToAllThreads(breakpoints')
          BY <1>4, <4>2 DEF DisarmAll
        <5> QED
          BY <3>1, <3>2, <5>1, ApplyReachesAll DEF RegisterInv, RegistersOK
      <4> QED
        BY <4>1, <4>2
    <3> QED
      BY <2>1, <3>1, <3>2, <3>3 DEF RegistersOK
  <2> QED
    BY <2>2, <2>3 DEF RegisterInv
<1>5. CASE EndDrain
  BY <1>5 DEF EndDrain, RegisterInv, SlotsOK, RegistersOK
<1>6. CASE Release
  <2>1. SlotsOK'
    BY <1>6 DEF Release, RegisterInv, SlotsOK
  <2>2. Alive' => \A t \in Threads : regs'[t] = NoRegisters
    <3>1. Alive => \A a \in Addrs : breakpoints[a].kind # "hardware"
      BY <1>6, EntryKinds DEF Release, RegisterInv, RegistersOK
    <3> QED
      BY <1>6, <3>1, RegistersEmpty DEF Release
  <2> QED
    BY <1>6, <2>1, <2>2 DEF Release, RegisterInv, RegistersOK
<1> QED
  BY <1>1, <1>2, <1>3, <1>4, <1>5, <1>6 DEF PumpStep

LEMMA RegisterUi == Faults = {} /\ RegisterInv /\ UiStep => RegisterInv'
<1> SUFFICES ASSUME Faults = {}, RegisterInv, UiStep PROVE RegisterInv'
  OBVIOUS
<1>0. PhaseInv'
  BY PhaseUi DEF RegisterInv
<1> USE <1>0 DEF target, history, tables, TableRest, Alive, Debugged, Found
<1>1. ASSUME Attach \/ EndDetach PROVE RegisterInv'
  <2>1. \A a \in Addrs : breakpoints'[a] = NoEntry
    BY <1>1 DEF Attach, EndDetach, ForgetTables
  <2>2. Image(breakpoints') = NoRegisters
    BY <2>1, EntryKinds, ImageOfNone
  <2>3. ~Debugged /\ pump' \in {"off", "loop"} /\ UNCHANGED <<mode, regs, fate>>
    BY <1>1 DEF Attach, EndDetach
  <2> QED
    BY <2>1, <2>2, <2>3, EntryKinds DEF RegisterInv, SlotsOK, RegistersOK
<1>2. CASE BeginDetach
  BY <1>2, RegistersKept DEF BeginDetach
<1>3. ASSUME NEW a \in SwAddrs, AddSoftware(a) PROVE RegisterInv'
  <2>1. a \in Addrs /\ pump = "loop"
    BY <1>3 DEF AddSoftware, Addrs, RegisterInv, PhaseInv, PhaseOK, TypeOK
  <2>2. breakpoints[a] = NoEntry /\ breakpoints'[a] = Software(mem[a])
    BY <1>3, <2>1 DEF AddSoftware, RegisterInv, PhaseInv, TypeOK
  <2>3. \A b \in Addrs \ {a} : breakpoints'[b] = breakpoints[b]
    BY <1>3, <2>1 DEF AddSoftware, RegisterInv, PhaseInv, TypeOK
  <2>4. UNCHANGED <<mode, regs, fate, pump, hardwareUsed>>
    BY <1>3 DEF AddSoftware
  <2> QED
    BY <2>1, <2>2, <2>3, <2>4, EntryKinds, RegistersKept
<1>4. ASSUME NEW a \in HwAddrs, AddHardware(a) PROVE RegisterInv'
  <2>1. a \in Addrs /\ (Alive => pump = "loop")
    BY <1>4 DEF AddHardware, Addrs, RegisterInv, PhaseInv, PhaseOK, TypeOK
  <2>2. PICK s \in Slots : FreeDebugSlot(s) /\ breakpoints' = [breakpoints EXCEPT ![a] = Hardware(s)]
    BY <1>4 DEF AddHardware
  <2>3. /\ breakpoints'[a].slot = s /\ s # None
        /\ \A b \in Addrs \ {a} : breakpoints'[b] = breakpoints[b] /\ breakpoints[b].slot # s
    BY <2>1, <2>2, EntryKinds, DebugPumpAssumption DEF FreeDebugSlot, RegisterInv, PhaseInv, TypeOK
  <2>4. SlotsOK'
    BY <1>4, <2>1, <2>3 DEF AddHardware, RegisterInv, SlotsOK
  <2>5. /\ regs' = [t \in Threads |-> IF mode[t] \notin {"gone", "exit"} THEN Image(breakpoints') ELSE regs[t]]
        /\ UNCHANGED <<mode, fate, pump>>
    BY <1>4, ApplyReachesAll DEF AddHardware
  <2> QED
    BY <1>4, <2>1, <2>4, <2>5 DEF AddHardware, RegisterInv, RegistersOK
<1>5. ASSUME NEW a \in Addrs, RemoveBreakpoint(a) PROVE RegisterInv'
  <2>1. breakpoints'[a] = NoEntry /\ \A b \in Addrs \ {a} : breakpoints'[b] = breakpoints[b]
    BY <1>5 DEF RemoveBreakpoint, EraseEntry, RegisterInv, PhaseInv, TypeOK
  <2>2. UNCHANGED <<mode, fate, pump, hardwareUsed>>
    BY <1>5 DEF RemoveBreakpoint
  <2>3. CASE breakpoints[a].kind = "hardware"
    <3>1. /\ regs' = [t \in Threads |-> IF mode[t] \notin {"gone", "exit"} THEN Image(breakpoints') ELSE regs[t]]
          /\ breakpoints[a] # NoEntry
      BY <1>5, <2>3, ApplyReachesAll, EntryKinds DEF RemoveBreakpoint
    <3>2. SlotsOK'
      BY <2>1, <2>2, EntryKinds DEF RegisterInv, SlotsOK
    <3> QED
      BY <1>5, <2>1, <2>2, <3>1, <3>2 DEF RemoveBreakpoint, RegisterInv, RegistersOK
  <2>4. CASE breakpoints[a].kind # "hardware"
    <3>1. regs' = regs
      BY <1>5, <2>4 DEF RemoveBreakpoint
    <3>2. breakpoints[a].slot = None
      BY <2>4, EntryKinds DEF RegisterInv, PhaseInv, TypeOK
    <3> QED
      BY <2>1, <2>2, <3>1, <3>2, EntryKinds, RegistersKept
  <2> QED
    BY <2>3, <2>4
<1> QED
  BY <1>1, <1>2, <1>3, <1>4, <1>5 DEF UiStep

LEMMA RegisterInvariant == ASSUME Faults = {} PROVE Spec => []RegisterInv
<1>1. Init => RegisterInv
  <2> SUFFICES ASSUME Init PROVE RegisterInv
    OBVIOUS
  <2>1. PhaseInv
    BY InitTyped, EntryKinds
    DEF Init, PhaseInv, PhaseOK, StepperOK, ArmedOrStepped, Debugged, Found, Addrs
  <2> QED
    BY <2>1, EntryKinds DEF Init, RegisterInv, SlotsOK, RegistersOK, NoRegisters, Debugged
<1>2. RegisterInv /\ [Next]_vars => RegisterInv'
  <2> SUFFICES ASSUME RegisterInv, [Next]_vars PROVE RegisterInv'
    OBVIOUS
  <2>1. CASE Next
    BY <2>1, RegisterTarget, RegisterPump, RegisterUi DEF Next
  <2>2. CASE UNCHANGED vars
    <3>1. PhaseInv'
      BY <2>2 DEF RegisterInv, PhaseInv, TypeOK, PhaseOK, StepperOK, ArmedOrStepped, SteppingOver,
                  Alive, Debugged, Found, vars, target, history, tables
    <3> QED
      BY <2>2, <3>1 DEF RegisterInv, SlotsOK, RegistersOK, Alive, Debugged, Found,
                        vars, target, history, tables
  <2> QED
    BY <2>1, <2>2
<1> QED
  BY <1>1, <1>2, PTL DEF Spec

(* With every platform call succeeding each thread that can run carries       *)
(* exactly the table's debug registers, for any number of registers, threads  *)
(* and breakpoints: no slot is given twice, and none is left on a thread that *)
(* was created while breakpoints came and went.                               *)
THEOREM RegistersAlwaysMatch ==
    ASSUME Faults = {} PROVE Spec => []RegistersMatchTable
<1>1. RegisterInv => RegistersMatchTable
  BY DEF RegisterInv, RegistersOK, RegistersMatchTable, Alive
<1> QED
  BY <1>1, RegisterInvariant, PTL

--------------------------------------------------------------------------------
(* Single steps, when besides the drain is given the time it needs.           *)

(* A step owed or in flight has somebody to claim it, and a pump that is      *)
(* about to let go owes none.                                                 *)
StepsOK ==
    Alive =>
      \A t \in Threads :
        /\ mode[t] = "tf" => Debugged /\ stepping[t] # None
        /\ mode[t] = "step" => Debugged /\ (stepping[t] # None \/ hardwareUsed)
        /\ pump = "release" => mode[t] \notin {"tf", "step"}

(* What DR6 reports is a step in flight, of the address it was raised at.     *)
StatusOK ==
    Alive =>
      \A t \in Threads :
        /\ dr6[t] # {} => mode[t] = "step" /\ hardwareUsed
        /\ mode[t] = "step" /\ stepping[t] = None =>
              \A a \in Addrs : breakpoints[a].slot \in dr6[t] => a = at[t]

StepInv == RegisterInv /\ StepsOK /\ StatusOK /\ OwnStepsClaimed

(* A register that is set watches the address of the one entry that has it.   *)
LEMMA RegisterOfEntry ==
    ASSUME RegisterInv, Alive, NEW t \in Threads, Running(t), NEW s \in Slots, regs[t][s] # None
    PROVE  /\ hardwareUsed /\ Debugged
           /\ \A a \in Addrs : breakpoints[a].slot = s => a = regs[t][s]
<1>1. Debugged /\ regs[t] = Image(breakpoints)
  <2>1. Debugged
    BY DEF RegisterInv, RegistersOK, NoRegisters
  <2> QED
    BY <2>1 DEF RegisterInv, RegistersOK, Running
<1>2. PICK a \in Addrs : breakpoints[a].slot = s
  BY <1>1 DEF Image
<1>3. breakpoints[a].kind = "hardware" /\ s # None
  BY <1>2, EntryKinds, DebugPumpAssumption DEF RegisterInv, PhaseInv, TypeOK
<1>4. \A b \in Addrs : breakpoints[b].slot = s => b = a
  BY <1>2, <1>3 DEF RegisterInv, SlotsOK
<1>5. regs[t][s] = a
  BY <1>1, <1>2, <1>4, ImageOfSlot
<1> QED
  BY <1>1, <1>3, <1>4, <1>5 DEF RegisterInv, SlotsOK

(* A step that leaves the table's registers and every thread's status alone,  *)
(* and brings no thread under a step.                                         *)
LEMMA StepsKept ==
    ASSUME StepInv, RegisterInv', OwnStepsClaimed', Alive' => Alive, pump' = pump \/ pump' = "drain",
           Debugged => Debugged', hardwareUsed => hardwareUsed',
           \A a \in Addrs : breakpoints'[a].slot \in {None, breakpoints[a].slot},
           Alive' => \A t \in Threads :
              /\ dr6'[t] = {} \/ dr6'[t] = dr6[t]
              /\ \/ UNCHANGED <<mode[t], at[t], stepping[t]>>
                 \/ mode'[t] \notin {"tf", "step"} /\ dr6'[t] = {}
                 \/ mode'[t] = "tf" /\ stepping'[t] # None /\ dr6'[t] = {} /\ Debugged /\ pump # "release"
    PROVE  StepInv'
<1>1. StepsOK'
  BY DEF StepInv, StepsOK
<1>2. StatusOK'
  <2>1. \A t \in Threads : None \notin dr6[t]
    BY DebugPumpAssumption DEF StepInv, RegisterInv, PhaseInv, TypeOK
  <2> QED
    BY <2>1 DEF StepInv, StatusOK
<1> QED
  BY <1>1, <1>2 DEF StepInv

LEMMA StepTarget == StepInv /\ TargetStep => StepInv'
<1> SUFFICES ASSUME StepInv, TargetStep PROVE StepInv'
  OBVIOUS
<1>0. RegisterInv'
  BY RegisterTarget DEF StepInv
<1>a. /\ mode \in [Threads -> Modes] /\ at \in [Threads -> Addrs \cup {None}]
      /\ dr6 \in [Threads -> SUBSET Slots] /\ regs \in [Threads -> [Slots -> Addrs \cup {None}]]
  BY DEF StepInv, RegisterInv, PhaseInv, TypeOK
<1> USE <1>0, <1>a DEF target, history, tables, TargetRest, Alive, Debugged, OwnStepsClaimed
<1>1. ASSUME NEW t \in Threads, NEW a \in Addrs, ExecuteInt3(t, a) PROVE StepInv'
  <2>1. dr6[t] = {}
    BY <1>1 DEF ExecuteInt3, StepInv, StatusOK
  <2> QED
    BY <1>1, <2>1, StepsKept DEF ExecuteInt3, Raise, MoveThread, StepInv
<1>2. ASSUME NEW t \in Threads, ExecuteStepped(t) PROVE StepInv'
  <2>1. dr6[t] = {} /\ stepping[t] # None /\ Debugged /\ Running(t) /\ pump # "release"
    BY <1>2 DEF ExecuteStepped, StepInv, StatusOK, StepsOK, Running
  <2>2. CASE mem[at[t]] = "int3"
    BY <1>2, <2>1, <2>2, StepsKept DEF ExecuteStepped, Raise, MoveThread, StepInv
  <2>3. CASE mem[at[t]] # "int3"
    <3>1. /\ mode' = [mode EXCEPT ![t] = "step"]
          /\ UNCHANGED <<fate, pump, stepping, hardwareUsed, breakpoints, misdelivered>>
          /\ \A u \in Threads \ {t} : dr6'[u] = dr6[u] /\ at'[u] = at[u]
      BY <1>2, <2>1, <2>3 DEF ExecuteStepped, Raise, MoveThread
    <3>2. dr6'[t] # {} => hardwareUsed
      <4>1. dr6'[t] # {} => \E s \in Slots : regs[t][s] # None
        BY <1>2, <2>1, <2>3 DEF ExecuteStepped
      <4> QED
        BY <1>2, <2>1, <4>1, RegisterOfEntry DEF ExecuteStepped, StepInv
    <3>3. StepsOK'
      BY <2>1, <3>1 DEF StepInv, StepsOK
    <3>4. StatusOK'
      BY <2>1, <3>1, <3>2 DEF StepInv, StatusOK
    <3> QED
      BY <3>1, <3>3, <3>4 DEF StepInv
  <2> QED
    BY <2>2, <2>3
<1>3. ASSUME NEW t \in Threads, NEW s \in Slots, WatchFires(t, s) PROVE StepInv'
  <2>1. dr6[t] = {} /\ stepping[t] = None /\ Running(t) /\ Alive
    BY <1>3 DEF WatchFires, StepInv, StatusOK, RegisterInv, PhaseInv, StepperOK, Running
  <2>2. hardwareUsed /\ Debugged /\ \A a \in Addrs : breakpoints[a].slot = s => a = regs[t][s]
    BY <1>3, <2>1, RegisterOfEntry DEF WatchFires, StepInv
  <2>3. pump # "release"
    <3>1. regs[t] = Image(breakpoints) /\ regs[t][s] # None
      BY <1>3, <2>1, <2>2 DEF WatchFires, StepInv, RegisterInv, RegistersOK, Running
    <3>2. pump = "release" => \A a \in Addrs : breakpoints[a].slot = None
      BY <2>1, EntryKinds DEF StepInv, RegisterInv, RegistersOK, Found
    <3> QED
      BY <3>1, <3>2, ImageOfNone DEF NoRegisters
  <2>4. /\ mode' = [mode EXCEPT ![t] = "step"] /\ at' = [at EXCEPT ![t] = regs[t][s]]
        /\ dr6' = [dr6 EXCEPT ![t] = {s}]
        /\ UNCHANGED <<fate, pump, stepping, hardwareUsed, breakpoints, misdelivered>>
    BY <1>3, <2>1, <2>2 DEF WatchFires, Raise, MoveThread
  <2>5. StepsOK'
    BY <2>2, <2>3, <2>4 DEF StepInv, StepsOK
  <2>6. StatusOK'
    BY <2>2, <2>4 DEF StepInv, StatusOK
  <2> QED
    BY <2>4, <2>5, <2>6 DEF StepInv
<1>4. ASSUME NEW t \in Threads, StartThread(t) PROVE StepInv'
  <2>1. dr6[t] = {}
    BY <1>4 DEF StartThread, StepInv, StatusOK
  <2> QED
    BY <1>4, <2>1, StepsKept DEF StartThread, MoveThread, StepInv
<1>5. ASSUME NEW t \in Threads, EndThread(t) PROVE StepInv'
  BY <1>5, StepsKept DEF EndThread, MoveThread, StepInv
<1>6. CASE ExitProcess
  BY <1>6 DEF ExitProcess, StepInv, StepsOK, StatusOK
<1>7. CASE Relaunch
  BY <1>7 DEF Relaunch, StepInv, StepsOK, StatusOK
<1> QED
  BY <1>1, <1>2, <1>3, <1>4, <1>5, <1>6, <1>7 DEF TargetStep

LEMMA StepThreadEvent ==
    ASSUME Faults = {}, StepInv, NEW t \in Threads, HandleThreadEvent(t)
    PROVE  StepInv'
<1>0. RegisterInv'
  BY RegisterThreadEvent DEF StepInv
<1>a. /\ mode \in [Threads -> Modes] /\ at \in [Threads -> Addrs \cup {None}]
      /\ dr6 \in [Threads -> SUBSET Slots] /\ stepping \in [Threads -> Addrs \cup {None}]
      /\ \A u \in Threads : mode[u] \in {"trap", "tf", "step"} => at[u] \in Addrs
  BY DEF StepInv, RegisterInv, PhaseInv, TypeOK
<1>b. None \notin Addrs
  BY DebugPumpAssumption
<1>c. pump # "release"
  BY DEF HandleThreadEvent, HandleHit, AbsorbStaleTrap, PassTrap, HandleSingleStep,
         HandleThreadExit, HandleThreadCreate, Deliver, Pumping
<1> USE <1>0, <1>a, <1>b, <1>c DEF HandlerRest, Deliver, tables, Alive, Debugged, OwnStepsClaimed
<1>1. CASE HandleHit(t)
  <2>1. dr6[t] = {} /\ Debugged
    BY <1>1 DEF HandleHit, StepInv, StatusOK, Pumping
  <2> QED
    BY <1>1, <2>1, HitRewinds, StepsKept DEF HandleHit, MoveThread, StepInv
<1>2. CASE AbsorbStaleTrap(t)
  <2>1. dr6[t] = {} /\ Debugged
    BY <1>2 DEF AbsorbStaleTrap, StepInv, StatusOK, Pumping
  <2> QED
    BY <1>2, <2>1, StepsKept DEF AbsorbStaleTrap, MoveThread, StepInv
<1>3. CASE PassTrap(t)
  <2>1. dr6[t] = {}
    BY <1>3 DEF PassTrap, StepInv, StatusOK
  <2> QED
    BY <1>3, <2>1, StepsKept DEF PassTrap, MoveThread, StepInv
<1>4. CASE HandleSingleStep(t)
  <2>1. Claimed(t) /\ misdelivered' = misdelivered
    BY <1>4 DEF HandleSingleStep, StepInv, StepsOK, Claimed
  <2>2. dr6' = [dr6 EXCEPT ![t] = {}]
    BY <1>4 DEF HandleSingleStep, HardwareHit, Outcomes, StepInv, StatusOK
  <2>3. breakpoints' = breakpoints
    BY <1>4, RearmKeeps DEF HandleSingleStep
  <2> QED
    BY <1>4, <2>1, <2>2, <2>3, StepsKept DEF HandleSingleStep, MoveThread, StepInv
<1>5. CASE HandleThreadExit(t)
  <2>1. dr6[t] = {}
    BY <1>5 DEF HandleThreadExit, StepInv, StatusOK
  <2>2. breakpoints' = breakpoints
    BY <1>5, RearmKeeps DEF HandleThreadExit
  <2> QED
    BY <1>5, <2>1, <2>2, StepsKept DEF HandleThreadExit, MoveThread, StepInv
<1>6. CASE HandleThreadCreate(t)
  <2>1. dr6[t] = {}
    BY <1>6 DEF HandleThreadCreate, StepInv, StatusOK
  <2>2. dr6' = dr6
    BY <1>6, <2>1 DEF HandleThreadCreate
  <2> QED
    BY <1>6, <2>1, <2>2, StepsKept DEF HandleThreadCreate, MoveThread, StepInv
<1> QED
  BY <1>1, <1>2, <1>3, <1>4, <1>5, <1>6 DEF HandleThreadEvent

LEMMA StepPump == Faults = {} /\ ~DrainExpires /\ StepInv /\ PumpStep => StepInv'
<1> SUFFICES ASSUME Faults = {}, ~DrainExpires, StepInv, PumpStep PROVE StepInv'
  OBVIOUS
<1>0. RegisterInv'
  BY RegisterPump DEF StepInv
<1> USE <1>0 DEF target, history, tables, Alive, Debugged, OwnStepsClaimed
<1>1. CASE \E t \in Threads : HandleThreadEvent(t)
  BY <1>1, StepThreadEvent
<1>2. CASE InitialBreakpoint
  BY <1>2, StepsKept DEF InitialBreakpoint, StepInv
<1>3. CASE HandleProcessExit
  BY <1>3 DEF HandleProcessExit, StepInv, StepsOK, StatusOK
<1>4. CASE DisarmAll
  <2>1. \A t \in Threads : dr6'[t] \in {{}, dr6[t]}
    BY <1>4, ApplyReachesAll DEF DisarmAll
  <2>2. \A a \in Addrs : breakpoints'[a].slot = None
    BY <1>4, EntryKinds DEF DisarmAll
  <2>3. (Alive' => Alive /\ pump' = "drain") /\ UNCHANGED <<mode, at, stepping, hardwareUsed, misdelivered>>
    BY <1>4 DEF DisarmAll, StepInv, RegisterInv, PhaseInv, PhaseOK
  <2>4. \A t \in Threads : None \notin dr6'[t]
    BY <2>1, DebugPumpAssumption DEF StepInv, RegisterInv, PhaseInv, TypeOK
  <2>5. StepsOK'
    BY <1>4, <2>3 DEF DisarmAll, StepInv, StepsOK
  <2>6. StatusOK'
    BY <2>1, <2>2, <2>3, <2>4 DEF StepInv, StatusOK
  <2> QED
    BY <2>3, <2>5, <2>6 DEF StepInv
<1>5. CASE EndDrain
  BY <1>5 DEF EndDrain, DrainQuiet, InFlight, StepInv, StepsOK, StatusOK
<1>6. CASE Release
  <2>1. Alive' => Alive
    BY <1>6 DEF Release
  <2>2. Alive => \A t \in Threads : mode'[t] \notin {"tf", "step"} /\ dr6'[t] = {}
    BY <1>6 DEF Release, StepInv, StepsOK, StatusOK
  <2> QED
    BY <1>6, <2>1, <2>2 DEF Release, StepInv, StepsOK, StatusOK
<1> QED
  BY <1>1, <1>2, <1>3, <1>4, <1>5, <1>6 DEF PumpStep

LEMMA StepUi == Faults = {} /\ StepInv /\ UiStep => StepInv'
<1> SUFFICES ASSUME Faults = {}, StepInv, UiStep PROVE StepInv'
  OBVIOUS
<1>0. RegisterInv'
  BY RegisterUi DEF StepInv
<1> USE <1>0 DEF target, history, tables, TableRest, Alive, Debugged, OwnStepsClaimed
<1>1. ASSUME Attach \/ EndDetach PROVE StepInv'
  <2>1. ~Debugged /\ UNCHANGED <<mode, at, dr6, fate, misdelivered>> /\ pump' # "release"
    BY <1>1 DEF Attach, EndDetach
  <2> QED
    BY <2>1 DEF StepInv, StepsOK, StatusOK
<1>2. CASE BeginDetach
  BY <1>2, StepsKept DEF BeginDetach, StepInv
<1>3. ASSUME NEW a \in SwAddrs, AddSoftware(a) PROVE StepInv'
  <2>1. \A b \in Addrs : breakpoints'[b].slot \in {None, breakpoints[b].slot}
    BY <1>3, EntryKinds DEF AddSoftware, Addrs, StepInv, RegisterInv, PhaseInv, TypeOK
  <2> QED
    BY <1>3, <2>1, StepsKept DEF AddSoftware, StepInv
<1>4. ASSUME NEW a \in Addrs, breakpoints[a].kind = "hardware" \/ breakpoints'[a].kind = "hardware",
             ApplyToAllThreads(breakpoints'), hardwareUsed => hardwareUsed',
             UNCHANGED <<mode, at, stepping, fate, pump, misdelivered>>
      PROVE  StepInv'
  <2>1. Alive => \A t \in Threads : dr6'[t] = {}
    BY <1>4, ApplyReachesAll DEF StepInv, StatusOK
  <2> QED
    BY <1>4, <2>1 DEF StepInv, StepsOK, StatusOK
<1>5. ASSUME NEW a \in HwAddrs, AddHardware(a) PROVE StepInv'
  <2>1. a \in Addrs /\ breakpoints'[a].kind = "hardware"
    BY <1>5, EntryKinds DEF AddHardware, Addrs, StepInv, RegisterInv, PhaseInv, TypeOK
  <2> QED
    BY <1>4, <1>5, <2>1 DEF AddHardware
<1>6. ASSUME NEW a \in Addrs, RemoveBreakpoint(a) PROVE StepInv'
  <2>1. CASE breakpoints[a].kind = "hardware"
    BY <1>4, <1>6, <2>1 DEF RemoveBreakpoint
  <2>2. CASE breakpoints[a].kind # "hardware"
    <3>1. \A b \in Addrs : breakpoints'[b].slot \in {None, breakpoints[b].slot}
      BY <1>6, EntryKinds DEF RemoveBreakpoint, EraseEntry, StepInv, RegisterInv, PhaseInv, TypeOK
    <3> QED
      BY <1>6, <2>2, <3>1, StepsKept DEF RemoveBreakpoint, StepInv
  <2> QED
    BY <2>1, <2>2
<1> QED
  BY <1>1, <1>2, <1>3, <1>5, <1>6 DEF UiStep

(* The three invariants so far hold of the initial state and of a stutter.    *)
LEMMA StepInit == Init => StepInv
<1> SUFFICES ASSUME Init PROVE StepInv
  OBVIOUS
<1>1. PhaseInv
  BY InitTyped, EntryKinds
  DEF Init, PhaseInv, PhaseOK, StepperOK, ArmedOrStepped, Debugged, Found, Addrs
<1>2. RegisterInv
  BY <1>1, EntryKinds DEF Init, RegisterInv, SlotsOK, RegistersOK, NoRegisters, Debugged
<1> QED
  BY <1>2 DEF Init, StepInv, StepsOK, StatusOK, OwnStepsClaimed

LEMMA StepStutter == StepInv /\ UNCHANGED vars => StepInv'
<1> SUFFICES ASSUME StepInv, UNCHANGED vars PROVE StepInv'
  OBVIOUS
<1> USE DEF Alive, Debugged, Found, vars, target, history, tables
<1>1. PhaseInv'
  BY DEF StepInv, RegisterInv, PhaseInv, TypeOK, PhaseOK, StepperOK, ArmedOrStepped, SteppingOver
<1>2. RegisterInv'
  BY <1>1 DEF StepInv, RegisterInv, SlotsOK, RegistersOK
<1> QED
  BY <1>2 DEF StepInv, StepsOK, StatusOK, OwnStepsClaimed

LEMMA StepInvariant == ASSUME Faults = {}, ~DrainExpires PROVE Spec => []StepInv
<1>1. StepInv /\ [Next]_vars => StepInv'
  BY StepTarget, StepPump, StepUi, StepStutter DEF Next
<1> QED
  BY <1>1, StepInit, PTL DEF Spec

(* Every single step the debugger causes is claimed by it, whatever is added, *)
(* removed or detached while the step is in flight, when the platform's calls *)
(* succeed and the drain gets the time it needs.                              *)
THEOREM OwnStepsAlwaysClaimed ==
    ASSUME Faults = {}, ~DrainExpires PROVE Spec => []OwnStepsClaimed
<1>1. StepInv => OwnStepsClaimed
  BY DEF StepInv
<1> QED
  BY <1>1, StepInvariant, PTL

(* And a hit is credited to no breakpoint but the one that was hit, under the *)
(* same assumptions: a register given to another breakpoint while the hit was *)
(* in flight has had its status cleared.                                      *)
THEOREM HitsAlwaysCreditedRight ==
    ASSUME Faults = {}, ~DrainExpires PROVE Spec => HitsCreditedRight
<1>1. ASSUME StepInv, NEW t \in Threads, HandleSingleStep(t), stepping[t] = None
      PROVE  reported' \in {None, at[t]}
  <2>1. Owners(dr6[t]) \subseteq {at[t]}
    BY <1>1 DEF HandleSingleStep, Deliver, StepInv, StatusOK, Alive, Owners
  <2> QED
    BY <1>1, <2>1 DEF HandleSingleStep, HardwareHit
<1>2. StepInv => [\A t \in Threads :
                    HandleSingleStep(t) /\ stepping[t] = None => reported' \in {None, at[t]}]_vars
  BY <1>1
<1> QED
  BY <1>2, StepInvariant, PTL DEF HitsCreditedRight

--------------------------------------------------------------------------------
(* The target's bytes.  Two threads stepping over one int3, a breakpoint set  *)
(* again under a thread that still steps over the old one, or a hardware one  *)
(* set there, can leave an int3 nobody owns; kept apart, nothing does.        *)

KeptApart ==
    /\ \A t, u \in Threads : t # u => Executes[t] \cap Executes[u] = {}
    /\ ~ReaddSteppedOver
    /\ SwAddrs \cap HwAddrs = {}

KindsOK ==
    \A a \in Addrs : /\ breakpoints[a].kind = "software" =>
                           a \in SwAddrs /\ breakpoints[a].originalByte = "code"
                     /\ breakpoints[a].kind = "hardware" => a \in HwAddrs

(* A thread steps over an address of its own code, with its byte back; a trap *)
(* in flight is the pump's to answer before it lets go.                       *)
SteppersOK ==
    Alive =>
      \A t \in Threads :
        /\ stepping[t] # None =>
              /\ mode[t] \in {"tf", "step", "exit"}
              /\ stepping[t] \in Executes[t] \cap SwAddrs
              /\ mem[stepping[t]] = "code"
        /\ mode[t] = "trap" =>
              /\ Debugged /\ at[t] \in Executes[t] \cap (SwAddrs \cup OwnInt3)
              /\ pump = "release" => at[t] \in OwnInt3

BytesOK == Alive /\ pump \in {"drain", "release", "off"} => mem = Program

ByteInv == StepInv /\ KindsOK /\ SteppersOK /\ BytesOK /\ Int3Owned /\ TargetSurvives

LEMMA ProgramBytes ==
    /\ \A a \in SwAddrs : a \in Addrs /\ Program[a] = "code"
    /\ \A a \in Addrs : Program[a] = "int3" <=> a \in OwnInt3
    /\ Program \in [Addrs -> Bytes]
BY DebugPumpAssumption DEF Program, Addrs, Bytes

LEMMA ByteTarget == ByteInv /\ TargetStep => ByteInv'
<1> SUFFICES ASSUME ByteInv, TargetStep PROVE ByteInv'
  OBVIOUS
<1>0. StepInv'
  BY StepTarget DEF ByteInv
<1>a. /\ mode \in [Threads -> Modes] /\ at \in [Threads -> Addrs \cup {None}]
      /\ stepping \in [Threads -> Addrs \cup {None}]
      /\ \A t \in Threads : mode[t] = "tf" => (stepping[t] # None /\ at[t] = stepping[t]) \/ ~Alive
  BY DEF ByteInv, StepInv, StepsOK, RegisterInv, PhaseInv, TypeOK, StepperOK
<1>b. \A t \in Threads : ~Debugged => stepping[t] = None
  BY DEF ByteInv, StepInv, RegisterInv, PhaseInv, PhaseOK
<1> USE <1>0, <1>a DEF target, history, tables, TargetRest, Alive, TargetSurvives
<1>c. ASSUME UNCHANGED <<mem, breakpoints, stepping, pump, fate>>, SteppersOK' PROVE ByteInv'
  BY <1>c DEF ByteInv, KindsOK, BytesOK, Int3Owned
<1>1. ASSUME NEW t \in Threads, NEW a \in Addrs, ExecuteInt3(t, a) PROVE ByteInv'
  <2>1. stepping[t] = None /\ Alive /\ mem[a] = "int3" /\ a \in Executes[t]
    BY <1>1 DEF ExecuteInt3, ByteInv, SteppersOK
  <2>2. a \in SwAddrs \cup OwnInt3
    BY <2>1, ProgramBytes DEF ByteInv, Int3Owned, KindsOK
  <2>3. pump \in {"release", "off"} => a \in OwnInt3
    BY <2>1, ProgramBytes DEF ByteInv, BytesOK
  <2>4. Debugged
    BY <1>1, <2>3 DEF ExecuteInt3, Debugged
  <2>5. UNCHANGED fate /\ MoveThread(t, "trap", a)
    BY <1>1, <2>4 DEF ExecuteInt3, Raise
  <2>6. SteppersOK'
    BY <1>1, <2>1, <2>2, <2>3, <2>4, <2>5 DEF ExecuteInt3, MoveThread, ByteInv, SteppersOK, Debugged
  <2> QED
    BY <1>1, <1>c, <2>5, <2>6 DEF ExecuteInt3
<1>2. ASSUME NEW t \in Threads, ExecuteStepped(t) PROVE ByteInv'
  <2>1. Debugged /\ stepping[t] # None /\ at[t] = stepping[t] /\ Alive
    BY <1>2 DEF ExecuteStepped, ByteInv, StepInv, StepsOK
  <2>2. mem[at[t]] = "code"
    BY <2>1 DEF ByteInv, SteppersOK
  <2>3. UNCHANGED fate /\ MoveThread(t, "step", at[t])
    BY <1>2, <2>1, <2>2 DEF ExecuteStepped, Raise
  <2>4. SteppersOK'
    BY <1>2, <2>3 DEF ExecuteStepped, MoveThread, ByteInv, SteppersOK, Debugged
  <2> QED
    BY <1>2, <1>c, <2>3, <2>4 DEF ExecuteStepped
<1>3. ASSUME NEW t \in Threads, NEW s \in Slots, WatchFires(t, s) PROVE ByteInv'
  <2>1. Debugged
    BY <1>3, RegisterOfEntry DEF WatchFires, Running, ByteInv, StepInv
  <2>2. UNCHANGED fate /\ mode' = [mode EXCEPT ![t] = "step"] /\ \A u \in Threads \ {t} : at'[u] = at[u]
    BY <1>3, <2>1 DEF WatchFires, Raise, MoveThread
  <2>3. SteppersOK'
    BY <1>3, <2>2 DEF WatchFires, ByteInv, SteppersOK, Debugged
  <2> QED
    BY <1>3, <1>c, <2>2, <2>3 DEF WatchFires
<1>4. ASSUME NEW t \in Threads, StartThread(t) PROVE ByteInv'
  <2>1. SteppersOK'
    BY <1>4 DEF StartThread, MoveThread, ByteInv, SteppersOK, Debugged
  <2> QED
    BY <1>4, <1>c, <2>1 DEF StartThread
<1>5. ASSUME NEW t \in Threads, EndThread(t) PROVE ByteInv'
  <2>1. SteppersOK'
    BY <1>5, <1>b DEF EndThread, MoveThread, ByteInv, SteppersOK, Debugged
  <2> QED
    BY <1>5, <1>c, <2>1 DEF EndThread
<1>6. CASE ExitProcess
  BY <1>6 DEF ExitProcess, ByteInv, KindsOK, SteppersOK, BytesOK, Int3Owned
<1>7. CASE Relaunch
  <2>1. ~Debugged /\ \A t \in Threads : stepping'[t] = None /\ mode'[t] # "trap"
    BY <1>7, <1>b DEF Relaunch, Debugged
  <2> QED
    BY <1>7, <2>1 DEF Relaunch, ByteInv, KindsOK, SteppersOK, BytesOK, Int3Owned
<1> QED
  BY <1>1, <1>2, <1>3, <1>4, <1>5, <1>6, <1>7 DEF TargetStep

(* Re-arming the address a thread steps over puts its own breakpoint's int3   *)
(* back, under no other thread.                                               *)
LEMMA RearmOwned ==
    ASSUME Faults = {}, KeptApart, ByteInv, Alive, Pumping, NEW t \in Threads,
           stepping[t] # None, Rearm(stepping[t])
    PROVE  /\ Int3Owned' \/ fate' # "alive"
           /\ \A u \in Threads \ {t} : stepping[u] # None => mem'[stepping[u]] = mem[stepping[u]]
           /\ pump \in {"drain", "release", "off"} => mem' = mem
<1> PICK c : c = stepping[t]
  OBVIOUS
<1>1. c \in Executes[t] \cap SwAddrs /\ c \in Addrs
  BY ProgramBytes DEF ByteInv, SteppersOK
<1>2. breakpoints' = breakpoints /\ mem' = IF Found(c) THEN [mem EXCEPT ![c] = "int3"] ELSE mem
  BY RearmKeeps
<1>3. Found(c) => breakpoints[c].kind = "software"
  BY <1>1, EntryKinds DEF ByteInv, KindsOK, KeptApart, StepInv, RegisterInv, PhaseInv, TypeOK, Found,
                          Entries, NoEntry, Software, Hardware
<1>4. mem \in [Addrs -> Bytes]
  BY DEF ByteInv, StepInv, RegisterInv, PhaseInv, TypeOK
<1>5. Int3Owned' \/ fate' # "alive"
  BY <1>1, <1>2, <1>3, <1>4 DEF ByteInv, Int3Owned, Alive
<1>6. ASSUME NEW u \in Threads \ {t}, stepping[u] # None
      PROVE  mem'[stepping[u]] = mem[stepping[u]]
  <2>1. stepping[u] # c
    BY <1>1, <1>6 DEF ByteInv, SteppersOK, KeptApart
  <2> QED
    BY <1>2, <1>4, <2>1
<1>7. pump \in {"drain", "release", "off"} => mem' = mem
  BY <1>1, <1>2 DEF ByteInv, StepInv, RegisterInv, RegistersOK, Pumping
<1> QED
  BY <1>5, <1>6, <1>7

LEMMA ByteThreadEvent ==
    ASSUME Faults = {}, KeptApart, ByteInv, NEW t \in Threads, HandleThreadEvent(t)
    PROVE  ByteInv'
<1>0. StepInv'
  BY StepThreadEvent DEF ByteInv
<1>a. /\ mode \in [Threads -> Modes] /\ at \in [Threads -> Addrs \cup {None}]
      /\ stepping \in [Threads -> Addrs \cup {None}] /\ mem \in [Addrs -> Bytes]
      /\ \A u \in Threads : mode[u] \in {"trap", "tf", "step"} => at[u] \in Addrs
  BY DEF ByteInv, StepInv, RegisterInv, PhaseInv, TypeOK
<1>b. Alive /\ Pumping /\ UNCHANGED <<pump, fate>> /\ None \notin Addrs
  BY DebugPumpAssumption
  DEF HandleThreadEvent, HandleHit, AbsorbStaleTrap, PassTrap, HandleSingleStep,
      HandleThreadExit, HandleThreadCreate, HandlerRest, Deliver, Alive
<1> USE <1>0, <1>a, <1>b DEF HandlerRest, Deliver, tables, Alive, TargetSurvives
<1>c. ASSUME UNCHANGED <<mem, breakpoints, stepping>>, stepping[t] = None \/ mode'[t] \in {"tf", "step", "exit"},
             \A u \in Threads \ {t} : UNCHANGED <<mode[u], at[u]>>, mode'[t] # "trap"
      PROVE  ByteInv'
  BY <1>c DEF ByteInv, KindsOK, SteppersOK, BytesOK, Int3Owned, Debugged
<1>1. CASE HandleHit(t)
  <2>1. PICK a \in Addrs : a = at[t]
    BY <1>1 DEF HandleHit
  <2>2. a \in Executes[t] \cap SwAddrs /\ breakpoints[a].originalByte = "code"
    <3>1. a \in Executes[t] \cap (SwAddrs \cup OwnInt3) /\ Found(a) /\ breakpoints[a] \in Entries
      BY <1>1, <2>1 DEF HandleHit, ByteInv, SteppersOK, StepInv, RegisterInv, PhaseInv, TypeOK
    <3>2. a \in SwAddrs
      BY <3>1 DEF ByteInv, StepInv, RegisterInv, PhaseInv, StepperOK
    <3>3. breakpoints[a].kind = "software"
      BY <3>1, <3>2 DEF ByteInv, KindsOK, KeptApart, Found, Entries, NoEntry, Software, Hardware
    <3> QED
      BY <3>1, <3>2, <3>3 DEF ByteInv, KindsOK
  <2>3. /\ mem' = [mem EXCEPT ![a] = "code"] /\ MoveThread(t, "tf", a)
        /\ stepping' = [stepping EXCEPT ![t] = a] /\ breakpoints' = breakpoints
    BY <1>1, <2>1, <2>2, HitRewinds
  <2>4. pump = "loop"
    BY <1>1, <2>1 DEF HandleHit, Pumping, ByteInv, StepInv, RegisterInv, RegistersOK
  <2>5. SteppersOK'
    BY <2>2, <2>3 DEF MoveThread, ByteInv, SteppersOK, Debugged
  <2>6. Int3Owned'
    BY <2>2, <2>3, ProgramBytes DEF ByteInv, Int3Owned
  <2> QED
    BY <2>3, <2>4, <2>5, <2>6 DEF ByteInv, KindsOK, BytesOK
<1>2. ASSUME AbsorbStaleTrap(t) \/ PassTrap(t) PROVE ByteInv'
  <2>1. stepping[t] = None /\ at[t] \in Addrs
    BY <1>2 DEF AbsorbStaleTrap, PassTrap, ByteInv, SteppersOK
  <2> QED
    BY <1>2, <1>c, <2>1 DEF AbsorbStaleTrap, PassTrap, MoveThread
<1>3. CASE HandleThreadCreate(t)
  <2>1. stepping[t] = None
    BY <1>3 DEF HandleThreadCreate, ByteInv, SteppersOK
  <2> QED
    BY <1>3, <1>c, <2>1 DEF HandleThreadCreate, MoveThread
<1>4. ASSUME HandleSingleStep(t) \/ HandleThreadExit(t) PROVE ByteInv'
  <2>1. /\ stepping' = [stepping EXCEPT ![t] = None]
        /\ UNCHANGED mem \/ (stepping[t] # None /\ Rearm(stepping[t]))
        /\ mode'[t] \in {"run", "gone"} /\ \A u \in Threads \ {t} : UNCHANGED <<mode[u], at[u]>>
    BY <1>4 DEF HandleSingleStep, HandleThreadExit, LastStepper, MoveThread
  <2>2. breakpoints' = breakpoints
    BY <1>4, RearmKeeps DEF HandleSingleStep, HandleThreadExit
  <2>3. /\ Int3Owned'
        /\ \A u \in Threads \ {t} : stepping[u] # None => mem'[stepping[u]] = mem[stepping[u]]
        /\ pump \in {"drain", "release", "off"} => mem' = mem
    <3>1. CASE mem' = mem
      BY <2>2, <3>1 DEF ByteInv, Int3Owned
    <3>2. CASE stepping[t] # None /\ Rearm(stepping[t])
      BY <3>2, RearmOwned
    <3> QED
      BY <2>1, <3>1, <3>2
  <2>4. SteppersOK'
    BY <2>1, <2>3 DEF ByteInv, SteppersOK, Debugged
  <2> QED
    BY <2>2, <2>3, <2>4 DEF ByteInv, KindsOK, BytesOK
<1> QED
  BY <1>1, <1>2, <1>3, <1>4 DEF HandleThreadEvent

LEMMA BytePump == Faults = {} /\ ~DrainExpires /\ KeptApart /\ ByteInv /\ PumpStep => ByteInv'
<1> SUFFICES ASSUME Faults = {}, ~DrainExpires, KeptApart, ByteInv, PumpStep PROVE ByteInv'
  OBVIOUS
<1>0. StepInv'
  BY StepPump DEF ByteInv
<1> USE <1>0 DEF target, history, tables, Alive, TargetSurvives
<1>1. CASE \E t \in Threads : HandleThreadEvent(t)
  BY <1>1, ByteThreadEvent
<1>2. CASE InitialBreakpoint
  BY <1>2 DEF InitialBreakpoint, ByteInv, KindsOK, SteppersOK, BytesOK, Int3Owned, Debugged
<1>3. CASE HandleProcessExit
  <2>1. KindsOK'
    BY <1>3, EntryKinds DEF HandleProcessExit, ByteInv, KindsOK
  <2> QED
    BY <1>3, <2>1 DEF HandleProcessExit, ByteInv, SteppersOK, BytesOK, Int3Owned
<1>4. CASE DisarmAll
  <2>1. KindsOK'
    BY <1>4, EntryKinds DEF DisarmAll, KindsOK
  <2>2. UNCHANGED <<mode, at, stepping, fate>> /\ (Alive => pump' = "drain")
    BY <1>4 DEF DisarmAll, ByteInv, StepInv, RegisterInv, PhaseInv, PhaseOK
  <2>3. ASSUME Alive PROVE mem' = Program
    <3>1. mem' = [a \in Addrs |-> IF breakpoints[a].kind = "software" /\ HoldsInt3(a)
                                  THEN breakpoints[a].originalByte ELSE mem[a]]
      BY <1>4 DEF DisarmAll
    <3>2. ASSUME NEW a \in Addrs, ~(breakpoints[a].kind = "software" /\ HoldsInt3(a))
          PROVE  mem[a] = Program[a]
      <4>1. CASE breakpoints[a].kind # "software"
        BY <2>3, <4>1 DEF ByteInv, Int3Owned
      <4>2. CASE \E t \in Threads : stepping[t] = a
        <5>1. mem[a] = "code" /\ a \in SwAddrs
          BY <2>3, <4>2, DebugPumpAssumption DEF ByteInv, SteppersOK, Addrs
        <5> QED
          BY <5>1, ProgramBytes
      <4> QED
        BY <3>2, <4>1, <4>2 DEF HoldsInt3, SteppingOver
    <3>3. ASSUME NEW a \in Addrs, breakpoints[a].kind = "software"
          PROVE  breakpoints[a].originalByte = Program[a]
      BY <3>3, ProgramBytes DEF ByteInv, KindsOK
    <3>4. Program = [a \in Addrs |-> Program[a]]
      BY DEF Program
    <3> QED
      BY <3>1, <3>2, <3>3, <3>4
  <2>4. SteppersOK'
    BY <2>2, <2>3, ProgramBytes, <1>4 DEF DisarmAll, ByteInv, SteppersOK, Debugged
  <2> QED
    BY <2>1, <2>2, <2>3, <2>4 DEF ByteInv, BytesOK, Int3Owned
<1>5. CASE EndDrain
  <2>1. \A t \in Threads : mode[t] # "trap"
    BY <1>5 DEF EndDrain, DrainQuiet, InFlight
  <2> QED
    BY <1>5, <2>1 DEF EndDrain, ByteInv, KindsOK, SteppersOK, BytesOK, Int3Owned
<1>6. CASE Release
  <2>1. fate' = fate
    BY <1>6 DEF Release, ByteInv, StepInv, StepsOK, SteppersOK
  <2>2. \A t \in Threads : stepping'[t] = None /\ mode'[t] # "trap"
    BY <1>6 DEF Release, ByteInv, StepInv, RegisterInv, PhaseInv, TypeOK, Modes
  <2> QED
    BY <1>6, <2>1, <2>2 DEF Release, ByteInv, KindsOK, SteppersOK, BytesOK, Int3Owned
<1> QED
  BY <1>1, <1>2, <1>3, <1>4, <1>5, <1>6 DEF PumpStep

LEMMA ByteUi == Faults = {} /\ KeptApart /\ ByteInv /\ UiStep => ByteInv'
<1> SUFFICES ASSUME Faults = {}, KeptApart, ByteInv, UiStep PROVE ByteInv'
  OBVIOUS
<1>0. StepInv'
  BY StepUi DEF ByteInv
<1>a. mem \in [Addrs -> Bytes] /\ breakpoints \in [Addrs -> Entries]
  BY DEF ByteInv, StepInv, RegisterInv, PhaseInv, TypeOK
<1>b. Alive /\ Debugged /\ ui = "idle" => pump = "loop"
  BY DEF ByteInv, StepInv, RegisterInv, PhaseInv, PhaseOK, TypeOK, Debugged
<1> USE <1>0, <1>a DEF target, history, tables, TableRest, Alive, TargetSurvives
<1>1. ASSUME Attach \/ EndDetach PROVE ByteInv'
  <2>1. /\ \A a \in Addrs : breakpoints'[a] = NoEntry
        /\ \A t \in Threads : stepping'[t] = None
        /\ ~Debugged /\ UNCHANGED <<mem, mode, at, fate>>
    BY <1>1 DEF Attach, EndDetach, ForgetTables, Debugged
  <2>2. Alive => mem = Program
    BY <2>1 DEF ByteInv, BytesOK, Debugged
  <2>3. KindsOK' /\ Int3Owned'
    BY <2>1, <2>2, EntryKinds DEF KindsOK, Int3Owned
  <2>4. SteppersOK' /\ BytesOK'
    BY <2>1, <2>2 DEF ByteInv, SteppersOK, BytesOK
  <2> QED
    BY <2>1, <2>3, <2>4 DEF ByteInv
<1>2. CASE BeginDetach
  BY <1>2 DEF BeginDetach, ByteInv, KindsOK, SteppersOK, BytesOK, Int3Owned, Debugged
<1>3. ASSUME NEW a \in SwAddrs, AddSoftware(a) PROVE ByteInv'
  <2>1. mem[a] = "code" /\ a \in Addrs
    BY <1>3, ProgramBytes DEF AddSoftware, AlreadyTrapped, ByteInv, Int3Owned
  <2>2. /\ mem' = [mem EXCEPT ![a] = "int3"]
        /\ breakpoints' = [breakpoints EXCEPT ![a] = Software("code")]
        /\ UNCHANGED <<mode, at, stepping, fate, pump>> /\ pump = "loop"
        /\ \A t \in Threads : stepping[t] # a
    BY <1>3, <1>b, <2>1 DEF AddSoftware, KeptApart, SteppingOver
  <2>3. KindsOK' /\ Int3Owned'
    BY <1>3, <2>1, <2>2, EntryKinds DEF ByteInv, KindsOK, Int3Owned
  <2>4. SteppersOK' /\ BytesOK'
    BY <2>1, <2>2 DEF ByteInv, SteppersOK, BytesOK, Debugged
  <2> QED
    BY <2>2, <2>3, <2>4 DEF ByteInv
<1>4. ASSUME NEW a \in HwAddrs, AddHardware(a) PROVE ByteInv'
  <2>1. a \in Addrs /\ breakpoints[a] = NoEntry
    BY <1>4 DEF AddHardware, Found, Addrs
  <2>2. breakpoints'[a].kind = "hardware" /\ \A b \in Addrs \ {a} : breakpoints'[b] = breakpoints[b]
    BY <1>4, <2>1, EntryKinds DEF AddHardware
  <2>3. KindsOK' /\ Int3Owned'
    BY <1>4, <2>1, <2>2, EntryKinds DEF AddHardware, ByteInv, KindsOK, Int3Owned
  <2>4. SteppersOK' /\ BytesOK'
    BY <1>4 DEF AddHardware, ByteInv, SteppersOK, BytesOK, Debugged
  <2> QED
    BY <1>4, <2>3, <2>4 DEF AddHardware, ByteInv
<1>5. ASSUME NEW a \in Addrs, RemoveBreakpoint(a) PROVE ByteInv'
  <2>1. /\ breakpoints'[a] = NoEntry /\ \A b \in Addrs \ {a} : breakpoints'[b] = breakpoints[b]
        /\ UNCHANGED <<mode, at, stepping, fate, pump>> /\ (Alive => pump = "loop")
    BY <1>5, <1>b DEF RemoveBreakpoint, EraseEntry
  <2>2. KindsOK'
    BY <2>1, EntryKinds DEF ByteInv, KindsOK
  <2>3. \A b \in Addrs \ {a} : mem'[b] = mem[b]
    BY <1>5 DEF RemoveBreakpoint, RestoreOriginal
  <2>4. ASSUME Alive PROVE mem'[a] = Program[a]
    <3>1. CASE breakpoints[a].kind = "hardware"
      BY <1>5, <2>4, <3>1 DEF RemoveBreakpoint, ByteInv, Int3Owned
    <3>2. CASE breakpoints[a].kind # "hardware" /\ HoldsInt3(a)
      <4>1. mem' = [mem EXCEPT ![a] = breakpoints[a].originalByte]
        BY <1>5, <3>2 DEF RemoveBreakpoint, RestoreOriginal, Outcomes
      <4>2. breakpoints[a].kind = "software"
        BY <1>5, <3>2, EntryFields, EntryKinds DEF RemoveBreakpoint, Found
      <4> QED
        BY <4>1, <4>2, ProgramBytes DEF ByteInv, KindsOK
    <3>3. CASE breakpoints[a].kind # "hardware" /\ ~HoldsInt3(a)
      <4>1. mem' = mem
        BY <1>5, <3>3 DEF RemoveBreakpoint
      <4>2. mem[a] = "code" /\ a \in SwAddrs
        BY <2>4, <3>3, DebugPumpAssumption DEF HoldsInt3, SteppingOver, ByteInv, SteppersOK, Addrs
      <4> QED
        BY <4>1, <4>2, ProgramBytes
    <3> QED
      BY <3>1, <3>2, <3>3
  <2>5. Int3Owned'
    BY <2>1, <2>3, <2>4 DEF ByteInv, Int3Owned
  <2>6. SteppersOK'
    <3>1. Alive => \A t \in Threads : stepping[t] # None => mem'[stepping[t]] = "code"
      BY <2>3, <2>4, ProgramBytes DEF ByteInv, SteppersOK
    <3> QED
      BY <2>1, <3>1 DEF ByteInv, SteppersOK, Debugged
  <2> QED
    BY <2>1, <2>2, <2>5, <2>6 DEF ByteInv, BytesOK
<1> QED
  BY <1>1, <1>2, <1>3, <1>4, <1>5 DEF UiStep

LEMMA ByteInvariant ==
    ASSUME Faults = {}, ~DrainExpires, KeptApart PROVE Spec => []ByteInv
<1>1. Init => ByteInv
  BY StepInit, EntryKinds DEF Init, ByteInv, KindsOK, SteppersOK, BytesOK, Int3Owned, TargetSurvives
<1>2. ByteInv /\ UNCHANGED vars => ByteInv'
  BY StepStutter DEF ByteInv, KindsOK, SteppersOK, BytesOK, Int3Owned, TargetSurvives, Alive,
                     Debugged, vars, target, history, tables
<1>3. ByteInv /\ [Next]_vars => ByteInv'
  BY <1>2, ByteTarget, BytePump, ByteUi DEF Next
<1> QED
  BY <1>1, <1>3, PTL DEF Spec

(* No int3 outlives its breakpoint: while breakpoints are kept apart and no   *)
(* call fails every int3 in the target that is not its own belongs to a       *)
(* software breakpoint, after every removal, detach and thread's end.         *)
THEOREM Int3AlwaysOwned ==
    ASSUME Faults = {}, ~DrainExpires, KeptApart PROVE Spec => []Int3Owned
<1>1. ByteInv => Int3Owned
  BY DEF ByteInv
<1> QED
  BY <1>1, ByteInvariant, PTL

(* From when the pump is about to let go every byte is the program's and no   *)
(* thread has a debug register set, under the same assumptions.  Of a trap    *)
(* flag, or of an exception still to come, this says nothing.                 *)
THEOREM AlwaysReleasedClean ==
    ASSUME Faults = {}, ~DrainExpires, KeptApart PROVE Spec => []ReleasedClean
<1>1. ByteInv => ReleasedClean
  <2> SUFFICES ASSUME ByteInv, fate = "alive", pump \in {"release", "off"}
               PROVE  mem = Program /\ \A t \in Threads, s \in Slots : regs[t][s] = None
    BY DEF ReleasedClean
  <2>1. \A t \in Threads : regs[t] = NoRegisters
    <3>1. CASE pump = "off"
      BY <3>1 DEF ByteInv, StepInv, RegisterInv, RegistersOK, Alive, Debugged
    <3>2. CASE pump = "release"
      <4>1. \A a \in Addrs : breakpoints[a].kind # "hardware"
        BY <3>2, EntryKinds DEF ByteInv, StepInv, RegisterInv, RegistersOK, Alive, Found
      <4> QED
        BY <4>1, RegistersEmpty DEF ByteInv, StepInv, Alive
    <3> QED
      BY <3>1, <3>2
  <2> QED
    BY <2>1 DEF ByteInv, BytesOK, Alive, NoRegisters
<1> QED
  BY <1>1, ByteInvariant, PTL

(* So nothing the debugger leaves behind when it lets go kills the target: no *)
(* trap and no step of its making is raised when nobody is there to field it. *)
(* What it passes on while it is there is another matter (OwnTrapsClaimed,    *)
(* OwnStepsClaimed), and the loader's own breakpoint may be among it.         *)
THEOREM TargetAlwaysSurvives ==
    ASSUME Faults = {}, ~DrainExpires, KeptApart PROVE Spec => []TargetSurvives
<1>1. ByteInv => TargetSurvives
  BY DEF ByteInv
<1> QED
  BY <1>1, ByteInvariant, PTL
================================================================================
