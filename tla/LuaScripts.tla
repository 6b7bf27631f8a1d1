-------------------------------- MODULE LuaScripts -------------------------------
(* The two places a user's Lua runs, each on a thread of its own: the console *)
(* and the scanner's predicate.  Stop sets a flag.  Nothing interrupts Lua    *)
(* but a hook it calls every so many instructions.  The hook yields, which    *)
(* gets past every pcall, but not past a C function that calls back into Lua  *)
(* (table.sort, string.gsub): under one a yield is an error like any other.   *)
EXTENDS SequencesExt, FiniteSetsExt, Integers

CONSTANTS
    HookInterval,       \* instructions between two calls of the hook
    MaxDepth,           \* how deep a script's calls are nested
    BatchSize, MaxResults
LuaScriptsAssumption == {HookInterval, MaxDepth, BatchSize, MaxResults} \subseteq Nat \ {0}

VARIABLES
    script,         \* the console's: [at, frames, left], or what became of it
    cancel, job,    \* its flag, and the scan job a script may start
    scanner,        \* the Lua scan's worker: [at, frames, left, batch, found]
    stop,           \* its flag
    joining         \* the UI thread waits for that worker, to return or to start anew
console == <<script, cancel, job>>
luaScan == <<scanner, stop, joining>>
luaVars == <<console, luaScan>>

Ended(how) == [at |-> how, frames |-> <<>>, left |-> HookInterval]
RunningScript == script.at \in {"running", "waiting"}
NoScan == [at |-> "idle", frames |-> <<>>, left |-> HookInterval, batch |-> 0, found |-> 0]

LuaInit ==
    /\ script = Ended("finished") /\ cancel = FALSE /\ job = "none"
    /\ scanner = NoScan /\ stop = FALSE /\ joining = "no"

--------------------------------------------------------------------------------
(* What Lua does under the hook, of a console's script or a scan's predicate. *)
(* A frame is a pcall, a C function that calls Lua back, or the resume of a   *)
(* coroutine of the script's own: that one counts its own instructions, and   *)
(* its resumer goes on with what was left to it.                              *)

Enter(s, of) ==
    IF of = "resume" THEN [s EXCEPT !.frames = Append(@, [of |-> of, left |-> s.left]), !.left = HookInterval]
                     ELSE [s EXCEPT !.frames = Append(@, [of |-> of, left |-> 0])]

(* Back in what made the call at i, or ended if there is none.                *)
BackTo(s, i, how) ==
    IF i = 0 THEN [s EXCEPT !.at = how, !.frames = <<>>, !.left = HookInterval]
    ELSE [s EXCEPT !.frames = SubSeq(@, 1, i - 1),
                   !.left = IF s.frames[i].of = "resume" THEN s.frames[i].left ELSE @]
Innermost(s, kinds) == Max({i \in DOMAIN s.frames : s.frames[i].of \in kinds} \cup {0})

Raise(s, how) == BackTo(s, Innermost(s, {"pcall", "resume"}), how)
Unyieldable(s) == Innermost(s, {"call"}) > Innermost(s, {"resume"})

Abandon(s, error, yield) == Raise(s, error)     \* mutant: an error, which a pcall catches
(* "how" is what a script comes to by an error, and by a yield to the host.   *)
Yield(s, error, yield) ==
    IF Unyieldable(s) THEN Raise(s, error) ELSE BackTo(s, Innermost(s, {"resume"}), yield)

(* One instruction of it: whatever it calls, returns from or fails with.      *)
Steps(s, error) ==
    {s, Raise(s, error)} \cup (IF s.frames = <<>> THEN {} ELSE {BackTo(s, Len(s.frames), error)})
    \cup {Enter(s, of) : of \in IF Len(s.frames) < MaxDepth THEN {"pcall", "call", "resume"} ELSE {}}

--------------------------------------------------------------------------------
(* The console                                                                *)

Submit ==
    /\ ~RunningScript
    /\ cancel' = FALSE
    /\ script' = Ended("running")
    /\ UNCHANGED <<job, luaScan>>

(* The flag, and then the scan.                                               *)
Cancel ==
    /\ ~cancel
    /\ cancel' = TRUE
    /\ job' = IF job = "running" THEN "cancelled" ELSE job
    /\ UNCHANGED <<script, luaScan>>

Stopping(s) == Yield(s, "failed", "cancelled")

(* What a script may do next: Lua's own steps, come to its end, start a scan, *)
(* wait for it, or look at the flag itself.                                   *)
Instruction ==
    /\ script.at = "running" /\ script.left > 0
    /\ LET s == [script EXCEPT !.left = @ - 1] IN
       \/ script' \in Steps(s, "failed") /\ UNCHANGED job
       \/ script.frames = <<>> /\ script' = Ended("finished") /\ UNCHANGED job
       \/ job # "running" /\ job' = "running" /\ script' = s
       \/ script' = [s EXCEPT !.at = "waiting"] /\ UNCHANGED job
       \/ script' = (IF cancel THEN Stopping(s) ELSE s) /\ UNCHANGED job
    /\ UNCHANGED <<cancel, luaScan>>

CountHook ==
    /\ script.at = "running" /\ script.left = 0
    /\ script' = LET s == [script EXCEPT !.left = HookInterval] IN IF cancel THEN Stopping(s) ELSE s
    /\ UNCHANGED <<cancel, job, luaScan>>

(* scan_wait goes round every 10 ms, until the scan or its time is over.      *)
ScanWait ==
    /\ script.at = "waiting"
    /\ script' = LET s == [script EXCEPT !.at = "running"] IN
                 IF job = "running" /\ cancel THEN Stopping(s) ELSE s
    /\ UNCHANGED <<cancel, job, luaScan>>

ScanJobEnds ==
    /\ job # "none" /\ job' = "none"
    /\ UNCHANGED <<script, cancel, luaScan>>

--------------------------------------------------------------------------------
(* The scanner: the chunk that makes the predicate, and the predicate itself, *)
(* a call for each place of the memory.                                       *)

Ui == joining = "no"
Start == Ui /\ joining' = "start" /\ stop' = TRUE /\ UNCHANGED <<scanner, console>>
CancelScan == Ui /\ joining' = "cancel" /\ stop' = TRUE /\ UNCHANGED <<scanner, console>>

(* The worker joined, a start goes on with one of its own.                    *)
Joined ==
    /\ ~Ui /\ scanner.at = "idle"
    /\ joining' = "no"
    /\ IF joining = "start"
       THEN stop' = FALSE /\ scanner' = [NoScan EXCEPT !.at = "chunk"]
       ELSE UNCHANGED <<stop, scanner>>
    /\ UNCHANGED console

InLua == scanner.at \in {"chunk", "predicate"}
Settled(s) == [s EXCEPT !.batch = IF s.at = "idle" THEN 0 ELSE @]   \* a failed scan drops its batch
ScannerInstruction ==
    /\ InLua /\ scanner.left > 0
    /\ \E s \in Steps([scanner EXCEPT !.left = @ - 1], "idle") : scanner' = Settled(s)
    /\ UNCHANGED <<stop, joining, console>>

Stopped == stop
ScannerHook ==
    /\ InLua /\ scanner.left = 0
    /\ LET s == [scanner EXCEPT !.left = HookInterval] IN
       scanner' = IF ~Stopped THEN s
                  ELSE Settled(Yield(s, "idle", IF s.at = "chunk" THEN "idle" ELSE "between"))
    /\ UNCHANGED <<stop, joining, console>>

ChunkReturns ==
    /\ scanner.at = "chunk" /\ scanner.frames = <<>>
    /\ \E at \in {"between", "idle"} : scanner' = [scanner EXCEPT !.at = at]
    /\ UNCHANGED <<stop, joining, console>>

NextPlace ==
    /\ scanner.at = "between" /\ ~stop
    /\ scanner' = [scanner EXCEPT !.at = "predicate"]
    /\ UNCHANGED <<stop, joining, console>>

Capped(n) == IF n > MaxResults THEN MaxResults ELSE n

(* Matches go in by the batch, and too many of them stop the scan.            *)
PredicateReturns ==
    /\ scanner.at = "predicate" /\ scanner.frames = <<>>
    /\ \/ scanner' = [scanner EXCEPT !.at = "between"] /\ UNCHANGED stop
       \/ /\ scanner.batch + 1 < BatchSize
          /\ scanner' = [scanner EXCEPT !.at = "between", !.batch = @ + 1] /\ UNCHANGED stop
       \/ /\ scanner.batch + 1 = BatchSize
          /\ scanner' = [scanner EXCEPT !.at = "between", !.batch = 0, !.found = Capped(@ + BatchSize)]
          /\ stop' = (stop \/ scanner.found + BatchSize > MaxResults)
    /\ UNCHANGED <<joining, console>>

EndScan ==
    /\ scanner.at = "between"
    /\ scanner' = [scanner EXCEPT !.at = "idle", !.batch = 0, !.found = Capped(@ + scanner.batch)]
    /\ UNCHANGED <<stop, joining, console>>

--------------------------------------------------------------------------------
ScriptThread == Instruction \/ CountHook \/ ScanWait
ScannerThread == ScannerInstruction \/ ScannerHook \/ (stop /\ EndScan)

ConsoleNext == Submit \/ Cancel \/ Instruction \/ CountHook \/ ScanWait \/ ScanJobEnds
ScannerNext ==
    \/ Start \/ CancelScan \/ Joined
    \/ ScannerInstruction \/ ScannerHook \/ ChunkReturns \/ NextPlace \/ PredicateReturns \/ EndScan
LuaNext == ConsoleNext \/ ScannerNext

(* The threads run; nothing makes a script or a predicate come to its end.    *)
LuaFairness == WF_luaVars(ScriptThread) /\ WF_luaVars(ScannerThread) /\ WF_luaVars(Joined)
LuaSpec == LuaInit /\ [][LuaNext]_luaVars /\ LuaFairness

--------------------------------------------------------------------------------
(* Properties                                                                 *)

(* The hook is due where it cannot yield.                                     *)
Beyond(s) == s.left = 0 /\ Unyieldable(s)

(* Stop stops a script, whatever pcalls and coroutines it has wrapped itself  *)
(* in, and the window gets out of the wait for a predicate that never         *)
(* returns, as long as the hook is not called under a C function that has     *)
(* called Lua back, where it can only raise (LuaConsole.cpp:190-200,          *)
(* 249-256, LuaScanner.cpp:33-45).  A script that takes the hook off with     *)
(* debug.sethook is none of these.                                            *)
StoppedScriptEnds ==
    /\ cancel ~> ~RunningScript \/ ~cancel \/ Beyond(script)
    /\ ~Ui ~> Ui \/ (InLua /\ Beyond(scanner))

(* "A yield cannot be caught" (LuaConsole.cpp:197), so a script that was told *)
(* to stop ends, whatever it is in.                                           *)
YieldNotCaught == cancel ~> ~RunningScript \/ ~cancel
================================================================================
