--------------------------------- MODULE MCLive ----------------------------------
(* Small instances of the parts whose promise is that something comes to an   *)
(* end, in one run: in a behaviour one part runs and the others stay as they  *)
(* begin.  The requests to the UI thread and the speed hack are this module's *)
(* own parts.                                                                 *)
EXTENDS UiRequests, Speed

CONSTANT None

VARIABLES
    part,           \* the part that runs
    \* LuaScripts
    script, cancel, job, scanner, stop, joining,
    \* AddressEntries
    entries, nextId, revision, attached, points, writable, freezer, user, edited, edits

Scripts == INSTANCE LuaScripts WITH HookInterval <- 2, MaxDepth <- 2, BatchSize <- 2, MaxResults <- 3
List == INSTANCE AddressEntries WITH
    Addrs <- {"x", "y"}, Values <- {1}, MaxId <- 1, MaxEdits <- 3, ResolveEvery <- 2

scripts == <<script, cancel, job, scanner, stop, joining>>
list == <<entries, nextId, revision, attached, points, writable, freezer, user, edited, edits>>
All == <<part, vars, scripts, speedVars, list>>

LiveInit ==
    /\ part \in {"requests", "console", "predicate", "clock", "list"}
    /\ Init /\ SpeedInit /\ Scripts!LuaInit /\ List!Init

WithoutRequests == <<part, scripts, speedVars, list>>
WithoutScripts == <<part, vars, speedVars, list>>
WithoutClock == <<part, vars, scripts, list>>
WithoutList == <<part, vars, scripts, speedVars>>

LiveNext ==
    \/ part = "requests" /\ Next /\ UNCHANGED WithoutRequests
    \/ part = "console" /\ Scripts!ConsoleNext /\ UNCHANGED WithoutScripts
    \/ part = "predicate" /\ Scripts!ScannerNext /\ UNCHANGED WithoutScripts
    \/ part = "clock" /\ SpeedNext /\ UNCHANGED WithoutClock
    \/ part = "list" /\ List!EntriesNext /\ UNCHANGED WithoutList

(* Each part's own fairness, for the part that runs; since that is one and    *)
(* the same for good, an action of each part can share a conjunct.            *)
LiveFairness ==
    /\ WF_All(\/ part = "requests" /\ UiThread /\ UNCHANGED WithoutRequests
              \/ part = "console" /\ Scripts!ScriptThread /\ UNCHANGED WithoutScripts
              \/ part = "clock" /\ Worker /\ UNCHANGED WithoutClock
              \/ part = "list" /\ List!FreezerStep /\ UNCHANGED WithoutList)
    /\ WF_All(\/ part = "requests" /\ McpThread /\ UNCHANGED WithoutRequests
              \/ part = "predicate" /\ Scripts!ScannerThread /\ UNCHANGED WithoutScripts
              \/ part = "clock" /\ Finishes /\ UNCHANGED WithoutClock)
    /\ WF_All(\/ part = "requests" /\ Asking("lua") /\ UNCHANGED WithoutRequests
              \/ part = "predicate" /\ Scripts!Joined /\ UNCHANGED WithoutScripts)

LiveSpec == LiveInit /\ [][LiveNext]_All /\ LiveFairness

ASSUME LiveAssumption ==
    /\ UiRequestsAssumption /\ SpeedAssumption
    /\ Scripts!LuaScriptsAssumption /\ List!AddressAssumption

--------------------------------------------------------------------------------
(* The properties of each part, which its module states                       *)

(* RequestsKept is UiRequests', ClockMonotonic and DoesAsAsked are Speed's.   *)

(* A caller is released, the server's stop() ends and the program quits       *)
(* (UiAutomation.cpp, McpServer.cpp).                                         *)
RequestsEnd == CallersReleased /\ StopEnds /\ QuitHonoured

(* A script ends when it is told to (LuaConsole.cpp, LuaScanner.cpp).         *)
StoppedScriptEnds == Scripts!StoppedScriptEnds

(* The freezer keeps what the user set, gives up on what cannot be written    *)
(* and follows chains (RuntimeServices.cpp).                                  *)
EntriesKept == List!FreezerKeepsEdits /\ List!FreezeGivesUp /\ List!ChainsFollowed
================================================================================
