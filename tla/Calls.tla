---------------------------------- MODULE Calls ---------------------------------
(* Who runs what: the UI thread, which takes the user's actions and the tools *)
(* marshalled to it, the MCP server's one thread, and the thread of a Lua     *)
(* script.  A call goes through the steps of its table one at a time, the     *)
(* other threads going on in between.                                         *)
EXTENDS Naturals, PanelTable

CONSTANT ThreadSets     \* the sets of threads looked at together
CallsAssumption == \A threads \in ThreadSets : threads \subseteq {"ui", "server", "worker"}

VARIABLES
    inCall,         \* what each thread is in
    handed,         \* what the server waits for the UI thread to run, or nothing
    haveSession
callsVars == <<inCall, handed, haveSession>>

NoOperation == Panel("nothing", <<>>)
CallOf(op) == [op |-> op, at |-> 0, changing |-> FALSE, refused |-> FALSE, did |-> {}]
NotCalling == CallOf(NoOperation)
IsFree(t) == inCall[t] = NotCalling
CallThreads == DOMAIN inCall

CallsInit ==
    /\ \E threads \in ThreadSets : inCall = [t \in threads |-> NotCalling]
    /\ handed = NoOperation /\ haveSession = FALSE

Set(t, call) == inCall' = [inCall EXCEPT ![t] = call]

UserActs ==
    /\ "ui" \in CallThreads /\ IsFree("ui")
    /\ \E op \in Panels : Set("ui", CallOf(op))
    /\ UNCHANGED <<handed, haveSession>>

(* ToolRegistry::call, from the server's thread.                              *)
ClientCalls ==
    /\ "server" \in CallThreads /\ IsFree("server") /\ handed = NoOperation
    /\ \E op \in Tools :
         IF op.marshalled
         THEN handed' = op /\ UNCHANGED inCall
         ELSE Set("server", CallOf(op)) /\ UNCHANGED handed
    /\ UNCHANGED haveSession

Drain ==
    /\ "ui" \in CallThreads /\ IsFree("ui") /\ handed # NoOperation
    /\ Set("ui", CallOf(handed))
    /\ UNCHANGED <<handed, haveSession>>

ScriptCalls ==
    /\ "worker" \in CallThreads /\ IsFree("worker")
    /\ \E op \in Functions : Set("worker", CallOf(op))
    /\ UNCHANGED <<handed, haveSession>>

--------------------------------------------------------------------------------
Running(t) == ~inCall[t].refused /\ inCall[t].at < Len(inCall[t].op.steps)
Current(t) == inCall[t].op.steps[inCall[t].at + 1]
Passed(c) == [c EXCEPT !.at = @ + 1, !.changing = FALSE]
Refused(c) == [c EXCEPT !.refused = TRUE, !.changing = FALSE]

(* Arguments and states are as they may be, but for the attachment.           *)
Looks(t) ==
    /\ Running(t) /\ Current(t)[1] \in {"arg", "is", "resolves", "reads", "sees"}
    /\ \/ (Current(t) = Attached => haveSession) /\ Set(t, Passed(inCall[t]))
       \/ /\ Current(t)[1] # "sees" /\ (Current(t) = Attached => ~haveSession)
          /\ Set(t, Refused(inCall[t]))
    /\ UNCHANGED <<handed, haveSession>>

BeginChange(t) ==
    /\ Running(t) /\ Current(t)[1] \in {"does", "always"} /\ ~inCall[t].changing
    /\ Set(t, [inCall[t] EXCEPT !.changing = TRUE])
    /\ UNCHANGED <<handed, haveSession>>

EndChange(t) ==
    /\ Running(t) /\ inCall[t].changing
    /\ \/ /\ Set(t, [Passed(inCall[t]) EXCEPT !.did = @ \cup {Current(t)[2]}])
          /\ haveSession' = IF Current(t)[2] = "session" THEN Current(t)[1] = "does" ELSE haveSession
       \/ /\ Current(t)[1] = "does"
          /\ Set(t, Refused(inCall[t]))
          /\ UNCHANGED haveSession
    /\ UNCHANGED handed

(* submitRequest: refused on the UI thread itself, served by it between two   *)
(* actions of its own.                                                        *)
AsksWindow(t) ==
    /\ Running(t) /\ Current(t)[1] = "window"
    /\ IF t = "ui" THEN Set(t, Refused(inCall[t]))
       ELSE /\ "ui" \in CallThreads => IsFree("ui")
            /\ Set(t, Passed(inCall[t]))
    /\ UNCHANGED <<handed, haveSession>>

Return(t) ==
    /\ ~IsFree(t) /\ ~Running(t)
    /\ Set(t, NotCalling)
    /\ handed' = IF t = "ui" /\ inCall[t].op = handed THEN NoOperation ELSE handed
    /\ UNCHANGED haveSession

CallsNext ==
    \/ UserActs \/ ClientCalls \/ Drain \/ ScriptCalls
    \/ \E t \in CallThreads : Looks(t) \/ BeginChange(t) \/ EndChange(t) \/ AsksWindow(t) \/ Return(t)

CallsSpec == CallsInit /\ [][CallsNext]_callsVars

--------------------------------------------------------------------------------
(* Properties                                                                 *)

(* Every tool that changes an engine is registered as one that does, so the   *)
(* server's thread only looks; and none that blocks on the UI thread is, or   *)
(* it would wait there for itself (McpToolsControl.cpp:755-761).              *)
ToolsMarshalled ==
    /\ "server" \in CallThreads => ~inCall["server"].changing
    /\ handed.steps # <<>> => \A i \in DOMAIN handed.steps : handed.steps[i][1] # "window"

(* A call that is refused has changed nothing, whichever of its steps refused *)
(* it and whatever the other threads did in between.  These are the calls     *)
(* that can leave something done behind a refusal.                            *)
Partial == {"breakpoint_add", "access_watch_start", "update_value", "aa_set_enabled", "aa_disable_all",
            "patch_restore_all", "speed_load", "speed_set_scale", "speed_reset",
            "detach_and_attach", "watch_result", "watch_entry", "watch_here", "watch_field", "write",
            "set_breakpoint", "toggle_script", "restore_all", "set_speed", "remove_hook"}
RefusedChangesNothing ==
    \A t \in CallThreads : inCall[t].refused => inCall[t].did = {} \/ inCall[t].op.name \in Partial
================================================================================
