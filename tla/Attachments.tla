------------------------------- MODULE Attachments -------------------------------
(* One session and the four owners that remember what they did to its         *)
(* process: the debug pump, the patch list, the scripts and the speed         *)
(* controller.  Attaching and detaching by a tool or by a script replace the  *)
(* session's handle and nothing else; the Detach button takes all of them     *)
(* apart first, and asks when there is something to lose.  The drain of the   *)
(* tools goes on while a dialog is open.                                      *)
EXTENDS Naturals

CONSTANTS Pids, Doors       \* the ways in: "panel", "tools", "script"
AttachmentsAssumption == Doors \subseteq {"panel", "tools", "script"}

(* The debug pump's process is the one it has traps in, the speed             *)
(* controller's the one its payload was found in.                             *)
Owners == {"pump", "patches", "scripts", "speed"}

VARIABLES
    target,         \* the session's process
    held,           \* owner -> the process it remembers having changed
    pending,        \* the question waiting for an answer
    screen,         \* the question the user has read
    step,           \* of the detach under way
    strayed,        \* history: the owners of what was undone in a process it was not done in
    apart,          \* history: the owners under whom the session was replaced
    uncounted       \* history: the script on was switched on behind a question that counts none
dialog == <<pending, screen>>
histories == <<strayed, apart, uncounted>>
attachments == <<target, held, dialog, step, strayed, apart, uncounted>>

Nothing == "none"
NoQuestion == [what |-> Nothing, pid |-> Nothing, scripts |-> FALSE]

AttachmentsInit ==
    /\ target = Nothing /\ held = [o \in Owners |-> Nothing]
    /\ pending = NoQuestion /\ screen = NoQuestion /\ step = Nothing
    /\ strayed = {} /\ apart = {} /\ uncounted = FALSE

Ui == step = Nothing                \* the UI thread is not in the middle of a detach
(* A dialog keeps the panels from being used, and not the tools.              *)
Usable == Ui /\ (pending = NoQuestion \/ "tools" \in Doors)

(* TargetSession::attach fails and changes nothing, or succeeds.              *)
SwapSession(pid) ==
    /\ target' = pid
    /\ apart' = {o \in Owners : held[o] \notin {Nothing, pid}}

Keep(owner, pid) == held' = [held EXCEPT ![owner] = pid]
Drop(owner) == Keep(owner, Nothing) /\ apart' = apart \ {owner}
(* What is undone is undone in the session's process, whichever that is.      *)
Act(owner) ==
    strayed' = IF held[owner] \notin {Nothing, target} /\ target # Nothing
               THEN strayed \cup {owner} ELSE strayed

--------------------------------------------------------------------------------
(* What the owners do, on the UI thread, while the session is attached        *)

Acquire(owner) == Keep(owner, IF held[owner] = Nothing THEN target ELSE held[owner])

AddBreakpoint ==
    /\ Usable /\ target # Nothing /\ Acquire("pump")
    /\ UNCHANGED <<target, dialog, step, histories>>

ApplyPatch ==
    /\ Usable /\ target # Nothing /\ held["patches"] = Nothing /\ Acquire("patches")
    /\ UNCHANGED <<target, dialog, step, histories>>

RemovePatch ==
    /\ Usable /\ held["patches"] # Nothing /\ Drop("patches") /\ Act("patches")
    /\ UNCHANGED <<target, dialog, step, uncounted>>

(* The detach asked about carries the number of scripts that were on when it  *)
(* was asked.                                                                 *)
Uncounting == pending.what = "detach" /\ ~pending.scripts

EnableScript ==
    /\ Usable /\ target # Nothing /\ held["scripts"] = Nothing /\ Acquire("scripts")
    /\ uncounted' = Uncounting
    /\ UNCHANGED <<target, dialog, step, strayed, apart>>

DisableScript ==
    /\ Usable /\ held["scripts"] # Nothing /\ Drop("scripts") /\ Act("scripts")
    /\ uncounted' = FALSE
    /\ UNCHANGED <<target, dialog, step>>

(* Only the first change of speed looks for the payload.                      *)
SetSpeed ==
    /\ Usable /\ target # Nothing /\ Acquire("speed") /\ Act("speed")
    /\ UNCHANGED <<target, dialog, step, apart, uncounted>>

--------------------------------------------------------------------------------
(* Attach and detach by a tool, on the UI thread, and by a script, on its own *)

ToolAttach ==
    /\ \/ "tools" \in Doors /\ Ui
       \/ "script" \in Doors
    /\ \E pid \in Pids : SwapSession(pid)
    /\ UNCHANGED <<held, dialog, step, strayed, uncounted>>

ToolDetach ==
    /\ \/ "tools" \in Doors /\ Ui
       \/ "script" \in Doors
    /\ SwapSession(Nothing)
    /\ UNCHANGED <<held, dialog, step, strayed, uncounted>>

--------------------------------------------------------------------------------
(* The panel                                                                  *)

Question(what, pid) == [what |-> what, pid |-> pid, scripts |-> held["scripts"] # Nothing]

ReplaceIt(question) == pending' = question  \* mutant: the newer question wins
(* A second question is refused while one waits.                              *)
ConfirmAction(question) == pending' = IF pending = NoQuestion THEN question ELSE pending

Warnings == \E o \in Owners \ {"speed"} : held[o] # Nothing

AttachTo(pid) ==
    /\ Ui /\ "panel" \in Doors
    /\ IF target \notin {Nothing, pid}
       THEN ConfirmAction(Question("attach", pid)) /\ UNCHANGED <<target, apart>>
       ELSE SwapSession(pid) /\ UNCHANGED pending
    /\ UNCHANGED <<held, screen, step, strayed, uncounted>>

RequestDetach ==
    /\ Ui /\ target # Nothing
    /\ IF Warnings
       THEN ConfirmAction(Question("detach", Nothing)) /\ UNCHANGED step
       ELSE step' = "speed" /\ UNCHANGED pending
    /\ UNCHANGED <<target, held, screen, histories>>

Show ==
    /\ Ui /\ pending # NoQuestion /\ screen = NoQuestion
    /\ screen' = pending
    /\ UNCHANGED <<target, held, pending, step, histories>>

Cancel ==
    /\ Ui /\ screen # NoQuestion
    /\ pending' = NoQuestion /\ screen' = NoQuestion
    /\ UNCHANGED <<target, held, step, histories>>

(* Scripts are switched off if there were any when the question was asked.    *)
ConfirmDetach ==
    /\ Ui /\ screen # NoQuestion /\ pending.what = "detach"
    /\ pending' = NoQuestion /\ screen' = NoQuestion
    /\ step' = IF pending.scripts THEN "scripts" ELSE "speed"
    /\ UNCHANGED <<target, held, histories>>

(* requestDetach and then attach: when there is something to lose, the first  *)
(* only asks once more.                                                       *)
ConfirmAttach ==
    /\ Ui /\ screen # NoQuestion /\ pending.what = "attach"
    /\ screen' = NoQuestion
    /\ IF Warnings
       THEN /\ pending' = Question("detach", Nothing)
            /\ SwapSession(pending.pid) \/ UNCHANGED <<target, apart>>
            /\ UNCHANGED <<held, strayed>>
       ELSE /\ pending' = NoQuestion
            /\ target' \in {Nothing, pending.pid}
            /\ Drop("speed") /\ Act("speed")
    /\ UNCHANGED <<step, uncounted>>

--------------------------------------------------------------------------------
(* The whole detach.  What cannot be undone is reported and forgotten.        *)

DisableScripts ==
    /\ step = "scripts" /\ step' = "speed"
    /\ Drop("scripts") /\ Act("scripts") /\ uncounted' = FALSE
    /\ UNCHANGED <<target, dialog>>

ResetSpeed ==
    /\ step = "speed" /\ step' = "pump"
    /\ Drop("speed") /\ Act("speed")
    /\ UNCHANGED <<target, dialog, uncounted>>

DetachDebugger ==
    /\ step = "pump" /\ step' = "patches"
    /\ Drop("pump")
    /\ UNCHANGED <<target, dialog, strayed, uncounted>>

Remember == held["patches"]     \* mutant: the patch list is kept
Forgotten == Nothing
ForgetAll ==
    /\ step = "patches" /\ step' = "session"
    /\ Keep("patches", Forgotten) /\ apart' = apart \ {"patches"}
    /\ UNCHANGED <<target, dialog, strayed, uncounted>>

DetachSession ==
    /\ step = "session" /\ step' = Nothing
    /\ target' = Nothing
    /\ UNCHANGED <<held, dialog, histories>>

AttachmentsNext ==
    \/ AddBreakpoint \/ ApplyPatch \/ RemovePatch \/ EnableScript \/ DisableScript \/ SetSpeed
    \/ ToolAttach \/ ToolDetach
    \/ \E pid \in Pids : AttachTo(pid)
    \/ RequestDetach \/ Show \/ Cancel \/ ConfirmDetach \/ ConfirmAttach
    \/ DisableScripts \/ ResetSpeed \/ DetachDebugger \/ ForgetAll \/ DetachSession

AttachmentsSpec == AttachmentsInit /\ [][AttachmentsNext]_attachments

--------------------------------------------------------------------------------
(* Properties                                                                 *)

(* Each owner holds nothing of another process than the session's: the whole  *)
(* detach takes it from each of them before the session lets go, and even one *)
(* under whom the session was replaced is mended by it.  The exceptions are   *)
(* an owner under whom the session was replaced and that has let go of        *)
(* nothing since, and the script that TakesScriptsApart is about              *)
(* (UiApp::requestDetach).                                                    *)
HeldOfTarget ==
    \A o \in Owners :
        \/ held[o] \in {Nothing, target}
        \/ o \in apart
        \/ o = "scripts" /\ uncounted

(* The question the user has read is the one his answer will act on           *)
(* (UiApp::confirmAction).                                                    *)
AnswersWhatIsShown == screen # NoQuestion => pending = screen

(* Detaching first keeps an undo out of another process                       *)
(* (UiPanelsTarget.cpp:71-76): with the panel the only way in, nothing        *)
(* recorded in one process is ever undone in another.                         *)
UndoGoesHome == strayed = {}

(* Scripts are switched off before the handle closes, since "once the handle  *)
(* closes nothing can" (UiApp.cpp:616-622).  It is violated: the detach       *)
(* switches them off only if one was on when the question was asked.          *)
TakesScriptsApart == step = "session" => held["scripts"] = Nothing
================================================================================
