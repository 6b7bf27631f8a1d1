------------------------------- MODULE UiRequests -------------------------------
(* How another thread gets something done by the UI thread: UiApp's queue of  *)
(* requests, the frame loop that drains it, and McpServer, whose one thread   *)
(* serves a connection at a time and whose stop() joins it from the UI        *)
(* thread.  The Lua worker is the other thread that asks.                     *)
EXTENDS Naturals, SequencesExt, Positions

CONSTANTS
    MaxFrames,      \* most frames a script waits for
    MaxCalls        \* most tool calls one MCP connection carries

UiRequestsAssumption == MaxFrames \in Nat \ {0} /\ MaxCalls \in Nat \ {0}

VARIABLES
    \* the UI thread
    ui,             \* where it is: [pc, then], then being what a drain returns to
    minimized, quitRequested,
    closePosted,    \* WM_CLOSE is in the message queue
    commands,       \* uiCommands() is not null
    ready,          \* the requests the drain under way has taken
    \* the request queue, guarded by automationMutex_
    queue, taken, finished,
    \* the threads that ask
    pc,             \* where each is
    running,        \* McpServer::running_
    calls,          \* tool calls the MCP connection still has to make
    inline          \* history: a mutating tool ran on the MCP thread

uiVars == <<ui, minimized, quitRequested, closePosted, commands, ready>>
queueVars == <<queue, taken, finished>>
callerVars == <<pc, running, calls, inline>>
vars == <<uiVars, queueVars, callerVars>>

Callers == {"lua", "mcp"}
(* "work" stands for every kind done on the spot; a tool does not wait for    *)
(* frames.  left: the frames still to wait for.                               *)
Requests(w) == [by : {w}, kind : {"work", "screenshot", "quit"}, left : {1}]
               \cup (IF w = "lua" THEN [by : {w}, kind : {"frames"}, left : 1 .. MaxFrames] ELSE {})
Kinds == {"work", "screenshot", "quit", "frames"}

At(where) == [pc |-> where, then |-> where]
(* Within a drain: of the frame, of the screenshots, of a stop.               *)
Draining == {"drain", "snap", "stopDrain"}
(* "ask": has the pointer uiCommands() gave it.  "waiting": in the timed      *)
(* wait.  "held": that ran out with the request taken, in the untimed one.    *)
Waiting(w) == pc[w] \in {"waiting", "held"}
Alive == ui.pc # "destroyed"

Init ==
    /\ ui = At("top") /\ minimized = FALSE
    /\ quitRequested = FALSE /\ closePosted = FALSE
    /\ commands = TRUE
    /\ ready = <<>> /\ queue = <<>> /\ taken = {} /\ finished = {}
    /\ pc = [w \in Callers |-> "gone"]
    /\ running = FALSE /\ calls = 0 /\ inline = FALSE

--------------------------------------------------------------------------------
(* The threads that ask: submitRequest.                                       *)

Move(w, where) == pc' = [pc EXCEPT ![w] = where]

(* The tool or the script looks for a window.  With none a script's call      *)
(* fails, and a tool's handler runs right here.                               *)
Ask(w) ==
    /\ Alive /\ pc[w] = "run"
    /\ IF w = "mcp" THEN calls > 0 ELSE commands
    /\ IF commands
       THEN Move(w, "ask") /\ UNCHANGED <<calls, inline>>
       ELSE UNCHANGED pc /\ calls' = calls - 1 /\ inline' = TRUE
    /\ UNCHANGED <<uiVars, queueVars, running>>

Submit(w, r) ==
    /\ Alive /\ pc[w] = "ask"
    /\ queue' = Append(queue, r)
    /\ Move(w, "waiting")
    /\ calls' = IF w = "mcp" THEN calls - 1 ELSE calls
    /\ UNCHANGED <<uiVars, taken, finished, running, inline>>

Answered(w) ==
    /\ Alive /\ Waiting(w) /\ w \in finished
    /\ Move(w, "run")
    /\ finished' = finished \ {w} /\ taken' = taken \ {w}
    /\ UNCHANGED <<uiVars, queue, running, calls, inline>>

NeverHeld(w) == FALSE    \* mutant: gives up on a request the UI has in hand
MustHold(w) == w \in taken
KeepQueued(w) == queue   \* mutant: the request given up on stays in the queue
Withdrawn(w) == Picked(queue, {i \in DOMAIN queue : queue[i].by # w})

(* The 20 seconds are over: a request the drain has taken is waited for, one  *)
(* still queued is withdrawn.                                                 *)
Expire(w) ==
    /\ Alive /\ pc[w] = "waiting" /\ w \notin finished
    /\ IF MustHold(w)
       THEN Move(w, "held") /\ UNCHANGED queue
       ELSE Move(w, "run") /\ queue' = Withdrawn(w)
    /\ UNCHANGED <<uiVars, taken, finished, running, calls, inline>>

(* McpServer::serve: a connection may carry a batch of calls, which stop()    *)
(* does not cut short.                                                        *)
Accept ==
    /\ Alive /\ pc["mcp"] = "accept" /\ running
    /\ Move("mcp", "run")
    /\ calls' \in 1 .. MaxCalls
    /\ UNCHANGED <<uiVars, queueVars, running, inline>>

EndConnection ==
    /\ Alive /\ pc["mcp"] = "run" /\ calls = 0
    /\ Move("mcp", IF running THEN "accept" ELSE "gone")
    /\ UNCHANGED <<uiVars, queueVars, running, calls, inline>>

RetryAccept ==    \* mutant: goes round again on a failed accept
    /\ Alive /\ pc["mcp"] = "accept"
    /\ UNCHANGED vars

(* accept() fails: stop() has closed the listener, or for its own reasons.    *)
AcceptFails ==
    /\ Alive /\ pc["mcp"] = "accept"
    /\ Move("mcp", "gone")
    /\ UNCHANGED <<uiVars, queueVars, running, calls, inline>>

EndScript ==
    /\ Alive /\ pc["lua"] = "run"
    /\ Move("lua", "gone")
    /\ UNCHANGED <<uiVars, queueVars, running, calls, inline>>

--------------------------------------------------------------------------------
(* The UI thread: drainAutomation and drainScreenshots.                       *)

(* A drain takes what it serves, leaving the rest in the queue, and marks it  *)
(* taken under the lock.                                                      *)
Take(kinds) ==
    LET mine == {i \in DOMAIN queue : queue[i].kind \in kinds} IN
    /\ ready' = Picked(queue, mine)
    /\ queue' = Picked(queue, DOMAIN queue \ mine)
    /\ taken' = taken \cup {queue[i].by : i \in mine}
    /\ UNCHANGED <<finished, minimized, quitRequested, closePosted, commands>>

LeaveUnfinished(r) == UNCHANGED finished    \* mutant: an exception skips the answer
Finish(r) == finished' = finished \cup {r.by}

StillWaits(r) == r.kind = "frames" /\ r.left > 1
RequeueLost(r) == UNCHANGED queue         \* mutant: not put back
Requeue(r) == queue' = Append(queue, [r EXCEPT !.left = @ - 1])

(* A wait for frames counts one down and goes back, no longer in hand.        *)
RunRequest ==
    /\ ui.pc \in Draining /\ ready # <<>>
    /\ LET r == Head(ready) IN
       /\ IF StillWaits(r)
          THEN /\ Requeue(r)
               /\ taken' = taken \ {r.by}
               /\ UNCHANGED finished
          ELSE Finish(r) /\ UNCHANGED <<queue, taken>>
       /\ quitRequested' = (quitRequested \/ r.kind = "quit")
    /\ ready' = Tail(ready)
    /\ UNCHANGED <<ui, minimized, closePosted, commands, callerVars>>

EndDrain ==
    /\ ui.pc \in Draining /\ ready = <<>>
    /\ ui' = IF ui.pc = "stopDrain" THEN [ui EXCEPT !.pc = "stop"] ELSE At(ui.then)
    /\ UNCHANGED <<minimized, quitRequested, closePosted, commands, ready, queueVars, callerVars>>

--------------------------------------------------------------------------------
(* The frame loop, UiApp::run and render.                                     *)

(* The message queue: the window is minimised or not, and may be closed.      *)
BeginFrame ==
    /\ ui.pc = "top"
    /\ minimized' \in BOOLEAN
    /\ \/ ~closePosted /\ ui' = At("frame")
       \/ ui' = At("leave")
    /\ UNCHANGED <<quitRequested, closePosted, commands, ready, queueVars, callerVars>>

(* Served minimised too, but then there is no frame to go on with.            *)
DrainFrame ==
    /\ ui.pc = "frame"
    /\ Take(Kinds \ {"screenshot"})
    /\ ui' = [pc |-> "drain", then |-> IF minimized THEN "top" ELSE "draw"]
    /\ UNCHANGED callerVars

(* What the user does in a frame that matters here, at most one thing.        *)
DrawFrame ==
    /\ ui.pc = "draw"
    /\ ui' = At("drawn")
    /\ UNCHANGED <<minimized, quitRequested, closePosted, commands, ready, queueVars>>
    /\ \/ UNCHANGED callerVars
       \/ pc["lua"] = "gone" /\ Move("lua", "run") /\ UNCHANGED <<running, calls, inline>>
       \/ ~running /\ running' = TRUE /\ Move("mcp", "accept") /\ UNCHANGED <<calls, inline>>

StopFromPanel ==
    /\ ui.pc = "draw" /\ running
    /\ running' = FALSE
    /\ ui' = [pc |-> "stop", then |-> "drawn"]
    /\ UNCHANGED <<minimized, quitRequested, closePosted, commands, ready, queueVars, pc, calls,
                   inline>>

TakeScreenshots ==
    /\ ui.pc = "drawn"
    /\ Take({"screenshot"})
    /\ ui' = [pc |-> "snap", then |-> "end"]
    /\ UNCHANGED callerVars

QuitSwallowed == UNCHANGED closePosted    \* mutant: the flag is reset and nothing posted
PostClose == closePosted' = (closePosted \/ quitRequested)

EndFrame ==
    /\ ui.pc = "end"
    /\ PostClose /\ quitRequested' = FALSE
    /\ ui' = At("top")
    /\ UNCHANGED <<minimized, commands, ready, queueVars, callerVars>>

--------------------------------------------------------------------------------
(* McpServer::stop, pumping the queue while it waits for the thread, and the  *)
(* window's destructor.                                                       *)

Pump ==
    /\ ui.pc = "stop" /\ pc["mcp"] # "gone"
    /\ Take(Kinds \ {"screenshot"})
    /\ ui' = [pc |-> "stopDrain", then |-> ui.then]
    /\ UNCHANGED callerVars

StopReturns ==
    /\ ui.pc = "stop" /\ pc["mcp"] = "gone"
    /\ ui' = At(ui.then)
    /\ UNCHANGED <<minimized, quitRequested, closePosted, commands, ready, queueVars, callerVars>>

Undriven == commands' = FALSE     \* mutant: the seam is cleared before the stop
StillDriven == UNCHANGED commands

(* The destructor begins.  A server never started is not waited for.          *)
LeaveLoop ==
    /\ ui.pc = "leave"
    /\ running' = FALSE
    /\ ui' = [pc |-> "stop", then |-> "uncalled"]
    /\ StillDriven
    /\ UNCHANGED <<minimized, quitRequested, closePosted, ready, queueVars, pc, calls, inline>>

ClearCommands ==
    /\ ui.pc = "uncalled"
    /\ commands' = FALSE
    /\ ui' = At("destroying")
    /\ UNCHANGED <<minimized, quitRequested, closePosted, ready, queueVars, callerVars>>

(* Then the members, the queue and its mutex before the LuaConsole, whose own *)
(* destructor is what joins the script thread.                                *)
DestroyQueue ==
    /\ ui.pc = "destroying"
    /\ ui' = At("destroyed")
    /\ UNCHANGED <<minimized, quitRequested, closePosted, commands, ready, queueVars, callerVars>>

--------------------------------------------------------------------------------
UiThread ==
    \/ RunRequest \/ EndDrain
    \/ BeginFrame \/ DrainFrame \/ DrawFrame \/ StopFromPanel \/ TakeScreenshots \/ EndFrame
    \/ Pump \/ StopReturns
    \/ LeaveLoop \/ ClearCommands \/ DestroyQueue

Asking(w) == Answered(w) \/ Expire(w)

McpThread ==
    \/ Ask("mcp") \/ \E r \in Requests("mcp") : Submit("mcp", r)
    \/ Asking("mcp")
    \/ EndConnection
    \/ ~running /\ AcceptFails

LuaThread ==
    \/ Ask("lua") \/ \E r \in Requests("lua") : Submit("lua", r)
    \/ Asking("lua")
    \/ EndScript

Next == UiThread \/ McpThread \/ Accept \/ AcceptFails \/ LuaThread

Spec == Init /\ [][Next]_vars

(* The frame loop runs, a timed wait returns, and McpServer::serve goes on    *)
(* with a connection: its sockets have timeouts of their own.  Nothing makes  *)
(* a client connect or a script stop.                                         *)
Fairness ==
    /\ WF_vars(UiThread)
    /\ WF_vars(McpThread)
    /\ WF_vars(Asking("lua"))

FairSpec == Spec /\ Fairness

--------------------------------------------------------------------------------
(* Properties                                                                 *)

RequestSet == UNION {Requests(w) : w \in Callers}
Pending == queue \o ready
Occurrences(w) == {i \in DOMAIN Pending : Pending[i].by = w}

(* Every variable keeps its type, a request lives in one place at most, and   *)
(* what is taken is what a drain has in hand or has finished.                 *)
TypeOK ==
    /\ ui.pc \in {"top", "frame", "drain", "draw", "drawn", "snap", "end", "stop", "stopDrain",
                   "leave", "uncalled", "destroying", "destroyed"}
    /\ {minimized, quitRequested, closePosted, commands, running, inline} \subseteq BOOLEAN
    /\ ToSet(Pending) \subseteq RequestSet
    /\ \A w \in Callers : Cardinality(Occurrences(w)) <= 1
    /\ pc \in [Callers -> {"gone", "accept", "run", "ask", "waiting", "held"}]
    /\ calls \in 0 .. MaxCalls
    /\ taken = finished \cup {r.by : r \in ToSet(ready)}

(* The work of a request writes into its submitter's stack frame: whatever    *)
(* the UI thread can still run has its submitter waiting in submitRequest.    *)
WorkHasCaller == \A r \in ToSet(Pending) : Waiting(r.by)

(* A caller that waits for an answer has its request in the queue or in a     *)
(* drain's hands until it is finished: it is waiting for something.           *)
RequestNeverLost ==
    \A w \in Callers : Waiting(w) /\ w \notin finished => Occurrences(w) # {}

(* While there is a window, nothing the server is asked for runs on its own   *)
(* thread: the destructor's order makes "no window" unreachable by a call.    *)
NoInlineMutation == ~inline

(* A request's caller waits for it, it is never lost, and none changes        *)
(* anything on the server's thread (UiAutomation.cpp, UiApp.cpp).             *)
RequestsKept == TypeOK /\ WorkHasCaller /\ RequestNeverLost /\ NoInlineMutation

(* A caller gets out of submitRequest, answered or timed out.  It does not    *)
(* say when; the wait that has no timeout ends too.                           *)
CallersReleased == \A w \in Callers : Waiting(w) ~> (~Waiting(w) \/ ~Alive)

(* stop() returns although the call it waits for may be waiting for the       *)
(* thread that stop() was called from.                                        *)
StopEnds == ui.pc = "stop" ~> ui.pc \notin {"stop", "stopDrain"}

(* quit() closes the window, unless it stays minimised for good: run() goes   *)
(* round its loop without looking at quitRequested_ while it is.              *)
QuitHonoured == []<>(~minimized) => (quitRequested ~> (closePosted \/ ~Alive))

(* What the destructor's comment says: by the time anything is torn down, no  *)
(* thread is in submitRequest.                                                *)
TeardownAlone == ~Alive => \A w \in Callers : pc[w] \notin {"ask", "waiting", "held"}
================================================================================
