------------------------------ MODULE RequestProofs -------------------------------
(* Proofs about the requests to the UI thread, for scripts that wait for any  *)
(* number of frames and connections that carry any number of calls, and about *)
(* the requests to the MCP server, for any set of messages and any limits;    *)
(* and about who runs what, for every tool, function and control there is and *)
(* any threads they are called from.                                          *)
EXTENDS UiRequests, Wire, Calls, Lemmas

(* What the variables are, the two sequences one by one: a caller has one     *)
(* request at most in either, and none in both.                               *)
RequestsTyped ==
    /\ ui \in [pc : {"top", "frame", "drain", "draw", "drawn", "snap", "end", "stop", "stopDrain",
                     "leave", "uncalled", "destroying", "destroyed"},
               then : {"top", "frame", "draw", "drawn", "end", "leave", "uncalled", "destroying", "destroyed"}]
    /\ minimized \in BOOLEAN /\ quitRequested \in BOOLEAN /\ closePosted \in BOOLEAN
    /\ commands \in BOOLEAN /\ running \in BOOLEAN /\ inline \in BOOLEAN
    /\ queue \in Seq(RequestSet) /\ ready \in Seq(RequestSet)
    /\ finished \subseteq Callers
    /\ pc \in [Callers -> {"gone", "accept", "run", "ask", "waiting", "held"}]
    /\ calls \in 0 .. MaxCalls

OnePlace ==
    /\ OneEach(queue) /\ OneEach(ready)
    /\ \A i \in DOMAIN queue, j \in DOMAIN ready : queue[i].by # ready[j].by
    /\ taken = finished \cup {ready[i].by : i \in DOMAIN ready}

(* What is queued, in hand or finished is what its caller waits for, and what *)
(* is finished is nowhere else.                                               *)
Awaited ==
    /\ \A i \in DOMAIN queue : Waiting(queue[i].by) /\ queue[i].by \notin finished
    /\ \A i \in DOMAIN ready : Waiting(ready[i].by) /\ ready[i].by \notin finished
    /\ \A w \in finished : Waiting(w)

(* A caller that waits finds its request in one of the three.                 *)
Found ==
    \A w \in Callers : Waiting(w) =>
        \/ w \in finished
        \/ \E i \in DOMAIN queue : queue[i].by = w
        \/ \E i \in DOMAIN ready : ready[i].by = w

(* The UI thread has requests in hand only within a drain, and outside of     *)
(* stop() a server that does not run has no thread.                           *)
Program ==
    /\ ui.pc \notin Draining => ready = <<>>
    /\ ui.pc = "drain" => ui.then \in {"top", "draw"}
    /\ ui.pc = "snap" => ui.then = "end"
    /\ ui.pc \in {"stop", "stopDrain"} => ui.then \in {"drawn", "uncalled"} /\ ~running
    /\ ui.pc \in {"uncalled", "destroying", "destroyed"} => ~running
    /\ ui.pc \notin {"stop", "stopDrain"} /\ ~running => pc["mcp"] = "gone"
    /\ pc["lua"] # "accept"
    /\ pc["mcp"] = "ask" => calls > 0
    /\ ~commands => ui.pc \in {"destroying", "destroyed"}
    /\ ~inline

RequestInv == RequestsTyped /\ OnePlace /\ Awaited /\ Found /\ Program

--------------------------------------------------------------------------------
(* The invariant is one                                                       *)

(* A request says whose it is, also when it is put back.                      *)
LEMMA RequestTyped ==
    ASSUME UiRequestsAssumption, NEW r \in RequestSet
    PROVE  /\ r.by \in Callers /\ r.kind \in Kinds
           /\ StillWaits(r) => /\ [r EXCEPT !.left = @ - 1] \in RequestSet
                               /\ [r EXCEPT !.left = @ - 1].by = r.by
<1>1. PICK w \in Callers : r \in Requests(w)
  BY DEF RequestSet
<1> DEFINE Counts == [by : {w}, kind : {"frames"}, left : 1 .. MaxFrames]
<1>2. CASE r \in [by : {w}, kind : {"work", "screenshot", "quit"}, left : {1}]
  BY <1>2 DEF Kinds, StillWaits
<1>3. CASE w = "lua" /\ r \in Counts
  <2>1. r.by = w /\ r.kind = "frames" /\ r.left \in 1 .. MaxFrames
    BY <1>3
  <2>2. StillWaits(r) => [r EXCEPT !.left = @ - 1] \in Counts /\ [r EXCEPT !.left = @ - 1].by = w
    BY <1>3, <2>1 DEF StillWaits, UiRequestsAssumption
  <2>3. Counts \subseteq RequestSet
    BY <1>3 DEF RequestSet, Requests
  <2> HIDE DEF Counts
  <2> QED BY <2>1, <2>2, <2>3 DEF Kinds
<1> QED BY <1>1, <1>2, <1>3 DEF Requests

LEMMA ByKnown ==
    ASSUME UiRequestsAssumption, NEW s \in Seq(RequestSet), NEW i \in DOMAIN s
    PROVE  s[i] \in RequestSet /\ s[i].by \in Callers /\ s[i].kind \in Kinds
<1>1. s[i] \in RequestSet
  OBVIOUS
<1> QED BY <1>1, RequestTyped

LEMMA RequestInitially == ASSUME UiRequestsAssumption PROVE Init => RequestInv
<1> SUFFICES ASSUME Init PROVE RequestInv
  OBVIOUS
<1>1. RequestsTyped
  <2>1. calls \in 0 .. MaxCalls
    BY DEF Init, UiRequestsAssumption
  <2>2. queue \in Seq(RequestSet) /\ ready \in Seq(RequestSet) /\ finished \subseteq Callers
    BY DEF Init
  <2>3. {minimized, quitRequested, closePosted, commands, running, inline} \subseteq BOOLEAN
    BY DEF Init
  <2> QED BY <2>1, <2>2, <2>3 DEF Init, RequestsTyped, At
<1>2. OnePlace /\ Awaited /\ Found
  BY DEF Init, OnePlace, OneEach, Awaited, Found, Waiting
<1>3. Program
  BY DEF Init, Program, At, Draining, Callers
<1> QED BY <1>1, <1>2, <1>3 DEF RequestInv

(* A step that moves a caller between two places neither of which waits.      *)
LEMMA MovedElsewhere ==
    ASSUME UiRequestsAssumption, RequestInv, NEW w \in Callers, NEW where \in {"gone", "accept", "run", "ask"},
           ~Waiting(w), Move(w, where), UNCHANGED <<queueVars, ready>>
    PROVE  OnePlace' /\ Awaited' /\ Found'
<1>1. \A v \in Callers : Waiting(v)' <=> Waiting(v)
  BY DEF RequestInv, RequestsTyped, Move, Waiting
<1>2. /\ \A i \in DOMAIN queue : queue[i].by \in Callers
      /\ \A i \in DOMAIN ready : ready[i].by \in Callers
  BY ByKnown DEF RequestInv, RequestsTyped
<1>3. finished \subseteq Callers
  BY DEF RequestInv, RequestsTyped
<1>4. OnePlace'
  BY DEF RequestInv, OnePlace, OneEach, queueVars
<1>5. Awaited'
  BY <1>1, <1>2, <1>3 DEF RequestInv, Awaited, queueVars
<1>6. Found'
  BY <1>1 DEF RequestInv, Found, queueVars
<1> QED BY <1>4, <1>5, <1>6

LEMMA AskKeeps ==
    ASSUME UiRequestsAssumption, RequestInv, NEW w \in Callers, Ask(w)
    PROVE  RequestInv'
<1>1. pc[w] = "run" /\ ~Waiting(w) /\ (w = "mcp" => commands)
  BY DEF Ask, RequestInv, Program, Waiting
<1>2. Move(w, "ask") /\ UNCHANGED <<uiVars, queueVars, running, calls, inline>>
  BY <1>1 DEF Ask
<1>3. RequestsTyped'
  BY <1>2 DEF RequestInv, RequestsTyped, Move, uiVars, queueVars
<1>4. OnePlace' /\ Awaited' /\ Found'
  BY <1>1, <1>2, MovedElsewhere DEF uiVars
<1>5. Program'
  BY <1>1, <1>2 DEF Ask, RequestInv, RequestsTyped, Program, Move, uiVars
<1> QED BY <1>3, <1>4, <1>5 DEF RequestInv

LEMMA SubmitKeeps ==
    ASSUME UiRequestsAssumption, RequestInv, NEW w \in Callers, NEW r \in Requests(w), Submit(w, r)
    PROVE  RequestInv'
<1>1. r \in RequestSet /\ r.by = w
  BY DEF RequestSet, Requests
<1>2. pc[w] = "ask" /\ ~Waiting(w)
  BY DEF Submit, Waiting
<1>3. /\ queue' \in Seq(RequestSet) /\ Len(queue') = Len(queue) + 1
      /\ \A i \in DOMAIN queue : i \in DOMAIN queue' /\ queue'[i] = queue[i]
      /\ \A i \in DOMAIN queue' : i \in DOMAIN queue \/ i = Len(queue) + 1
      /\ Len(queue) + 1 \in DOMAIN queue' /\ queue'[Len(queue) + 1] = r
  BY <1>1 DEF Submit, RequestInv, RequestsTyped
<1>4. /\ \A v \in Callers : Waiting(v)' <=> Waiting(v) \/ v = w
      /\ \A i \in DOMAIN queue : queue[i].by \in Callers /\ queue[i].by # w
      /\ \A i \in DOMAIN ready : ready[i].by \in Callers /\ ready[i].by # w
      /\ finished \subseteq Callers \ {w}
  <2>1. /\ \A i \in DOMAIN queue : queue[i].by \in Callers
        /\ \A i \in DOMAIN ready : ready[i].by \in Callers
    BY ByKnown DEF RequestInv, RequestsTyped
  <2>2. \A v \in Callers : Waiting(v)' <=> Waiting(v) \/ v = w
    BY <1>2 DEF Submit, Move, Waiting, RequestInv, RequestsTyped
  <2> QED BY <1>2, <2>1, <2>2 DEF RequestInv, RequestsTyped, Awaited
<1>5. UNCHANGED <<uiVars, taken, finished, running, inline>>
  BY DEF Submit
<1>6. RequestsTyped'
  <2>1. calls' \in 0 .. MaxCalls
    BY <1>2 DEF Submit, RequestInv, RequestsTyped, Program, UiRequestsAssumption
  <2> QED BY <1>3, <1>5, <2>1 DEF Submit, Move, RequestInv, RequestsTyped, uiVars
<1>7. OnePlace'
  BY <1>1, <1>3, <1>4, <1>5 DEF RequestInv, OnePlace, OneEach, uiVars
<1>8. Awaited'
  BY <1>1, <1>3, <1>4, <1>5 DEF RequestInv, Awaited, uiVars
<1>9. Found'
  BY <1>1, <1>3, <1>4, <1>5 DEF RequestInv, Found, uiVars
<1>10. Program'
  BY <1>2, <1>5 DEF Submit, Move, RequestInv, RequestsTyped, Program, uiVars
<1> QED BY <1>6, <1>7, <1>8, <1>9, <1>10 DEF RequestInv

LEMMA AnsweredKeeps ==
    ASSUME UiRequestsAssumption, RequestInv, NEW w \in Callers, Answered(w)
    PROVE  RequestInv'
<1>1. Waiting(w) /\ w \in finished /\ UNCHANGED <<uiVars, queue, running, calls, inline>>
  BY DEF Answered
<1>2. /\ \A v \in Callers : Waiting(v)' <=> Waiting(v) /\ v # w
      /\ \A i \in DOMAIN queue : queue[i].by \in Callers /\ queue[i].by # w
      /\ \A i \in DOMAIN ready : ready[i].by \in Callers /\ ready[i].by # w
  <2>1. /\ \A i \in DOMAIN queue : queue[i].by \in Callers
        /\ \A i \in DOMAIN ready : ready[i].by \in Callers
    BY ByKnown DEF RequestInv, RequestsTyped
  <2>2. \A v \in Callers : Waiting(v)' <=> Waiting(v) /\ v # w
    BY DEF Answered, Move, Waiting, RequestInv, RequestsTyped
  <2> QED BY <1>1, <2>1, <2>2 DEF RequestInv, Awaited
<1>3. RequestsTyped'
  BY <1>1 DEF Answered, Move, RequestInv, RequestsTyped, uiVars
<1>4. OnePlace'
  BY <1>1, <1>2 DEF Answered, RequestInv, OnePlace, OneEach, uiVars
<1>5. Awaited'
  BY <1>1, <1>2 DEF Answered, RequestInv, RequestsTyped, Awaited, uiVars
<1>6. Found'
  BY <1>1, <1>2 DEF Answered, RequestInv, Found, uiVars
<1>7. Program'
  BY <1>1 DEF Answered, Move, Waiting, RequestInv, RequestsTyped, Program, uiVars
<1> QED BY <1>3, <1>4, <1>5, <1>6, <1>7 DEF RequestInv

(* A request that is withdrawn is in the queue, for it is not taken.          *)
LEMMA ExpireKeeps ==
    ASSUME UiRequestsAssumption, RequestInv, NEW w \in Callers, Expire(w)
    PROVE  RequestInv'
<1>1. pc[w] = "waiting" /\ w \notin finished /\ UNCHANGED <<uiVars, taken, finished, running, calls, inline>>
  BY DEF Expire
<1>2. /\ \A i \in DOMAIN queue : queue[i].by \in Callers
      /\ \A i \in DOMAIN ready : ready[i].by \in Callers
  BY ByKnown DEF RequestInv, RequestsTyped
<1>3. CASE w \in taken
  <2>1. Move(w, "held") /\ UNCHANGED queue
    BY <1>3 DEF Expire, MustHold
  <2>2. \A v \in Callers : Waiting(v)' <=> Waiting(v)
    BY <1>1, <2>1 DEF Move, Waiting, RequestInv, RequestsTyped
  <2>3. RequestsTyped' /\ OnePlace' /\ Program'
    BY <1>1, <2>1 DEF Move, RequestInv, RequestsTyped, OnePlace, OneEach, Program, uiVars
  <2>4. Awaited' /\ Found'
    BY <1>1, <1>2, <2>1, <2>2 DEF RequestInv, RequestsTyped, Awaited, Found, uiVars
  <2> QED BY <2>3, <2>4 DEF RequestInv
<1>4. CASE w \notin taken
  <2>1. Move(w, "run") /\ queue' = Withdrawn(w)
    BY <1>4 DEF Expire, MustHold
  <2> DEFINE kept == {i \in DOMAIN queue : queue[i].by # w}
  <2>2. PICK q : q = Withdrawn(w)
    OBVIOUS
  <2>3. queue \in Seq(RequestSet) /\ kept \in SUBSET (DOMAIN queue) /\ q = Picked(queue, kept)
    BY <2>2 DEF Withdrawn, RequestInv, RequestsTyped
  <2>4. /\ q \in Seq(RequestSet) /\ OneEach(q)
        /\ \A k \in DOMAIN q : \E i \in DOMAIN queue : q[k] = queue[i] /\ queue[i].by # w
        /\ \A i \in DOMAIN queue : queue[i].by # w => \E k \in DOMAIN q : q[k] = queue[i]
    <3>1. /\ q \in Seq(RequestSet) /\ (OneEach(queue) => OneEach(q))
          /\ \A k \in DOMAIN q : \E i \in kept : q[k] = queue[i]
          /\ \A i \in kept : \E k \in DOMAIN q : q[k] = queue[i]
      <4> HIDE DEF kept
      <4> QED BY <2>3, PickedFacts DEF RequestInv, RequestsTyped
    <3> QED BY <3>1 DEF RequestInv, OnePlace
  <2>5. queue' = q
    BY <2>1, <2>2
  <2>6. \A v \in Callers : Waiting(v)' <=> Waiting(v) /\ v # w
    BY <1>1, <2>1 DEF Move, Waiting, RequestInv, RequestsTyped
  <2>7. \A i \in DOMAIN ready : ready[i].by # w
    BY <1>4 DEF RequestInv, OnePlace
  <2>8. RequestsTyped'
    BY <1>1, <2>1, <2>4, <2>5 DEF Move, RequestInv, RequestsTyped, uiVars
  <2>9. OnePlace'
    BY <1>1, <2>4, <2>5 DEF RequestInv, OnePlace, OneEach, uiVars
  <2>10. Awaited'
    BY <1>1, <1>2, <2>4, <2>5, <2>6, <2>7 DEF RequestInv, RequestsTyped, Awaited, uiVars
  <2>11. Found'
    <3> SUFFICES ASSUME NEW v \in Callers, Waiting(v), v # w, v \notin finished,
                        ~ \E i \in DOMAIN ready : ready[i].by = v
                 PROVE  \E k \in DOMAIN q : q[k].by = v
      BY <1>1, <2>5, <2>6 DEF Found, uiVars
    <3>1. PICK i \in DOMAIN queue : queue[i].by = v
      BY DEF RequestInv, Found
    <3> QED BY <2>4, <3>1
  <2>12. Program'
    BY <1>1, <2>1 DEF Move, RequestInv, RequestsTyped, Program, uiVars
  <2> QED BY <2>8, <2>9, <2>10, <2>11, <2>12 DEF RequestInv
<1> QED BY <1>3, <1>4

LEMMA ServerKeeps ==
    ASSUME UiRequestsAssumption, RequestInv, Accept \/ EndConnection \/ AcceptFails \/ EndScript
    PROVE  RequestInv'
<1>1. PICK w \in Callers, where \in {"gone", "accept", "run"} :
          pc[w] \in {"accept", "run"} /\ Move(w, where)
  BY DEF Accept, EndConnection, AcceptFails, EndScript, Callers
<1>2. UNCHANGED <<uiVars, queueVars, running, inline>> /\ calls' \in 0 .. MaxCalls
  BY DEF Accept, EndConnection, AcceptFails, EndScript, RequestInv, RequestsTyped, UiRequestsAssumption
<1>3. OnePlace' /\ Awaited' /\ Found'
  BY <1>1, <1>2, MovedElsewhere DEF Waiting, uiVars
<1>4. RequestsTyped'
  BY <1>1, <1>2 DEF Move, RequestInv, RequestsTyped, uiVars, queueVars
<1>5. Program'
  BY <1>2 DEF Accept, EndConnection, AcceptFails, EndScript, Move, RequestInv, RequestsTyped, Program,
              uiVars, Callers
<1> QED BY <1>3, <1>4, <1>5 DEF RequestInv

(* A drain sorts the queue in two, and what it takes is marked so at once.    *)
LEMMA TakeKeeps ==
    ASSUME UiRequestsAssumption, RequestInv, ready = <<>>, NEW kinds, Take(kinds), UNCHANGED callerVars
    PROVE  queue' \in Seq(RequestSet) /\ ready' \in Seq(RequestSet) /\ OnePlace' /\ Awaited' /\ Found'
<1> DEFINE mine == {i \in DOMAIN queue : queue[i].kind \in kinds}
           others == DOMAIN queue \ mine
<1>1. PICK q, r : q = Picked(queue, others) /\ r = Picked(queue, mine)
  OBVIOUS
<1>2. queue' = q /\ ready' = r /\ taken' = taken \cup {queue[i].by : i \in mine} /\ UNCHANGED finished
  BY <1>1 DEF Take
<1>3. mine \in SUBSET (DOMAIN queue) /\ others \in SUBSET (DOMAIN queue) /\ mine \cap others = {}
      /\ mine \cup others = DOMAIN queue /\ queue \in Seq(RequestSet)
  BY DEF RequestInv, RequestsTyped
<1>4. \A v \in Callers : Waiting(v)' <=> Waiting(v)
  BY DEF callerVars, Waiting
<1>5. /\ OneEach(queue) /\ taken = finished
      /\ \A i \in DOMAIN queue : queue[i].by \in Callers /\ Waiting(queue[i].by) /\ queue[i].by \notin finished
      /\ \A w \in finished : w \in Callers /\ Waiting(w)
      /\ \A w \in Callers : Waiting(w) => w \in finished \/ \E i \in DOMAIN queue : queue[i].by = w
  BY ByKnown DEF RequestInv, RequestsTyped, OnePlace, Awaited, Found
<1> HIDE DEF mine, others
<1>6. /\ q \in Seq(RequestSet) /\ OneEach(q)
      /\ \A k \in DOMAIN q : \E i \in others : q[k] = queue[i]
      /\ \A i \in others : \E k \in DOMAIN q : q[k] = queue[i]
  BY <1>1, <1>3, <1>5, PickedFacts
<1>7. /\ r \in Seq(RequestSet) /\ OneEach(r)
      /\ \A k \in DOMAIN r : \E i \in mine : r[k] = queue[i]
      /\ \A i \in mine : \E k \in DOMAIN r : r[k] = queue[i]
  BY <1>1, <1>3, <1>5, PickedFacts
<1>8. \A k \in DOMAIN q, l \in DOMAIN r : q[k].by # r[l].by
  <2> SUFFICES ASSUME NEW k \in DOMAIN q, NEW l \in DOMAIN r, q[k].by = r[l].by
               PROVE  FALSE
    OBVIOUS
  <2>1. PICK i \in others : q[k] = queue[i]
    BY <1>6
  <2>2. PICK j \in mine : r[l] = queue[j]
    BY <1>7
  <2>3. i = j
    BY <1>3, <1>5, <2>1, <2>2 DEF OneEach
  <2> QED BY <1>3, <2>1, <2>2, <2>3
<1>9. {queue[i].by : i \in mine} = {r[l].by : l \in DOMAIN r}
  BY <1>7
<1>10. OnePlace'
  BY <1>2, <1>5, <1>6, <1>7, <1>8, <1>9 DEF OnePlace, OneEach
<1>11. Awaited'
  <2>1. \A k \in DOMAIN q : q[k].by \in Callers /\ Waiting(q[k].by) /\ q[k].by \notin finished
    BY <1>3, <1>5, <1>6
  <2>2. \A k \in DOMAIN r : r[k].by \in Callers /\ Waiting(r[k].by) /\ r[k].by \notin finished
    BY <1>3, <1>5, <1>7
  <2> QED BY <1>2, <1>4, <1>5, <2>1, <2>2 DEF Awaited
<1>12. Found'
  <2> SUFFICES ASSUME NEW w \in Callers, Waiting(w), w \notin finished
               PROVE  (\E k \in DOMAIN q : q[k].by = w) \/ \E k \in DOMAIN r : r[k].by = w
    BY <1>2, <1>4 DEF Found
  <2>1. PICK i \in DOMAIN queue : queue[i].by = w
    BY <1>5
  <2> QED BY <1>3, <1>6, <1>7, <2>1
<1> QED BY <1>2, <1>6, <1>7, <1>10, <1>11, <1>12

LEMMA DrainBegins ==
    ASSUME UiRequestsAssumption, RequestInv, DrainFrame \/ TakeScreenshots \/ Pump
    PROVE  RequestInv'
<1>1. PICK kinds : Take(kinds)
  BY DEF DrainFrame, TakeScreenshots, Pump
<1>2. UNCHANGED callerVars /\ ready = <<>>
  BY DEF DrainFrame, TakeScreenshots, Pump, RequestInv, Program, Draining
<1>3. queue' \in Seq(RequestSet) /\ ready' \in Seq(RequestSet) /\ OnePlace' /\ Awaited' /\ Found'
  BY <1>1, <1>2, TakeKeeps
<1>4. UNCHANGED <<finished, minimized, quitRequested, closePosted, commands>>
  BY <1>1 DEF Take
<1>5. RequestsTyped'
  <2>1. ui' \in [pc : {"drain", "snap", "stopDrain"}, then : {"top", "draw", "end", "drawn", "uncalled"}]
    BY DEF DrainFrame, TakeScreenshots, Pump, RequestInv, RequestsTyped, Program
  <2> QED BY <1>2, <1>3, <1>4, <2>1 DEF RequestInv, RequestsTyped, callerVars
<1>6. Program'
  <2>1. CASE DrainFrame
    BY <1>2, <1>4, <2>1 DEF DrainFrame, RequestInv, Program, Draining, callerVars
  <2>2. CASE TakeScreenshots
    BY <1>2, <1>4, <2>2 DEF TakeScreenshots, RequestInv, Program, Draining, callerVars
  <2>3. CASE Pump
    BY <1>2, <1>4, <2>3 DEF Pump, RequestInv, Program, Draining, callerVars
  <2> QED BY <2>1, <2>2, <2>3
<1> QED BY <1>3, <1>5, <1>6 DEF RequestInv

(* A request that is run leaves the drain's hands: put back for another       *)
(* frame, or finished.                                                        *)
LEMMA RunKeeps ==
    ASSUME UiRequestsAssumption, RequestInv, RunRequest
    PROVE  RequestInv'
<1>1. PICK r : r = Head(ready)
  OBVIOUS
<1>2. /\ ui.pc \in Draining /\ ready # <<>> /\ ready' = Tail(ready)
      /\ UNCHANGED <<ui, minimized, closePosted, commands, callerVars>>
      /\ quitRequested' = (quitRequested \/ r.kind = "quit")
  BY <1>1 DEF RunRequest
<1>3. /\ ready \in Seq(RequestSet) /\ Len(ready) \in Nat /\ 1 \in DOMAIN ready /\ r = ready[1]
      /\ ready' \in Seq(RequestSet) /\ Len(ready') = Len(ready) - 1
      /\ \A k \in DOMAIN ready' : k + 1 \in DOMAIN ready /\ k + 1 # 1 /\ ready'[k] = ready[k + 1]
      /\ \A k \in DOMAIN ready : k = 1 \/ (k - 1 \in DOMAIN ready' /\ ready'[k - 1] = ready[k])
  <2>1. ready \in Seq(RequestSet)
    BY DEF RequestInv, RequestsTyped
  <2>2. PICK rest : rest = Tail(ready)
    OBVIOUS
  <2>3. /\ rest \in Seq(RequestSet) /\ Len(rest) = Len(ready) - 1 /\ Len(ready) \in Nat \ {0}
        /\ DOMAIN rest = 1 .. Len(rest) /\ DOMAIN ready = 1 .. Len(ready) /\ r = ready[1]
        /\ \A k \in 1 .. Len(rest) : rest[k] = ready[k + 1]
    BY <1>1, <1>2, <2>1, <2>2
  <2> QED BY <1>2, <2>1, <2>2, <2>3
<1>4. r \in RequestSet /\ r.by \in Callers /\ Waiting(r.by) /\ r.by \notin finished
  BY <1>3, ByKnown DEF RequestInv, Awaited
<1>5. /\ OneEach(ready') /\ \A k \in DOMAIN ready' : ready'[k].by # r.by
      /\ {ready[k].by : k \in DOMAIN ready} = {r.by} \cup {ready'[k].by : k \in DOMAIN ready'}
  <2>1. OneEach(ready)
    BY DEF RequestInv, OnePlace
  <2>2. \A k \in DOMAIN ready' : ready'[k].by # r.by
    BY <1>3, <2>1 DEF OneEach
  <2>3. OneEach(ready')
    <3> SUFFICES ASSUME NEW k \in DOMAIN ready', NEW l \in DOMAIN ready', ready'[k].by = ready'[l].by
                 PROVE  k = l
      BY DEF OneEach
    <3>1. k + 1 = l + 1
      BY <1>3, <2>1 DEF OneEach
    <3>2. k \in Int /\ l \in Int
      BY <1>3
    <3> QED BY <3>1, <3>2
  <2>4. {ready[k].by : k \in DOMAIN ready} = {r.by} \cup {ready'[k].by : k \in DOMAIN ready'}
    BY <1>3
  <2> QED BY <2>2, <2>3, <2>4
<1>6. \A v \in Callers : Waiting(v)' <=> Waiting(v)
  BY <1>2 DEF callerVars, Waiting
<1>7. /\ \A i \in DOMAIN queue : queue[i].by \in Callers /\ queue[i].by # r.by
      /\ \A k \in DOMAIN ready' : ready'[k].by \in Callers
      /\ finished \subseteq Callers
  BY <1>3, ByKnown DEF RequestInv, RequestsTyped, OnePlace
<1>8. Program'
  <2>1. inline' = inline /\ pc' = pc /\ running' = running /\ calls' = calls
    BY <1>2 DEF callerVars
  <2> QED BY <1>2, <2>1 DEF RequestInv, Program
<1>9. quitRequested' \in BOOLEAN
  BY <1>2 DEF RequestInv, RequestsTyped
<1>10. CASE StillWaits(r)
  <2> DEFINE again == [r EXCEPT !.left = @ - 1]
  <2>1. queue' = Append(queue, again) /\ taken' = taken \ {r.by} /\ UNCHANGED finished
    BY <1>1, <1>10 DEF RunRequest, Requeue
  <2>2. again \in RequestSet /\ again.by = r.by
    BY <1>4, <1>10, RequestTyped
  <2> HIDE DEF again
  <2>3. /\ queue' \in Seq(RequestSet) /\ Len(queue') = Len(queue) + 1
        /\ \A i \in DOMAIN queue : i \in DOMAIN queue' /\ queue'[i] = queue[i]
        /\ \A i \in DOMAIN queue' : i \in DOMAIN queue \/ i = Len(queue) + 1
        /\ Len(queue) + 1 \in DOMAIN queue' /\ queue'[Len(queue) + 1] = again
    BY <2>1, <2>2 DEF RequestInv, RequestsTyped
  <2>4. RequestsTyped'
    BY <1>2, <1>3, <1>9, <2>1, <2>3 DEF RequestInv, RequestsTyped, callerVars
  <2>5. OnePlace'
    <3>1. OneEach(queue')
      BY <1>7, <2>2, <2>3 DEF RequestInv, OnePlace, OneEach
    <3>2. \A i \in DOMAIN queue', k \in DOMAIN ready' : queue'[i].by # ready'[k].by
      <4> SUFFICES ASSUME NEW i \in DOMAIN queue', NEW k \in DOMAIN ready'
                   PROVE  queue'[i].by # ready'[k].by
        OBVIOUS
      <4>1. CASE i \in DOMAIN queue
        BY <1>3, <2>3, <4>1 DEF RequestInv, OnePlace
      <4>2. CASE i = Len(queue) + 1
        BY <1>5, <2>2, <2>3, <4>2
      <4> QED BY <2>3, <4>1, <4>2
    <3>3. taken' = finished' \cup {ready'[k].by : k \in DOMAIN ready'}
      BY <1>4, <1>5, <2>1 DEF RequestInv, OnePlace
    <3> QED BY <1>5, <3>1, <3>2, <3>3 DEF OnePlace
  <2>6. Awaited'
    BY <1>3, <1>4, <1>6, <1>7, <2>1, <2>2, <2>3 DEF RequestInv, Awaited
  <2>7. Found'
    <3> SUFFICES ASSUME NEW w \in Callers, Waiting(w), w \notin finished
                 PROVE  (\E i \in DOMAIN queue' : queue'[i].by = w) \/ \E k \in DOMAIN ready' : ready'[k].by = w
      BY <1>6, <2>1 DEF Found
    <3>1. CASE \E i \in DOMAIN queue : queue[i].by = w
      BY <2>3, <3>1
    <3>2. CASE \E i \in DOMAIN ready : ready[i].by = w
      BY <1>3, <2>2, <2>3, <3>2
    <3> QED BY <3>1, <3>2 DEF RequestInv, Found
  <2> QED BY <1>8, <2>4, <2>5, <2>6, <2>7 DEF RequestInv
<1>11. CASE ~StillWaits(r)
  <2>1. finished' = finished \cup {r.by} /\ UNCHANGED <<queue, taken>>
    BY <1>1, <1>11 DEF RunRequest, Finish
  <2>2. RequestsTyped'
    BY <1>2, <1>3, <1>4, <1>9, <2>1 DEF RequestInv, RequestsTyped, callerVars
  <2>3. OnePlace'
    <3>1. taken' = finished' \cup {ready'[k].by : k \in DOMAIN ready'}
      BY <1>5, <2>1 DEF RequestInv, OnePlace
    <3>2. \A i \in DOMAIN queue', k \in DOMAIN ready' : queue'[i].by # ready'[k].by
      BY <1>3, <2>1 DEF RequestInv, OnePlace
    <3>3. OneEach(queue')
      BY <2>1 DEF RequestInv, OnePlace, OneEach
    <3> QED BY <1>5, <3>1, <3>2, <3>3 DEF OnePlace
  <2>4. Awaited'
    BY <1>3, <1>4, <1>5, <1>6, <1>7, <2>1 DEF RequestInv, Awaited
  <2>5. Found'
    <3> SUFFICES ASSUME NEW w \in Callers, Waiting(w), w \notin finished, w # r.by
                 PROVE  (\E i \in DOMAIN queue : queue[i].by = w) \/ \E k \in DOMAIN ready' : ready'[k].by = w
      BY <1>6, <2>1 DEF Found
    <3>1. CASE \E i \in DOMAIN ready : ready[i].by = w
      BY <1>3, <3>1
    <3> QED BY <3>1 DEF RequestInv, Found
  <2> QED BY <1>8, <2>2, <2>3, <2>4, <2>5 DEF RequestInv
<1> QED BY <1>10, <1>11

(* The rest of the UI thread's program leaves the requests alone; from a      *)
(* frame a script or the server is started, which have no thread then.        *)
LEMMA FrameKeeps ==
    ASSUME UiRequestsAssumption, RequestInv,
           \/ EndDrain \/ BeginFrame \/ DrawFrame \/ StopFromPanel \/ EndFrame
           \/ StopReturns \/ LeaveLoop \/ ClearCommands \/ DestroyQueue
    PROVE  RequestInv'
<1>1. UNCHANGED <<queueVars, ready, inline>> /\ calls' = calls
  BY DEF EndDrain, BeginFrame, DrawFrame, StopFromPanel, EndFrame, StopReturns, LeaveLoop, ClearCommands,
         DestroyQueue, Move, callerVars
<1>2. OnePlace' /\ Awaited' /\ Found'
  <2>1. CASE UNCHANGED pc
    <3>1. \A v : Waiting(v)' <=> Waiting(v)
      BY <2>1 DEF Waiting
    <3> QED BY <1>1, <3>1 DEF RequestInv, OnePlace, OneEach, Awaited, Found, queueVars
  <2>2. CASE DrawFrame
    <3>1. CASE UNCHANGED callerVars
      BY <2>1, <3>1 DEF callerVars
    <3>2. CASE pc["lua"] = "gone" /\ Move("lua", "run")
      BY <1>1, <3>2, MovedElsewhere DEF Waiting, Callers
    <3>3. CASE ~running /\ Move("mcp", "accept")
      <4>1. pc["mcp"] = "gone"
        BY <2>2, <3>3 DEF DrawFrame, RequestInv, Program
      <4> QED BY <1>1, <3>3, <4>1, MovedElsewhere DEF Waiting, Callers
    <3> QED BY <2>2, <3>1, <3>2, <3>3 DEF DrawFrame
  <2> QED BY <2>1, <2>2 DEF EndDrain, BeginFrame, StopFromPanel, EndFrame, StopReturns, LeaveLoop,
                            ClearCommands, DestroyQueue, callerVars
<1>3. CASE EndDrain
  BY <1>1, <1>2, <1>3 DEF EndDrain, At, Draining, RequestInv, RequestsTyped, Program, callerVars, queueVars
<1>4. CASE BeginFrame
  BY <1>1, <1>2, <1>4 DEF BeginFrame, At, Draining, RequestInv, RequestsTyped, Program, callerVars, queueVars
<1>5. CASE DrawFrame
  <2>1. ui.pc = "draw" /\ ui' = At("drawn") /\ UNCHANGED <<minimized, quitRequested, closePosted, commands, ready, queueVars>>
    BY <1>5 DEF DrawFrame
  <2>2. CASE UNCHANGED callerVars
    BY <1>1, <1>2, <2>1, <2>2 DEF At, Draining, RequestInv, RequestsTyped, Program, callerVars, queueVars
  <2>3. CASE pc["lua"] = "gone" /\ Move("lua", "run") /\ UNCHANGED running
    BY <1>1, <1>2, <2>1, <2>3 DEF At, Move, Callers, Draining, RequestInv, RequestsTyped, Program, queueVars
  <2>4. CASE ~running /\ running' = TRUE /\ Move("mcp", "accept")
    BY <1>1, <1>2, <2>1, <2>4 DEF At, Move, Callers, Draining, RequestInv, RequestsTyped, Program, queueVars
  <2> QED BY <1>5, <2>2, <2>3, <2>4 DEF DrawFrame
<1>6. CASE StopFromPanel
  <2>1. RequestsTyped'
    BY <1>1, <1>6 DEF StopFromPanel, RequestInv, RequestsTyped, queueVars
  <2>2. Program'
    BY <1>1, <1>6 DEF StopFromPanel, Draining, RequestInv, Program
  <2> QED BY <1>2, <2>1, <2>2 DEF RequestInv
<1>7. CASE EndFrame
  <2>0. closePosted' \in BOOLEAN
    BY <1>7 DEF EndFrame, PostClose, RequestInv, RequestsTyped
  <2>1. RequestsTyped'
    BY <1>1, <2>0, <1>7 DEF EndFrame, At, callerVars, RequestInv, RequestsTyped, queueVars
  <2>2. Program'
    BY <1>1, <1>7 DEF EndFrame, At, callerVars, Draining, RequestInv, Program
  <2> QED BY <1>2, <2>1, <2>2 DEF RequestInv
<1>8. CASE StopReturns
  <2>1. RequestsTyped'
    BY <1>1, <1>8 DEF StopReturns, At, callerVars, RequestInv, RequestsTyped, queueVars
  <2>2. Program'
    BY <1>1, <1>8 DEF StopReturns, At, callerVars, Draining, RequestInv, Program
  <2> QED BY <1>2, <2>1, <2>2 DEF RequestInv
<1>9. CASE LeaveLoop
  <2>1. RequestsTyped'
    BY <1>1, <1>9 DEF LeaveLoop, StillDriven, RequestInv, RequestsTyped, queueVars
  <2>2. Program'
    BY <1>1, <1>9 DEF LeaveLoop, StillDriven, Draining, RequestInv, Program
  <2> QED BY <1>2, <2>1, <2>2 DEF RequestInv
<1>10. CASE ClearCommands
  <2>1. RequestsTyped'
    BY <1>1, <1>10 DEF ClearCommands, At, callerVars, RequestInv, RequestsTyped, queueVars
  <2>2. Program'
    BY <1>1, <1>10 DEF ClearCommands, At, callerVars, Draining, RequestInv, Program
  <2> QED BY <1>2, <2>1, <2>2 DEF RequestInv
<1>11. CASE DestroyQueue
  BY <1>1, <1>2, <1>11 DEF DestroyQueue, At, Draining, RequestInv, RequestsTyped, Program, callerVars, queueVars
<1> QED BY <1>3, <1>4, <1>5, <1>6, <1>7, <1>8, <1>9, <1>10, <1>11

LEMMA RequestStep == ASSUME UiRequestsAssumption PROVE RequestInv /\ [Next]_vars => RequestInv'
<1> SUFFICES ASSUME RequestInv, [Next]_vars
             PROVE  RequestInv'
  OBVIOUS
<1>1. CASE UNCHANGED vars
  <2>1. UNCHANGED <<ui, minimized, quitRequested, closePosted, commands, ready, queue, taken, finished>>
        /\ UNCHANGED <<pc, running, calls, inline>>
    BY <1>1 DEF vars, uiVars, queueVars, callerVars
  <2> QED BY <2>1 DEF RequestInv, RequestsTyped, OnePlace, OneEach, Awaited, Found, Program, Waiting
<1>2. CASE UiThread
  BY <1>2, RunKeeps, DrainBegins, FrameKeeps DEF UiThread
<1>3. CASE McpThread \/ Accept \/ AcceptFails
  <2>1. "mcp" \in Callers
    BY DEF Callers
  <2> QED BY <1>3, <2>1, AskKeeps, SubmitKeeps, AnsweredKeeps, ExpireKeeps, ServerKeeps DEF McpThread, Asking
<1>4. CASE LuaThread
  <2>1. "lua" \in Callers
    BY DEF Callers
  <2> QED BY <1>4, <2>1, AskKeeps, SubmitKeeps, AnsweredKeeps, ExpireKeeps, ServerKeeps DEF LuaThread, Asking
<1> QED BY <1>1, <1>2, <1>3, <1>4 DEF Next

--------------------------------------------------------------------------------
(* What the invariant comes to                                                *)

(* The two sequences one after the other, as the properties have them.        *)
LEMMA PendingFacts ==
    ASSUME RequestInv
    PROVE  /\ Pending \in Seq(RequestSet) /\ OneEach(Pending)
           /\ \A i \in DOMAIN Pending : \/ \E k \in DOMAIN queue : Pending[i] = queue[k]
                                        \/ \E k \in DOMAIN ready : Pending[i] = ready[k]
           /\ \A k \in DOMAIN queue : \E i \in DOMAIN Pending : Pending[i] = queue[k]
           /\ \A k \in DOMAIN ready : \E i \in DOMAIN Pending : Pending[i] = ready[k]
<1>1. queue \in Seq(RequestSet) /\ ready \in Seq(RequestSet)
  BY DEF RequestInv, RequestsTyped
<1>2. PICK m, n \in Nat : m = Len(queue) /\ n = Len(ready)
  BY <1>1
<1>3. /\ Pending \in Seq(RequestSet) /\ DOMAIN Pending = 1 .. m + n
      /\ DOMAIN queue = 1 .. m /\ DOMAIN ready = 1 .. n
      /\ \A i \in 1 .. m : Pending[i] = queue[i]
      /\ \A i \in m + 1 .. m + n : i - m \in 1 .. n /\ Pending[i] = ready[i - m]
  BY <1>1, <1>2 DEF Pending
<1>4. \A i \in 1 .. m + n : i \in 1 .. m \/ i \in m + 1 .. m + n
  BY <1>2
<1>5. \A k \in 1 .. n : m + k \in m + 1 .. m + n /\ m + k \in 1 .. m + n /\ Pending[m + k] = ready[k]
  <2> SUFFICES ASSUME NEW k \in 1 .. n
               PROVE  m + k \in m + 1 .. m + n /\ m + k \in 1 .. m + n /\ Pending[m + k] = ready[k]
    OBVIOUS
  <2>1. m + k \in m + 1 .. m + n /\ m + k \in 1 .. m + n /\ (m + k) - m = k
    BY <1>2
  <2> QED BY <1>3, <2>1
<1>6. OneEach(Pending)
  <2> SUFFICES ASSUME NEW i \in DOMAIN Pending, NEW j \in DOMAIN Pending, Pending[i].by = Pending[j].by
               PROVE  i = j
    BY DEF OneEach
  <2>1. OneEach(queue) /\ OneEach(ready) /\ \A k \in DOMAIN queue, l \in DOMAIN ready : queue[k].by # ready[l].by
    BY DEF RequestInv, OnePlace
  <2>2. CASE i \in 1 .. m /\ j \in 1 .. m
    BY <1>3, <2>1, <2>2 DEF OneEach
  <2>3. CASE i \in m + 1 .. m + n /\ j \in m + 1 .. m + n
    <3>1. PICK k, l \in 1 .. n : k = i - m /\ l = j - m
      BY <1>3, <2>3
    <3>2. ready[k].by = ready[l].by
      BY <1>3, <2>3, <3>1
    <3>3. k = l
      BY <1>3, <2>1, <3>2 DEF OneEach
    <3> QED BY <1>2, <2>3, <3>1, <3>3
  <2>4. CASE i \in 1 .. m /\ j \in m + 1 .. m + n
    BY <1>3, <2>1, <2>4
  <2>5. CASE i \in m + 1 .. m + n /\ j \in 1 .. m
    BY <1>3, <2>1, <2>5
  <2> QED BY <1>3, <1>4, <2>2, <2>3, <2>4, <2>5
<1>7. \A i \in 1 .. m + n : \/ \E k \in 1 .. m : Pending[i] = queue[k]
                           \/ \E k \in 1 .. n : Pending[i] = ready[k]
  BY <1>3, <1>4
<1>8. \A k \in 1 .. m : k \in 1 .. m + n /\ Pending[k] = queue[k]
  BY <1>2, <1>3
<1>9. \A k \in 1 .. n : \E i \in 1 .. m + n : Pending[i] = ready[k]
  BY <1>5
<1> QED BY <1>3, <1>6, <1>7, <1>8, <1>9

LEMMA InvariantKeeps == ASSUME UiRequestsAssumption PROVE RequestInv => RequestsKept
<1> SUFFICES ASSUME RequestInv
             PROVE  RequestsKept
  OBVIOUS
<1>1. PICK p : p = Pending
  OBVIOUS
<1>2. /\ p \in Seq(RequestSet) /\ OneEach(p)
      /\ \A i \in DOMAIN p : \/ \E k \in DOMAIN queue : p[i] = queue[k]
                             \/ \E k \in DOMAIN ready : p[i] = ready[k]
      /\ \A k \in DOMAIN queue : \E i \in DOMAIN p : p[i] = queue[k]
      /\ \A k \in DOMAIN ready : \E i \in DOMAIN p : p[i] = ready[k]
  BY <1>1, PendingFacts
<1>3. WorkHasCaller
  BY <1>1, <1>2 DEF WorkHasCaller, ToSet, RequestInv, Awaited
<1>4. RequestNeverLost
  <2> SUFFICES ASSUME NEW w \in Callers, Waiting(w), w \notin finished
               PROVE  \E i \in DOMAIN p : p[i].by = w
    BY <1>1 DEF RequestNeverLost, Occurrences
  <2> QED BY <1>2 DEF RequestInv, Found
<1>5. \A w \in Callers : Cardinality(Occurrences(w)) <= 1
  <2> SUFFICES ASSUME NEW w \in Callers
               PROVE  Cardinality(Occurrences(w)) <= 1
    OBVIOUS
  <2>1. Occurrences(w) = {} \/ \E i : Occurrences(w) = {i}
    <3>1. \A i, j \in Occurrences(w) : i = j
      BY <1>1, <1>2 DEF Occurrences, OneEach
    <3>2. \A i \in Occurrences(w) : Occurrences(w) = {i}
      BY <3>1
    <3> QED BY <3>2
  <2>2. CASE Occurrences(w) = {}
    <3>1. Cardinality(Occurrences(w)) = 0
      BY <2>2, FS_EmptySet
    <3> QED BY <3>1
  <2>3. CASE \E i : Occurrences(w) = {i}
    <3>1. Cardinality(Occurrences(w)) = 1
      BY <2>3, FS_Singleton
    <3> QED BY <3>1
  <2> QED BY <2>1, <2>2, <2>3
<1>6. TypeOK
  <2>1. ToSet(Pending) \subseteq RequestSet
    BY <1>1, <1>2 DEF ToSet
  <2>2. taken = finished \cup {r.by : r \in ToSet(ready)}
    BY DEF RequestInv, OnePlace, ToSet
  <2> QED BY <1>5, <2>1, <2>2 DEF TypeOK, RequestInv, RequestsTyped
<1> QED BY <1>3, <1>4, <1>6 DEF RequestsKept, NoInlineMutation, RequestInv, Program

(* Whatever the drains, the time-outs, the stop() of the server and the       *)
(* closing of the window do between each other's critical sections            *)
(* (UiAutomation.cpp, McpServer.cpp, UiApp.cpp): a request that can still run *)
(* has its caller waiting for it, a caller that waits has a request that can  *)
(* still be answered, each is in one place at most, and no tool that changes  *)
(* something runs on the server's thread.                                     *)
THEOREM RequestsAlwaysKept == ASSUME UiRequestsAssumption PROVE Spec => []RequestsKept
<1>1. Init => RequestInv
  BY RequestInitially
<1>2. RequestInv /\ [Next]_vars => RequestInv'
  BY RequestStep
<1>3. RequestInv => RequestsKept
  BY InvariantKeeps
<1> QED BY <1>1, <1>2, <1>3, PTL DEF Spec

--------------------------------------------------------------------------------
(* The wire                                                                   *)

(* What the variables are; a request stays for as long as its connection, and *)
(* the server is not stopped under it.                                        *)
WireTyped ==
    /\ token \in Nat /\ sessions \in Nat /\ received \in Nat /\ entry \in Nat /\ reply \in Nat
    /\ conn # "none" => request \in MessageTypes
    /\ conn \in {"none", "reading", "serving", "closing", "terminated"}
    /\ answers \in Seq(Replies) /\ ran \in Seq(Nat)
    /\ token = 0 => conn = "none"

(* A request that is being read has been given nothing; one that is served is *)
(* whole and has passed every check, and what has been answered and run are   *)
(* the entries so far that are to be.                                         *)
Untouched == conn = "reading" => entry = 0 /\ answers = <<>> /\ ran = <<>>
SoFar ==
    conn = "serving" =>
      /\ Parse(request, received) = Complete /\ Checked = 200
      /\ entry <= Len(Content.entries)
      /\ OnceEach(RepliedTo, Owed(entry))
      /\ OnceEach(ran, Calling(entry))
WireInv == WireTyped /\ Untouched /\ SoFar /\ WireAnswers

(* The sequence of positions grows by one that is after all of them.          *)
LEMMA OneMore ==
  ASSUME NEW s, s \in Seq(Nat), NEW W, NEW n \in Nat, OnceEach(s, W), \A w \in W : w <= n
  PROVE  OnceEach(Append(s, n + 1), W \cup {n + 1})
<1> DEFINE t == Append(s, n + 1)
<1>1. Len(s) \in Nat /\ DOMAIN s = 1 .. Len(s) /\ DOMAIN t = 1 .. Len(s) + 1
  OBVIOUS
<1>2. \A i \in DOMAIN s : t[i] = s[i] /\ s[i] \in Nat /\ s[i] <= n
  BY <1>1 DEF OnceEach
<1>3. t[Len(s) + 1] = n + 1
  BY <1>1
<1>4. \A i, j \in DOMAIN t : i < j => t[i] < t[j]
  <2> SUFFICES ASSUME NEW i \in DOMAIN t, NEW j \in DOMAIN t, i < j PROVE t[i] < t[j]
    OBVIOUS
  <2>1. i \in DOMAIN s
    BY <1>1
  <2>2. CASE j = Len(s) + 1
    BY <1>2, <1>3, <2>1, <2>2
  <2>3. CASE j \in DOMAIN s
    BY <1>2, <2>1, <2>3 DEF OnceEach
  <2> QED BY <1>1, <2>2, <2>3
<1>5. {t[i] : i \in DOMAIN t} = {s[i] : i \in DOMAIN s} \cup {n + 1}
  BY <1>1, <1>2, <1>3
<1> QED BY <1>4, <1>5 DEF OnceEach

(* Positions do not depend on what each was answered.                         *)
LEMMA AnsweredMore ==
  ASSUME NEW s \in Seq(Replies), NEW r \in Replies
  PROVE  /\ [i \in DOMAIN s |-> s[i].to] \in Seq(Nat)
         /\ [i \in DOMAIN Append(s, r) |-> Append(s, r)[i].to] = Append([i \in DOMAIN s |-> s[i].to], r.to)
<1> DEFINE t == Append(s, r)
           p == [i \in DOMAIN s |-> s[i].to]
           q == [i \in DOMAIN t |-> t[i].to]
<1>1. Len(s) \in Nat /\ DOMAIN s = 1 .. Len(s) /\ DOMAIN t = 1 .. Len(s) + 1
  OBVIOUS
<1>2. \A c \in Replies : c.to \in Nat
  BY DEF Replies
<1>3. p \in Seq(Nat) /\ Len(p) = Len(s)
  BY <1>1, <1>2
<1>4. \A i \in 1 .. Len(s) + 1 : q[i] = Append(p, r.to)[i]
  BY <1>1, <1>2, <1>3
<1>5. q = [i \in 1 .. Len(s) + 1 |-> q[i]]
  BY <1>1
<1>6. Append(p, r.to) = [i \in 1 .. Len(s) + 1 |-> Append(p, r.to)[i]]
  BY <1>2, <1>3
<1>7. q = Append(p, r.to)
  BY <1>4, <1>5, <1>6
<1> QED BY <1>3, <1>7

(* One entry more is asking, or calling, or is not.                           *)
LEMMA PositionsGrow ==
  ASSUME WireTyped, entry < Len(Content.entries), NEW e, e = Content.entries[entry + 1]
  PROVE  /\ Owed(entry + 1) = IF Asks(e) THEN Owed(entry) \cup {entry + 1} ELSE Owed(entry)
         /\ Calling(entry + 1) = IF RunsTool(e) THEN Calling(entry) \cup {entry + 1} ELSE Calling(entry)
         /\ \A w \in Owed(entry) \cup Calling(entry) : w <= entry
<1>1. entry \in Nat /\ 1 .. entry + 1 = (1 .. entry) \cup {entry + 1}
  BY DEF WireTyped
<1>2. \A w \in 1 .. entry : w <= entry
  BY <1>1
<1> QED BY <1>1, <1>2 DEF Owed, Calling

(* What is read is a body of either kind.                                     *)
LEMMA ContentTyped ==
  ASSUME WireTyped, conn # "none"
  PROVE  Content \in Bodies /\ Content.entries \in Seq(BodyEntries)
<1>1. request.body \in Bodies /\ request.cut \in Bodies
  BY DEF WireTyped, MessageTypes
<1>2. \A b \in Bodies : b.entries \in Seq(BodyEntries)
  <2>1. NotJson.entries \in Seq(BodyEntries) /\ IllFormed.entries \in Seq(BodyEntries)
    BY DEF NotJson, IllFormed
  <2> QED BY <2>1 DEF Bodies
<1> QED BY <1>1, <1>2 DEF Content, Body

(* The methods that always answer, those that never do and the rest are apart. *)
LEMMA Named ==
  ASSUME NEW m
  PROVE  /\ m \in Lists => m \notin Silent \cup {"missing", "ping", "tools/call"}
         /\ m \in Silent => m \notin Lists \cup {"missing", "ping", "tools/call"}
         /\ m = "missing" => m \notin Lists \cup Silent \cup {"ping", "tools/call"}
         /\ m \in {"ping", "tools/call"} => m \notin Lists \cup Silent \cup {"missing"}
BY DEF Lists, Silent

LEMMA NotificationFacts ==
  ASSUME NEW e, NEW a
  PROVE  Unless(~e.id, a) = IF e.id THEN a ELSE "nothing"
BY Zenon DEF Unless

(* An entry is answered exactly when it asks to be.                           *)
LEMMA DispatchAsks ==
  ASSUME NEW e
  PROVE  IF Asks(e) THEN Dispatch(e) \in {"result", "invalid request", "method not found"}
         ELSE Dispatch(e) = "nothing"
<1>1. CASE ~e.object
  BY <1>1, Zenon DEF Dispatch, Asks
<1>2. CASE e.object /\ e.method \in Lists
  <2>1. Dispatch(e) = "result"
    BY <1>2, Named, Zenon DEF Dispatch
  <2> QED BY <1>2, <2>1, Zenon DEF Asks
<1>3. CASE e.object /\ e.method \in Silent
  <2>1. e.method \notin Lists /\ e.method # "missing" /\ e.method \notin {"ping", "tools/call"}
    BY <1>3, Named
  <2>2. Dispatch(e) = "nothing"
    BY <1>3, <2>1, Zenon DEF Dispatch
  <2> QED BY <1>3, <2>1, <2>2, Zenon DEF Asks
<1>4. CASE e.object /\ e.method = "missing"
  <2>1. e.method \notin Lists /\ e.method \notin Silent /\ e.method \notin {"ping", "tools/call"}
    BY <1>4, Named
  <2>2. Dispatch(e) = Unless(~e.id, "invalid request")
    BY <1>4, <2>1, Zenon DEF Dispatch
  <2> QED BY <1>4, <2>1, <2>2, NotificationFacts, Zenon DEF Asks
<1>5. CASE e.object /\ e.method \in {"ping", "tools/call"}
  <2>1. e.method \notin Lists /\ e.method \notin Silent /\ e.method # "missing"
    BY <1>5, Named
  <2>2. Dispatch(e) = Unless(~e.id, "result")
    BY <1>5, <2>1, Zenon DEF Dispatch
  <2> QED BY <1>5, <2>1, <2>2, NotificationFacts, Zenon DEF Asks
<1>6. CASE e.object /\ e.method \notin Lists /\ e.method \notin Silent /\ e.method # "missing"
           /\ e.method \notin {"ping", "tools/call"}
  <2>1. Dispatch(e) = Unless(~e.id, "method not found")
    BY <1>6, Zenon DEF Dispatch
  <2> QED BY <1>6, <2>1, NotificationFacts, Zenon DEF Asks
<1> QED BY <1>1, <1>2, <1>3, <1>4, <1>5, <1>6, Zenon

LEMMA WireInitially == ASSUME WireAssumption PROVE WireInit => WireInv
<1> SUFFICES ASSUME WireInit PROVE WireInv
  OBVIOUS
<1>1. WireTyped
  BY DEF WireInit, WireTyped, NoStatus
<1> QED BY <1>1 DEF WireInit, WireInv, Untouched, SoFar, WireAnswers, AnsweredAsAWhole, AnsweredOnce,
    TerminatedByBytes

(* While nothing of the request changes, what it deserves does not.           *)
LEMMA SameRequest ==
  ASSUME WireInv, UNCHANGED <<request, received, token>>
  PROVE  /\ Content' = Content /\ Checked' = Checked /\ Wanted(request)' = Wanted(request)
         /\ Parse(request, received)' = Parse(request, received)
         /\ \A n : Owed(n)' = Owed(n) /\ Calling(n)' = Calling(n)
BY DEF Content, Checked, Wanted, Body, Parse, BodyArrived, Owed, Calling

(* Connections come and go.                                                   *)
LEMMA ConnectKeeps ==
  ASSUME WireAssumption, WireInv, StartServer \/ StopServer \/ Connect \/ ReceiveFails \/ Close
  PROVE  WireInv'
<1> USE DEF WireInv
<1>1. WireTyped'
  <2>1. CASE StartServer
    BY <2>1 DEF StartServer, WireTyped
  <2>2. CASE StopServer
    BY <2>2 DEF StopServer, WireTyped
  <2>3. CASE Connect
    BY <2>3 DEF Connect, WireTyped, WireAssumption, NoStatus
  <2>4. CASE ReceiveFails \/ Close
    BY <2>4 DEF ReceiveFails, Close, WireTyped
  <2> QED BY <2>1, <2>2, <2>3, <2>4
<1>2. conn' \in {"none", "reading"}
  BY DEF StartServer, StopServer, Connect, ReceiveFails, Close, WireTyped
<1>3. Untouched'
  BY DEF StartServer, StopServer, Connect, ReceiveFails, Close, WireTyped, Untouched
<1> QED BY <1>1, <1>2, <1>3 DEF SoFar, WireAnswers, AnsweredAsAWhole, AnsweredOnce, TerminatedByBytes

LEMMA ReceiveKeeps ==
  ASSUME WireAssumption, WireInv, Receive
  PROVE  WireInv'
<1> USE DEF WireInv
<1>1. WireTyped'
  BY DEF Receive, WireTyped, WireAssumption
<1>2. conn' = "reading"
  BY DEF Receive
<1> QED BY <1>1, <1>2 DEF Receive, Untouched, SoFar, WireAnswers, AnsweredAsAWhole, AnsweredOnce, TerminatedByBytes

(* The request is refused for what the whole of it says, or served.           *)
LEMMA ConnectionKeeps ==
  ASSUME WireAssumption, WireInv, HandleConnection
  PROVE  WireInv'
<1> DEFINE parsed == Parse(request, received)
<1> USE DEF WireInv
<1>1. /\ UNCHANGED <<token, sessions, request, received, entry, answers, ran>>
      /\ conn = "reading" /\ entry = 0 /\ answers = <<>> /\ ran = <<>> /\ parsed # Incomplete
  BY DEF HandleConnection, Untouched
<1>2. request \in MessageTypes /\ received \in Nat /\ token \in Nat /\ token # 0
      /\ HeaderLimit \in Nat /\ BodyLimit \in Nat
  BY <1>1 DEF WireTyped, WireAssumption
<1>3. /\ parsed \in {0, 200, 400, 411, 413, 431} /\ Checked \in {200, 401, 405}
      /\ request.head <= HeaderLimit /\ parsed # 200 => parsed = Wanted(request)
      /\ parsed = 200 => Checked = Wanted(request)
  BY <1>1, <1>2 DEF Parse, Checked, Wanted, BodyArrived, Incomplete, Complete, MessageTypes
<1>4. CASE parsed # Complete
  <2>1. reply' = parsed /\ conn' = "closing" /\ reply' \in Nat /\ reply' \notin {200, 202}
    BY <1>1, <1>3, <1>4 DEF HandleConnection, Reply, Incomplete, Complete
  <2>2. AnsweredAsAWhole'
    BY <1>1, <1>3, <2>1, <1>4, SameRequest DEF AnsweredAsAWhole, Complete
  <2> QED BY <1>1, <2>1, <2>2 DEF WireTyped, Untouched, SoFar, WireAnswers, AnsweredOnce, TerminatedByBytes
<1>5. CASE parsed = Complete /\ Checked # 200
  <2>1. reply' = Checked /\ conn' = "closing" /\ reply' \in Nat /\ reply' \notin {200, 202}
    BY <1>3, <1>5 DEF HandleConnection, Reply
  <2>2. AnsweredAsAWhole'
    BY <1>1, <1>3, <2>1, <1>5, SameRequest DEF AnsweredAsAWhole, Complete
  <2> QED BY <1>1, <2>1, <2>2 DEF WireTyped, Untouched, SoFar, WireAnswers, AnsweredOnce, TerminatedByBytes
<1>6. CASE parsed = Complete /\ Checked = 200
  <2>1. conn' = "serving" /\ reply' = reply
    BY <1>3, <1>6 DEF HandleConnection
  <2>2. Owed(0) = {} /\ Calling(0) = {}
    BY DEF Owed, Calling
  <2>3. OnceEach(RepliedTo', {}) /\ OnceEach(ran', {})
    BY <1>1 DEF OnceEach, RepliedTo
  <2>4. Content.entries \in Seq(BodyEntries)
    BY <1>1, ContentTyped
  <2>5. entry' = 0 /\ 0 <= Len(Content.entries) /\ Owed(0)' = {} /\ Calling(0)' = {}
    BY <1>1, <2>2, <2>4, SameRequest
  <2>6. Content' = Content /\ Checked' = Checked /\ Parse(request, received)' = parsed
    BY <1>1, SameRequest
  <2>7. SoFar'
    BY <1>6, <2>1, <2>3, <2>5, <2>6 DEF SoFar
  <2> QED BY <1>1, <2>1, <2>7 DEF WireTyped, Untouched, WireAnswers, AnsweredAsAWhole, AnsweredOnce, TerminatedByBytes
<1> QED BY <1>4, <1>5, <1>6

(* The next entry is answered if it asks, and run if it calls.                *)
LEMMA DispatchKeeps ==
  ASSUME WireAssumption, WireInv, DispatchEntry
  PROVE  WireInv'
<1> USE DEF WireInv
<1> DEFINE e == Content.entries[entry + 1]
<1>1. /\ conn = "serving" /\ entry < Len(Content.entries) /\ entry' = entry + 1
      /\ UNCHANGED <<token, sessions, request, received, conn, reply>>
      /\ answers' = IF Dispatch(e) = "nothing" THEN answers
                    ELSE Append(answers, [to |-> entry + 1, what |-> Dispatch(e)])
      /\ ran' = IF RunsTool(e) THEN Append(ran, entry + 1) ELSE ran
  BY DEF DispatchEntry, RunsTool
<1>2. entry \in Nat /\ answers \in Seq(Replies) /\ ran \in Seq(Nat) /\ Content.entries \in Seq(BodyEntries)
  BY <1>1, ContentTyped DEF WireTyped
<1>3. OnceEach(RepliedTo, Owed(entry)) /\ OnceEach(ran, Calling(entry))
  BY <1>1 DEF SoFar
<1>4. /\ Owed(entry + 1) = IF Asks(e) THEN Owed(entry) \cup {entry + 1} ELSE Owed(entry)
      /\ Calling(entry + 1) = IF RunsTool(e) THEN Calling(entry) \cup {entry + 1} ELSE Calling(entry)
      /\ \A w \in Owed(entry) \cup Calling(entry) : w <= entry
  BY <1>1, PositionsGrow
<1>5. answers' \in Seq(Replies) /\ OnceEach(RepliedTo', Owed(entry + 1))
  <2>1. CASE Asks(e)
    <3> DEFINE r == [to |-> entry + 1, what |-> Dispatch(e)]
    <3>1. Dispatch(e) \in {"result", "invalid request", "method not found"}
      BY <2>1, DispatchAsks
    <3>2. r \in Replies /\ r.to = entry + 1
      <4>1. PICK d : d = Dispatch(e)
        OBVIOUS
      <4>2. d \in {"result", "invalid request", "method not found"} /\ r = [to |-> entry + 1, what |-> d]
        BY <3>1, <4>1
      <4>3. entry + 1 \in Nat
        BY <1>2
      <4> HIDE DEF e, r
      <4> QED BY <4>2, <4>3 DEF Replies
    <3>3. answers' = Append(answers, r)
      BY <1>1, <3>1
    <3>4. RepliedTo \in Seq(Nat) /\ RepliedTo' = Append(RepliedTo, entry + 1)
      BY <1>2, <3>2, <3>3, AnsweredMore DEF RepliedTo
    <3>5. OnceEach(Append(RepliedTo, entry + 1), Owed(entry) \cup {entry + 1})
      BY <1>2, <1>3, <1>4, <3>4, OneMore
    <3>6. Owed(entry + 1) = Owed(entry) \cup {entry + 1}
      BY <1>4, <2>1
    <3>7. answers' \in Seq(Replies)
      BY <1>2, <3>2, <3>3
    <3> QED BY <3>4, <3>5, <3>6, <3>7
  <2>2. CASE ~Asks(e)
    <3>1. answers' = answers
      BY <1>1, <2>2, DispatchAsks
    <3> QED BY <1>2, <1>3, <1>4, <2>2, <3>1 DEF RepliedTo
  <2> QED BY <2>1, <2>2
<1>6. ran' \in Seq(Nat) /\ OnceEach(ran', Calling(entry + 1))
  <2>1. CASE RunsTool(e)
    <3>1. OnceEach(Append(ran, entry + 1), Calling(entry) \cup {entry + 1})
      BY <1>2, <1>3, <1>4, OneMore
    <3>2. ran' = Append(ran, entry + 1) /\ Calling(entry + 1) = Calling(entry) \cup {entry + 1}
      BY <1>1, <1>4, <2>1
    <3>3. Append(ran, entry + 1) \in Seq(Nat)
      BY <1>2
    <3> QED BY <3>1, <3>2, <3>3
  <2>2. CASE ~RunsTool(e)
    BY <1>1, <1>2, <1>3, <1>4, <2>2
  <2> QED BY <2>1, <2>2
<1>7. WireTyped'
  BY <1>1, <1>2, <1>5, <1>6 DEF WireTyped
<1>8. SoFar'
  <2>1. entry + 1 <= Len(Content.entries)
    BY <1>1, <1>2
  <2> QED BY <1>1, <1>5, <1>6, <2>1, SameRequest DEF SoFar
<1> QED BY <1>1, <1>7, <1>8 DEF Untouched, WireAnswers, AnsweredAsAWhole, AnsweredOnce, TerminatedByBytes

(* The reply, when every entry has been dispatched.                           *)
LEMMA ReturnKeeps ==
  ASSUME WireAssumption, WireInv, HandleReturns
  PROVE  WireInv'
<1> USE DEF WireInv
<1>1. /\ conn = "serving" /\ entry = Len(Content.entries) /\ conn' = "closing" /\ reply' \in {200, 202}
      /\ UNCHANGED <<token, sessions, request, received, entry, ran>>
      /\ Content.entries # <<>> => answers' = answers
      /\ reply' = 202 <=> answers' = <<>>
      /\ answers' \in Seq(Replies)
  <2>1. CASE Content.entries = <<>>
    <3>1. PICK r : /\ r \in Replies
                   /\ answers' = <<r>> /\ reply' = 200 /\ conn' = "closing"
      <4>1. PICK a : /\ a \in {"parse error", "invalid request"}
                     /\ answers' = <<[to |-> 0, what |-> a]>> /\ reply' = 200 /\ conn' = "closing"
        BY <2>1 DEF HandleReturns, Reply
      <4>2. [to |-> 0, what |-> a] \in Replies
        BY <4>1 DEF Replies
      <4> QED BY <4>1, <4>2
    <3>2. answers' \in Seq(Replies) /\ answers' # <<>>
      BY <3>1
    <3>3. /\ conn = "serving" /\ entry = Len(Content.entries)
          /\ UNCHANGED <<token, sessions, request, received, entry, ran>>
      BY DEF HandleReturns
    <3> QED BY <2>1, <3>1, <3>2, <3>3
  <2>2. CASE Content.entries # <<>>
    BY <2>2 DEF HandleReturns, Reply, WireTyped
  <2> QED BY <2>1, <2>2
<1>2. Parse(request, received) = Complete /\ Checked = 200
  BY <1>1 DEF SoFar
<1>3. request \in MessageTypes /\ received \in Nat /\ BodyLimit \in Nat /\ HeaderLimit \in Nat
  BY <1>1 DEF WireTyped, WireAssumption
<1>4. Wanted(request) = 200 /\ received >= request.head + request.length
  BY <1>2, <1>3 DEF Parse, BodyArrived, Checked, Wanted, Incomplete, Complete, MessageTypes
<1>5. request.length = request.full => Content = request.body
  BY <1>3, <1>4 DEF Content, Body, MessageTypes
<1>6. AnsweredAsAWhole'
  BY <1>1, <1>4, <1>5, SameRequest DEF AnsweredAsAWhole
<1>7. AnsweredOnce'
  <2>1. OnceEach(RepliedTo, Owed(entry)) /\ OnceEach(ran, Calling(entry))
    BY <1>1 DEF SoFar
  <2> QED BY <1>1, <2>1, SameRequest DEF AnsweredOnce, RepliedTo
<1> QED BY <1>1, <1>6, <1>7 DEF WireTyped, Untouched, SoFar, WireAnswers, TerminatedByBytes

(* The body is not UTF-8, so nothing of it was dispatched.                    *)
LEMMA ThrowKeeps ==
  ASSUME WireAssumption, WireInv, ParseErrorThrows
  PROVE  WireInv'
<1> USE DEF WireInv
<1>1. /\ conn = "serving" /\ conn' = "terminated" /\ Content.kind = "ill-formed"
      /\ UNCHANGED <<token, sessions, request, received, entry, answers, ran, reply>>
  BY DEF ParseErrorThrows
<1>2. Content = IllFormed /\ Content.entries = <<>>
  <2>1. Content \in Bodies
    BY <1>1, ContentTyped
  <2> QED BY <1>1, <2>1 DEF Bodies, NotJson, IllFormed
<1>3. entry = 0 /\ Owed(0) = {} /\ Calling(0) = {}
  BY <1>1, <1>2 DEF SoFar, WireTyped, Owed, Calling
<1>4. answers = <<>> /\ ran = <<>>
  <2>1. OnceEach(RepliedTo, Owed(entry)) /\ OnceEach(ran, Calling(entry))
    BY <1>1 DEF SoFar
  <2>2. Owed(entry) = {} /\ Calling(entry) = {}
    BY <1>3
  <2>3. DOMAIN RepliedTo = {} /\ DOMAIN ran = {}
    BY <2>1, <2>2 DEF OnceEach
  <2>4. DOMAIN answers = {}
    BY <2>3 DEF RepliedTo
  <2>5. answers \in Seq(Replies) /\ ran \in Seq(Nat)
    BY DEF WireTyped
  <2>6. \A S : \A s \in Seq(S) : DOMAIN s = {} => s = <<>>
    OBVIOUS
  <2> QED BY <2>3, <2>4, <2>5, <2>6
<1>5. Wanted(request) = 200
  <2>1. Parse(request, received) = Complete /\ Checked = 200
    BY <1>1 DEF SoFar
  <2>2. request \in MessageTypes /\ received \in Nat /\ BodyLimit \in Nat /\ HeaderLimit \in Nat
    BY <1>1 DEF WireTyped, WireAssumption
  <2> QED BY <2>1, <2>2 DEF Parse, Checked, Wanted, Incomplete, Complete, MessageTypes
<1>6. TerminatedByBytes'
  BY <1>1, <1>2, <1>4, <1>5, SameRequest DEF TerminatedByBytes
<1> QED BY <1>1, <1>6 DEF WireTyped, Untouched, SoFar, WireAnswers, AnsweredAsAWhole, AnsweredOnce

LEMMA WireStep == ASSUME WireAssumption PROVE WireInv /\ [WireNext]_wireVars => WireInv'
<1> SUFFICES ASSUME WireInv, [WireNext]_wireVars PROVE WireInv'
  OBVIOUS
<1>1. CASE StartServer \/ StopServer \/ Connect \/ ReceiveFails \/ Close
  BY <1>1, ConnectKeeps
<1>2. CASE Receive
  BY <1>2, ReceiveKeeps
<1>3. CASE HandleConnection
  BY <1>3, ConnectionKeeps
<1>4. CASE DispatchEntry
  BY <1>4, DispatchKeeps
<1>5. CASE HandleReturns
  BY <1>5, ReturnKeeps
<1>7. CASE ParseErrorThrows
  BY <1>7, ThrowKeeps
<1>6. CASE UNCHANGED wireVars
  <2>1. UNCHANGED <<token, sessions, request, received, conn, entry, answers, ran, reply>>
    BY <1>6 DEF wireVars
  <2>2. WireTyped' /\ Untouched'
    BY <2>1 DEF WireInv, WireTyped, Untouched
  <2>3. SoFar'
    BY <2>1, SameRequest DEF WireInv, SoFar, RepliedTo
  <2>4. WireAnswers'
    BY <2>1, SameRequest DEF WireInv, WireAnswers, AnsweredAsAWhole, AnsweredOnce, TerminatedByBytes, RepliedTo
  <2> QED BY <2>2, <2>3, <2>4 DEF WireInv
<1> QED BY <1>1, <1>2, <1>3, <1>4, <1>5, <1>6, <1>7 DEF WireNext

(* However a request is cut into pieces, it is answered for the whole of it,  *)
(* each of its calls once and in order, and a caller without the token is     *)
(* told nothing else; only a body that is not UTF-8 ends the program instead: *)
(* for every set of messages, every limit and piece (McpHttp.cpp,             *)
(* McpServer.cpp, McpProtocol.cpp).                                           *)
THEOREM RequestsAlwaysAnswered == ASSUME WireAssumption PROVE WireSpec => []WireAnswers
<1>1. WireInv => WireAnswers
  BY DEF WireInv
<1> QED BY WireInitially, WireStep, <1>1, PTL DEF WireSpec

--------------------------------------------------------------------------------
(* Calls: the tables                                                          *)

Changing == {"does", "always"}
Refusing == {"arg", "is", "resolves", "reads", "does", "window"}

Counted(steps) == Len(steps) \in Nat /\ DOMAIN steps = 1 .. Len(steps)
(* No step that may refuse comes after one that changes something.            *)
Late(steps) ==
    \A i, j \in DOMAIN steps : i < j /\ steps[i][1] \in Changing => steps[j][1] \notin Refusing
OnItsThread(op) ==
    \A i \in DOMAIN op.steps : op.steps[i][1] \notin (IF op.marshalled THEN {"window"} ELSE Changing)
Orderly(op) == Counted(op.steps) /\ (op.name \in Partial \/ Late(op.steps))

(* Every registered tool, one registration after the other: one that changes  *)
(* something is marshalled, and one that asks the window is not.              *)
LEMMA ToolsOnTheirThreads == \A op \in Tools : OnItsThread(op)
<1> USE DEF OnItsThread, Changing, Inline, OnUi, Attached, Resolves, Arg, Is, Reads, Sees, Does, Always
<1>1. \A op \in RegisterTarget : OnItsThread(op)
  BY SMTT(30) DEF RegisterTarget
<1>2. \A op \in RegisterTyped : OnItsThread(op)
  BY SMTT(30) DEF RegisterTyped
<1>3. \A op \in RegisterRaw : OnItsThread(op)
  BY SMTT(30) DEF RegisterRaw
<1>4. \A op \in RegisterScan : OnItsThread(op)
  BY SMTT(30) DEF RegisterScan
<1>5. \A op \in RegisterScanSettings : OnItsThread(op)
  BY SMTT(30) DEF RegisterScanSettings
<1>6. \A op \in RegisterPointers : OnItsThread(op)
  BY SMTT(30) DEF RegisterPointers
<1>7. \A op \in RegisterSymbols : OnItsThread(op)
  BY SMTT(30) DEF RegisterSymbols
<1>8. \A op \in RegisterNewEntries : OnItsThread(op)
  BY SMTT(30) DEF RegisterNewEntries
<1>9. \A op \in RegisterEntries : OnItsThread(op)
  BY SMTT(30) DEF RegisterEntries
<1>10. \A op \in RegisterLayouts : OnItsThread(op)
  BY SMTT(30) DEF RegisterLayouts
<1>11. \A op \in RegisterInstances : OnItsThread(op)
  BY SMTT(30) DEF RegisterInstances
<1>12. \A op \in RegisterCode : OnItsThread(op)
  BY SMTT(30) DEF RegisterCode
<1>13. \A op \in RegisterScripts : OnItsThread(op)
  BY SMTT(30) DEF RegisterScripts
<1>14. \A op \in RegisterBreakpoints : OnItsThread(op)
  BY SMTT(30) DEF RegisterBreakpoints
<1>15. \A op \in RegisterWatch : OnItsThread(op)
  BY SMTT(30) DEF RegisterWatch
<1>16. \A op \in RegisterPatches : OnItsThread(op)
  BY SMTT(30) DEF RegisterPatches
<1>17. \A op \in RegisterSpeed : OnItsThread(op)
  BY SMTT(30) DEF RegisterSpeed
<1>18. \A op \in RegisterProject : OnItsThread(op)
  BY SMTT(30) DEF RegisterProject
<1>19. \A op \in RegisterWindow : OnItsThread(op)
  BY SMTT(30) DEF RegisterWindow
<1> HIDE DEF OnItsThread
<1> QED BY <1>1, <1>2, <1>3, <1>4, <1>5, <1>6, <1>7, <1>8, <1>9, <1>10, <1>11, <1>12, <1>13, <1>14, <1>15,
           <1>16, <1>17, <1>18, <1>19 DEF Tools

(* A tool that is not marshalled changes nothing, so only the others matter.  *)
LEMMA ToolsOrderly == \A op \in Tools : Orderly(op)
<1> USE DEF Counted, Late, Changing, Refusing, Inline, OnUi,
           Attached, Resolves, Arg, Is, Reads, Sees, Does, Always
<1>1. \A op \in RegisterTarget : Counted(op.steps) /\ Late(op.steps)
  BY SMTT(30) DEF RegisterTarget
<1>2. \A op \in RegisterTyped : Counted(op.steps) /\ (op.name = "write" \/ Late(op.steps))
  BY SMTT(30) DEF RegisterTyped
<1>3. \A op \in RegisterRaw : Counted(op.steps) /\ Late(op.steps)
  BY SMTT(30) DEF RegisterRaw
<1>4. \A op \in RegisterScan : Counted(op.steps) /\ Late(op.steps)
  BY SMTT(30) DEF RegisterScan
<1>5. \A op \in RegisterScanSettings : Counted(op.steps) /\ (op.marshalled => Late(op.steps))
  BY SMTT(30) DEF RegisterScanSettings
<1>6. \A op \in RegisterPointers : Counted(op.steps) /\ Late(op.steps)
  BY SMTT(30) DEF RegisterPointers
<1>7. \A op \in RegisterSymbols : Counted(op.steps) /\ Late(op.steps)
  BY SMTT(30) DEF RegisterSymbols
<1>8. \A op \in RegisterNewEntries : Counted(op.steps) /\ Late(op.steps)
  BY SMTT(30) DEF RegisterNewEntries
<1>9. \A op \in RegisterEntries : Counted(op.steps) /\ (op.name = "update_value" \/ Late(op.steps))
  BY SMTT(30) DEF RegisterEntries
<1>10. \A op \in RegisterLayouts : Counted(op.steps) /\ Late(op.steps)
  BY SMTT(30) DEF RegisterLayouts
<1>11. \A op \in RegisterInstances : Counted(op.steps) /\ (op.marshalled => Late(op.steps))
  BY SMTT(30) DEF RegisterInstances
<1>12. \A op \in RegisterCode : Counted(op.steps) /\ Late(op.steps)
  BY SMTT(30) DEF RegisterCode
<1>13. \A op \in RegisterScripts :
         Counted(op.steps) /\ (op.name \in {"aa_set_enabled", "aa_disable_all"} \/ Late(op.steps))
  BY SMTT(30) DEF RegisterScripts
<1>14. \A op \in RegisterBreakpoints : Counted(op.steps) /\ (op.name = "breakpoint_add" \/ Late(op.steps))
  BY SMTT(30) DEF RegisterBreakpoints
<1>15. \A op \in RegisterWatch : Counted(op.steps) /\ (op.name = "access_watch_start" \/ Late(op.steps))
  BY SMTT(30) DEF RegisterWatch
<1>16. \A op \in RegisterPatches : Counted(op.steps) /\ (op.name = "patch_restore_all" \/ Late(op.steps))
  BY SMTT(30) DEF RegisterPatches
<1>17. \A op \in RegisterSpeed :
         Counted(op.steps) /\ (op.name \in {"speed_load", "speed_set_scale", "speed_reset"} \/ Late(op.steps))
  BY SMTT(30) DEF RegisterSpeed
<1>18. \A op \in RegisterProject : Counted(op.steps) /\ Late(op.steps)
  BY SMTT(30) DEF RegisterProject
<1>19. \A op \in RegisterWindow : Counted(op.steps) /\ Late(op.steps)
  BY SMTT(30) DEF RegisterWindow
<1> HIDE DEF Counted, Late, Inline, OnUi, Attached, Resolves, Arg, Is, Reads, Sees, Does, Always
<1>20. \A op \in Tools : ~op.marshalled => Late(op.steps)
  BY ToolsOnTheirThreads DEF OnItsThread, Late, Changing
<1> HIDE DEF Changing, Refusing
<1> QED BY <1>1, <1>2, <1>3, <1>4, <1>5, <1>6, <1>7, <1>8, <1>9, <1>10, <1>11, <1>12, <1>13, <1>14, <1>15,
           <1>16, <1>17, <1>18, <1>19, <1>20 DEF Tools, Orderly, Partial

(* Every function of the API of scripts.                                      *)
LEMMA FunctionsOrderly == \A op \in Functions : Orderly(op)
<1> USE DEF Counted, Late, Changing, Refusing, Lua, Inline,
           Attached, Resolves, Arg, Is, Reads, Sees, Does, Always
<1>1. \A op \in ScriptTarget : Counted(op.steps) /\ Late(op.steps)
  BY SMTT(30) DEF ScriptTarget
<1>2. \A op \in ScriptMemory : Counted(op.steps) /\ (op.name = "write" \/ Late(op.steps))
  BY SMTT(30) DEF ScriptMemory
<1>3. \A op \in ScriptScans : Counted(op.steps) /\ Late(op.steps)
  BY SMTT(30) DEF ScriptScans
<1>4. \A op \in ScriptWaits : Counted(op.steps) /\ Late(op.steps)
  BY SMTT(30) DEF ScriptWaits
<1>5. \A op \in ScriptResults : Counted(op.steps) /\ Late(op.steps)
  BY SMTT(30) DEF ScriptResults
<1>6. \A op \in ScriptChanges : Counted(op.steps) /\ Late(op.steps)
  BY SMTT(30) DEF ScriptChanges
<1>7. \A op \in ScriptWindow : Counted(op.steps) /\ Late(op.steps)
  BY SMTT(30) DEF ScriptWindow
<1> HIDE DEF Counted, Late, Changing, Refusing, Lua, Inline,
           Attached, Resolves, Arg, Is, Reads, Sees, Does, Always
<1> QED BY <1>1, <1>2, <1>3, <1>4, <1>5, <1>6, <1>7 DEF Functions, Orderly, Partial

(* Every control of every panel.                                              *)
LEMMA PanelsOrderly == \A op \in Panels : Orderly(op)
<1> USE DEF Counted, Late, Changing, Refusing, Panel, BeginAccessWatch, Watches, Shows, Confirmed,
           Attached, Resolves, Arg, Is, Reads, Sees, Does, Always
<1>1. \A op \in ProcessPanel : Counted(op.steps) /\ (op.name = "detach_and_attach" \/ Late(op.steps))
  BY SMTT(30) DEF ProcessPanel
<1>2. \A op \in ModulesPanel : Counted(op.steps) /\ Late(op.steps)
  BY SMTT(30) DEF ModulesPanel
<1>3. \A op \in RegionsPanel : Counted(op.steps) /\ Late(op.steps)
  BY SMTT(30) DEF RegionsPanel
<1>4. \A op \in DetachPanel : Counted(op.steps) /\ Late(op.steps)
  BY SMTT(30) DEF DetachPanel
<1>5. \A op \in Menu : Counted(op.steps) /\ Late(op.steps)
  BY SMTT(30) DEF Menu
<1>6. \A op \in CommandBar : Counted(op.steps) /\ Late(op.steps)
  BY SMTT(30) DEF CommandBar
<1>7. \A op \in ScanControls : Counted(op.steps) /\ Late(op.steps)
  BY SMTT(30) DEF ScanControls
<1>8. \A op \in ScanResults : Counted(op.steps) /\ (op.name = "watch_result" \/ Late(op.steps))
  BY SMTT(30) DEF ScanResults
<1>9. \A op \in PointerPanel : Counted(op.steps) /\ Late(op.steps)
  BY SMTT(30) DEF PointerPanel
<1>10. \A op \in LuaScannerPanel : Counted(op.steps) /\ Late(op.steps)
  BY SMTT(30) DEF LuaScannerPanel
<1>11. \A op \in AddressEditor : Counted(op.steps) /\ Late(op.steps)
  BY SMTT(30) DEF AddressEditor
<1>12. \A op \in AddressRows : Counted(op.steps) /\ Late(op.steps)
  BY SMTT(30) DEF AddressRows
<1>13. \A op \in AddressActions :
         Counted(op.steps) /\ (op.name \in {"write", "watch_entry"} \/ Late(op.steps))
  BY SMTT(30) DEF AddressActions
<1>14. \A op \in Hotkeys : Counted(op.steps) /\ Late(op.steps)
  BY SMTT(30) DEF Hotkeys
<1>15. \A op \in SymbolsPanel : Counted(op.steps) /\ Late(op.steps)
  BY SMTT(30) DEF SymbolsPanel
<1>16. \A op \in MemoryNavigation : Counted(op.steps) /\ Late(op.steps)
  BY SMTT(30) DEF MemoryNavigation
<1>17. \A op \in MemoryHex : Counted(op.steps) /\ (op.name = "watch_here" \/ Late(op.steps))
  BY SMTT(30) DEF MemoryHex
<1>18. \A op \in MemoryPatch : Counted(op.steps) /\ Late(op.steps)
  BY SMTT(30) DEF MemoryPatch
<1>19. \A op \in DisassemblyPanel : Counted(op.steps) /\ Late(op.steps)
  BY SMTT(30) DEF DisassemblyPanel
<1>20. \A op \in BreakpointPanel : Counted(op.steps) /\ (op.name = "set_breakpoint" \/ Late(op.steps))
  BY SMTT(30) DEF BreakpointPanel
<1>21. \A op \in AccessWatchPanel : Counted(op.steps) /\ Late(op.steps)
  BY SMTT(30) DEF AccessWatchPanel
<1>22. \A op \in NopInstruction : Counted(op.steps) /\ Late(op.steps)
  BY SMTT(30) DEF NopInstruction
<1>23. \A op \in PatchesPanel : Counted(op.steps) /\ (op.name = "restore_all" \/ Late(op.steps))
  BY SMTT(30) DEF PatchesPanel
<1>24. \A op \in ScriptsList : Counted(op.steps) /\ (op.name = "toggle_script" \/ Late(op.steps))
  BY SMTT(30) DEF ScriptsList
<1>25. \A op \in ScriptEditor : Counted(op.steps) /\ Late(op.steps)
  BY SMTT(30) DEF ScriptEditor
<1>26. \A op \in InjectionPanel : Counted(op.steps) /\ Late(op.steps)
  BY SMTT(30) DEF InjectionPanel
<1>27. \A op \in SpeedPanel :
         Counted(op.steps) /\ (op.name \in {"set_speed", "remove_hook"} \/ Late(op.steps))
  BY SMTT(30) DEF SpeedPanel
<1>28. \A op \in TrainerPanel : Counted(op.steps) /\ Late(op.steps)
  BY SMTT(30) DEF TrainerPanel
<1>29. \A op \in StructureList : Counted(op.steps) /\ Late(op.steps)
  BY SMTT(30) DEF StructureList
<1>30. \A op \in StructureRows : Counted(op.steps) /\ Late(op.steps)
  BY SMTT(30) DEF StructureRows
<1>31. \A op \in FieldEditor : Counted(op.steps) /\ Late(op.steps)
  BY SMTT(30) DEF FieldEditor
<1>32. \A op \in FieldMenu : Counted(op.steps) /\ (op.name = "watch_field" \/ Late(op.steps))
  BY SMTT(30) DEF FieldMenu
<1>33. \A op \in LuaPanel : Counted(op.steps) /\ Late(op.steps)
  BY SMTT(30) DEF LuaPanel
<1>34. \A op \in McpPanel : Counted(op.steps) /\ Late(op.steps)
  BY SMTT(30) DEF McpPanel
<1>35. \A op \in LogPanel : Counted(op.steps) /\ Late(op.steps)
  BY SMTT(30) DEF LogPanel
<1>36. \A op \in ProjectMenu : Counted(op.steps) /\ Late(op.steps)
  BY SMTT(30) DEF ProjectMenu
<1> HIDE DEF Counted, Late, Changing, Refusing, Panel, BeginAccessWatch, Watches, Shows, Confirmed,
           Attached, Resolves, Arg, Is, Reads, Sees, Does, Always
<1> QED BY <1>1, <1>2, <1>3, <1>4, <1>5, <1>6, <1>7, <1>8, <1>9, <1>10, <1>11, <1>12, <1>13, <1>14, <1>15,
           <1>16, <1>17, <1>18, <1>19, <1>20, <1>21, <1>22, <1>23, <1>24, <1>25, <1>26, <1>27, <1>28, <1>29,
           <1>30, <1>31, <1>32, <1>33, <1>34, <1>35, <1>36 DEF Panels, Orderly, Partial

--------------------------------------------------------------------------------
(* Calls: the steps                                                           *)

Operations == {NoOperation} \cup Tools \cup Functions \cup Panels
(* What the server's thread runs itself, and what it hands over.              *)
Direct == {NoOperation} \cup {op \in Tools : ~op.marshalled}
Marshalled == {NoOperation} \cup {op \in Tools : op.marshalled}

CallTyped(c) ==
    c \in [op : Operations, at : Nat, changing : BOOLEAN, refused : BOOLEAN, did : {c.did}]

(* A call that is changing something stands at a step that does, one that has *)
(* changed something is past one, and one that was refused was before any.    *)
CallHonest(c) ==
    /\ c.changing => ~c.refused /\ c.at < Len(c.op.steps) /\ c.op.steps[c.at + 1][1] \in Changing
    /\ c.did # {} => \E i \in 1 .. c.at : i \in DOMAIN c.op.steps /\ c.op.steps[i][1] \in Changing
    /\ c.refused => c.did = {} \/ c.op.name \in Partial

CallsInv ==
    /\ inCall = [t \in CallThreads |-> inCall[t]]
    /\ \A t \in CallThreads : CallTyped(inCall[t]) /\ CallHonest(inCall[t])
    /\ "server" \in CallThreads => inCall["server"].op \in Direct
    /\ handed \in Marshalled

LEMMA NoSteps == NoOperation.steps = <<>> /\ Orderly(NoOperation) /\ OnItsThread(NoOperation)
<1>1. NoOperation.steps = <<>>
  BY DEF NoOperation, Panel
<1>2. Len(<<>>) = 0 /\ DOMAIN <<>> = {} /\ 1 .. 0 = {}
  OBVIOUS
<1> QED BY <1>1, <1>2 DEF Orderly, OnItsThread, Counted, Late

LEMMA AllOrderly == \A op \in Operations : Orderly(op)
BY ToolsOrderly, FunctionsOrderly, PanelsOrderly, NoSteps DEF Operations

LEMMA NewCall ==
  ASSUME NEW op \in Operations
  PROVE  CallTyped(CallOf(op)) /\ CallHonest(CallOf(op)) /\ CallOf(op).op = op
BY DEF CallOf, CallTyped, CallHonest

(* A thread's call goes on, and the others' are what they were.               *)
LEMMA OneSet ==
  ASSUME CallsInv, NEW t \in CallThreads, NEW c, Set(t, c), CallTyped(c), CallHonest(c),
         t = "server" => c.op \in Direct, handed' \in Marshalled
  PROVE  CallsInv'
<1>1. inCall' = [s \in CallThreads |-> IF s = t THEN c ELSE inCall[s]]
  BY DEF Set, CallsInv
<1>2. DOMAIN inCall' = CallThreads /\ \A s \in CallThreads : inCall'[s] = IF s = t THEN c ELSE inCall[s]
  BY <1>1
<1>3. (CallThreads)' = CallThreads
  BY <1>2 DEF CallThreads
<1>4. inCall' = [s \in CallThreads |-> inCall'[s]]
  BY <1>1, <1>2
<1> HIDE DEF CallThreads
<1> QED BY <1>2, <1>3, <1>4 DEF CallsInv

(* A call as it is one step on, refused, and changing.                        *)
Onward(c, e, at, changing, refused, did) ==
    CallTyped(e) /\ e.op = c.op /\ e.at = at /\ e.changing = changing /\ e.refused = refused /\ e.did = did

LEMMA Rewritten ==
  ASSUME NEW c, CallTyped(c)
  PROVE  /\ Onward(c, Passed(c), c.at + 1, FALSE, c.refused, c.did)
         /\ Onward(c, Refused(c), c.at, FALSE, TRUE, c.did)
         /\ Onward(c, [c EXCEPT !.changing = TRUE], c.at, TRUE, c.refused, c.did)
         /\ \A d : Onward(c, [Passed(c) EXCEPT !.did = @ \cup {d}], c.at + 1, FALSE, c.refused, c.did \cup {d})
<1>1. Onward(c, Passed(c), c.at + 1, FALSE, c.refused, c.did)
  <2> DEFINE at == c.at + 1
  <2>1. at \in Nat
    BY DEF CallTyped
  <2> HIDE DEF at
  <2>2. Onward(c, [c EXCEPT !.at = at, !.changing = FALSE], at, FALSE, c.refused, c.did)
    BY <2>1 DEF Onward, CallTyped
  <2> QED BY <2>2 DEF Passed, at
<1>2. Onward(c, Refused(c), c.at, FALSE, TRUE, c.did)
  BY DEF Onward, Refused, CallTyped
<1>3. Onward(c, [c EXCEPT !.changing = TRUE], c.at, TRUE, c.refused, c.did)
  BY DEF Onward, CallTyped
<1>4. ASSUME NEW d
      PROVE  Onward(c, [Passed(c) EXCEPT !.did = @ \cup {d}], c.at + 1, FALSE, c.refused, c.did \cup {d})
  <2> DEFINE p == Passed(c)
  <2>1. Onward(c, p, c.at + 1, FALSE, c.refused, c.did)
    BY <1>1
  <2> HIDE DEF p
  <2>2. Onward(c, [p EXCEPT !.did = @ \cup {d}], c.at + 1, FALSE, c.refused, c.did \cup {d})
    BY <2>1 DEF Onward, CallTyped
  <2> QED BY <2>2 DEF p
<1> QED BY <1>1, <1>2, <1>3, <1>4

(* One step further, with what it changed or without: what was changed before *)
(* is still behind, and what is changed now is one step behind.               *)
LEMMA PassedHonest ==
  ASSUME NEW c, CallTyped(c), CallHonest(c), ~c.refused, c.at < Len(c.op.steps), NEW d
  PROVE  /\ CallTyped(Passed(c)) /\ CallHonest(Passed(c)) /\ Passed(c).op = c.op
         /\ LET e == [Passed(c) EXCEPT !.did = @ \cup {d}] IN
            c.changing => CallTyped(e) /\ CallHonest(e) /\ e.op = c.op
<1>1. Orderly(c.op) /\ c.at \in Nat /\ c.op \in Operations
  BY AllOrderly DEF CallTyped
<1>2. c.at + 1 \in DOMAIN c.op.steps /\ c.at + 1 \in 1 .. c.at + 1 /\ 1 .. c.at \subseteq 1 .. c.at + 1
  BY <1>1 DEF Orderly, Counted
<1>3. CallTyped(Passed(c)) /\ CallHonest(Passed(c)) /\ Passed(c).op = c.op
  <2> DEFINE e == Passed(c)
  <2>1. Onward(c, e, c.at + 1, FALSE, c.refused, c.did)
    BY Rewritten
  <2> HIDE DEF e
  <2>2. CallTyped(e) /\ e.op = c.op
    BY <2>1 DEF Onward
  <2>3. CallHonest(e)
    BY <1>2, <2>1 DEF CallHonest, Onward
  <2> QED BY <2>2, <2>3 DEF e
<1>4. ASSUME c.changing
      PROVE  LET e == [Passed(c) EXCEPT !.did = @ \cup {d}] IN CallTyped(e) /\ CallHonest(e) /\ e.op = c.op
  <2> DEFINE e == [Passed(c) EXCEPT !.did = @ \cup {d}]
  <2>1. Onward(c, e, c.at + 1, FALSE, c.refused, c.did \cup {d})
    BY Rewritten
  <2>2. c.op.steps[c.at + 1][1] \in Changing
    BY <1>4 DEF CallHonest
  <2> HIDE DEF e
  <2>3. CallTyped(e) /\ e.op = c.op
    BY <2>1 DEF Onward
  <2>4. CallHonest(e)
    BY <1>2, <2>1, <2>2 DEF CallHonest, Onward
  <2> QED BY <2>3, <2>4 DEF e
<1> QED BY <1>3, <1>4

(* A step that may refuse comes before any that changes something, but in the *)
(* calls that are named.                                                      *)
LEMMA RefusedHonest ==
  ASSUME NEW c, CallTyped(c), CallHonest(c), c.at < Len(c.op.steps), c.op.steps[c.at + 1][1] \in Refusing
  PROVE  CallTyped(Refused(c)) /\ CallHonest(Refused(c)) /\ Refused(c).op = c.op
<1>1. Orderly(c.op) /\ c.at \in Nat /\ c.op \in Operations
  BY AllOrderly DEF CallTyped
<1>2. c.at + 1 \in DOMAIN c.op.steps /\ \A i \in 1 .. c.at : i < c.at + 1
  BY <1>1 DEF Orderly, Counted
<1>3. c.did = {} \/ c.op.name \in Partial
  BY <1>1, <1>2 DEF CallHonest, Orderly, Late
<1> DEFINE e == Refused(c)
<1>4. Onward(c, e, c.at, FALSE, TRUE, c.did)
  BY Rewritten
<1> HIDE DEF e
<1>5. CallTyped(e) /\ e.op = c.op
  BY <1>4 DEF Onward
<1>6. CallHonest(e)
  BY <1>3, <1>4 DEF CallHonest, Onward
<1> QED BY <1>5, <1>6 DEF e

LEMMA CallsInitially == CallsInit => CallsInv
<1> SUFFICES ASSUME CallsInit PROVE CallsInv
  OBVIOUS
<1>1. PICK threads \in ThreadSets : inCall = [t \in threads |-> NotCalling]
  BY DEF CallsInit
<1>2. CallTyped(NotCalling) /\ CallHonest(NotCalling) /\ NotCalling.op = NoOperation
  BY NewCall DEF NotCalling, Operations
<1> QED BY <1>1, <1>2 DEF CallsInit, CallsInv, CallThreads, Direct, Marshalled

(* A thread takes up a call.                                                  *)
LEMMA BeginsKeep ==
  ASSUME CallsInv, UserActs \/ ClientCalls \/ Drain \/ ScriptCalls
  PROVE  CallsInv'
<1>1. ASSUME NEW t \in CallThreads, NEW op \in Operations, Set(t, CallOf(op)), UNCHANGED handed,
             t = "server" => op \in Direct
      PROVE  CallsInv'
  BY <1>1, NewCall, OneSet DEF CallsInv
<1>2. Panels \subseteq Operations /\ Tools \subseteq Operations /\ Functions \subseteq Operations
      /\ NoOperation \in Operations
  BY DEF Operations
<1>3. CASE UserActs
  BY <1>1, <1>2, <1>3 DEF UserActs
<1>4. CASE Drain
  BY <1>1, <1>2, <1>4 DEF Drain, CallsInv, Marshalled
<1>5. CASE ScriptCalls
  BY <1>1, <1>2, <1>5 DEF ScriptCalls
<1>6. CASE ClientCalls
  <2>1. PICK op \in Tools : IF op.marshalled
                            THEN handed' = op /\ UNCHANGED inCall
                            ELSE Set("server", CallOf(op)) /\ UNCHANGED handed
    BY <1>6 DEF ClientCalls
  <2>2. CASE op.marshalled
    BY <2>1, <2>2 DEF CallsInv, CallThreads, Marshalled
  <2>3. CASE ~op.marshalled
    BY <1>1, <1>2, <1>6, <2>1, <2>3 DEF ClientCalls, Direct
  <2> QED BY <2>2, <2>3
<1> QED BY <1>3, <1>4, <1>5, <1>6

(* A call goes on.                                                            *)
LEMMA StepsKeep ==
  ASSUME CallsInv, NEW t \in CallThreads,
         Looks(t) \/ BeginChange(t) \/ EndChange(t) \/ AsksWindow(t) \/ Return(t)
  PROVE  CallsInv'
<1> DEFINE c == inCall[t]
<1>1. CallTyped(c) /\ CallHonest(c) /\ (t = "server" => c.op \in Direct) /\ handed \in Marshalled
  BY DEF CallsInv
<1>2. ASSUME NEW e, Set(t, e), CallTyped(e), CallHonest(e), e.op = c.op, UNCHANGED handed
      PROVE  CallsInv'
  BY <1>1, <1>2, OneSet
<1>3. Running(t) => ~c.refused /\ c.at < Len(c.op.steps)
  BY DEF Running
<1>4. Current(t) = c.op.steps[c.at + 1]
  BY DEF Current
<1>5. Running(t) => CallTyped(Passed(c)) /\ CallHonest(Passed(c)) /\ Passed(c).op = c.op
  BY <1>1, <1>3, PassedHonest
<1>6. Running(t) /\ Current(t)[1] \in Refusing =>
        CallTyped(Refused(c)) /\ CallHonest(Refused(c)) /\ Refused(c).op = c.op
  BY <1>1, <1>3, <1>4, RefusedHonest
<1>7. CASE Looks(t)
  <2>1. Running(t) /\ UNCHANGED handed /\ Current(t)[1] \in {"arg", "is", "resolves", "reads", "sees"}
    BY <1>7 DEF Looks
  <2>2. Set(t, Passed(c)) \/ (Current(t)[1] # "sees" /\ Set(t, Refused(c)))
    BY <1>7 DEF Looks
  <2> QED BY <1>2, <1>5, <1>6, <2>1, <2>2 DEF Refusing
<1>8. CASE BeginChange(t)
  <2> DEFINE e == [c EXCEPT !.changing = TRUE]
  <2>1. Running(t) /\ UNCHANGED handed /\ Current(t)[1] \in Changing /\ Set(t, e)
    BY <1>8 DEF BeginChange, Changing
  <2>2. Onward(c, e, c.at, TRUE, c.refused, c.did)
    BY <1>1, Rewritten
  <2> HIDE DEF e, c
  <2>3. CallTyped(e) /\ e.op = c.op
    BY <2>2 DEF Onward
  <2>4. CallHonest(e)
    BY <1>1, <1>3, <1>4, <2>1, <2>2 DEF CallHonest, Onward
  <2> QED BY <1>2, <2>1, <2>3, <2>4
<1>9. CASE EndChange(t)
  <2> DEFINE e(d) == [Passed(c) EXCEPT !.did = @ \cup {d}]
  <2>1. Running(t) /\ UNCHANGED handed /\ c.changing
    BY <1>9 DEF EndChange
  <2>2. Set(t, e(Current(t)[2])) \/ (Current(t)[1] = "does" /\ Set(t, Refused(c)))
    BY <1>9 DEF EndChange
  <2>3. \A d : CallTyped(e(d)) /\ CallHonest(e(d)) /\ e(d).op = c.op
    BY <1>1, <1>3, <2>1, PassedHonest
  <2> HIDE DEF e, c
  <2> QED BY <1>2, <1>6, <2>1, <2>2, <2>3 DEF Refusing
<1>10. CASE AsksWindow(t)
  <2>1. Running(t) /\ UNCHANGED handed /\ Current(t)[1] = "window"
    BY <1>10 DEF AsksWindow
  <2>2. Set(t, Passed(c)) \/ Set(t, Refused(c))
    BY <1>10 DEF AsksWindow
  <2> QED BY <1>2, <1>5, <1>6, <2>1, <2>2 DEF Refusing
<1>11. CASE Return(t)
  <2>1. Set(t, NotCalling) /\ handed' \in {NoOperation, handed}
    BY <1>11 DEF Return
  <2>2. CallTyped(NotCalling) /\ CallHonest(NotCalling) /\ NotCalling.op = NoOperation
    BY NewCall DEF NotCalling, Operations
  <2> QED BY <1>1, <2>1, <2>2, OneSet DEF Direct, Marshalled
<1> QED BY <1>7, <1>8, <1>9, <1>10, <1>11

LEMMA CallsKeep == CallsInv /\ [CallsNext]_callsVars => CallsInv'
<1> SUFFICES ASSUME CallsInv, [CallsNext]_callsVars PROVE CallsInv'
  OBVIOUS
<1>1. CASE UNCHANGED callsVars
  BY <1>1 DEF callsVars, CallsInv, CallThreads
<1>2. CASE UserActs \/ ClientCalls \/ Drain \/ ScriptCalls
  BY <1>2, BeginsKeep
<1>3. CASE \E t \in CallThreads : Looks(t) \/ BeginChange(t) \/ EndChange(t) \/ AsksWindow(t) \/ Return(t)
  BY <1>3, StepsKeep
<1> QED BY <1>1, <1>2, <1>3 DEF CallsNext

(* Whatever threads there are and however their calls run into each other,    *)
(* the server's thread changes nothing itself, and what it hands to the UI    *)
(* thread does not wait for the UI thread (McpTools.cpp, ToolRegistry::call). *)
THEOREM ToolsAlwaysMarshalled == CallsSpec => []ToolsMarshalled
<1>1. CallsInv => ToolsMarshalled
  <2> SUFFICES ASSUME CallsInv PROVE ToolsMarshalled
    OBVIOUS
  <2>1. \A op \in Direct \cup Marshalled : Orderly(op) /\ OnItsThread(op)
    BY ToolsOrderly, ToolsOnTheirThreads, NoSteps DEF Direct, Marshalled
  <2>2. \A op \in Direct : \A i \in DOMAIN op.steps : op.steps[i][1] \notin Changing
    BY <2>1, NoSteps DEF Direct, OnItsThread
  <2>3. ASSUME "server" \in CallThreads, inCall["server"].changing PROVE FALSE
    <3> DEFINE c == inCall["server"]
    <3>1. c.op \in Direct /\ c.at \in Nat /\ c.at < Len(c.op.steps) /\ c.op.steps[c.at + 1][1] \in Changing
      BY <2>3 DEF CallsInv, CallTyped, CallHonest
    <3>2. c.at + 1 \in DOMAIN c.op.steps
      BY <2>1, <3>1 DEF Orderly, Counted
    <3> QED BY <2>2, <3>1, <3>2
  <2>4. \A op \in Marshalled : \A i \in DOMAIN op.steps : op.steps[i][1] # "window"
    BY <2>1, NoSteps DEF Marshalled, OnItsThread
  <2>5. handed \in Marshalled
    BY DEF CallsInv
  <2>6. \A i \in DOMAIN handed.steps : handed.steps[i][1] # "window"
    BY <2>4, <2>5
  <2> QED BY <2>3, <2>6 DEF ToolsMarshalled
<1> QED BY <1>1, CallsInitially, CallsKeep, PTL DEF CallsSpec

(* A refused call has changed nothing, but for those that are named: in every *)
(* table a step that may refuse comes before the first that changes something *)
(* (the handlers of the tools, the functions of scripts, the panels).         *)
THEOREM RefusedCallsChangeNothing == CallsSpec => []RefusedChangesNothing
<1>1. CallsInv => RefusedChangesNothing
  BY DEF CallsInv, CallHonest, RefusedChangesNothing
<1> QED BY <1>1, CallsInitially, CallsKeep, PTL DEF CallsSpec
================================================================================
