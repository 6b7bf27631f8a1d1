----------------------------------- MODULE Wire ----------------------------------
(* The MCP server on the wire: a request that arrives in pieces, the checks   *)
(* it goes through before its body is read, and the JSON-RPC calls the body   *)
(* holds.  A request is what its parts come to; sizes are in units of a few   *)
(* kilobytes.                                                                 *)
EXTENDS Naturals, Sequences

CONSTANTS
    Messages,       \* what clients send
    HeaderLimit,    \* 64 KiB
    BodyLimit,      \* 4 MiB
    Piece,          \* most one recv gives
    MaxSessions     \* starts of the server
(* A request: head is its header block's size; line and fields say whether    *)
(* its request line and its headers, Content-Length included, can be read;    *)
(* length is what that says, and full the size the body really has.  A body   *)
(* is a batch of entries, one entry, or not JSON, in well-formed UTF-8 or     *)
(* not; cut is what its first length bytes come to where they are not all.    *)
BodyEntries == [object : BOOLEAN, id : BOOLEAN, method : STRING]
NotJson == [kind |-> "invalid", entries |-> <<>>]
IllFormed == [kind |-> "ill-formed", entries |-> <<>>]
Bodies == {NotJson, IllFormed} \cup [kind : {"batch", "single"}, entries : Seq(BodyEntries)]
MessageTypes == [head : Nat, line : BOOLEAN, fields : BOOLEAN, length : Nat, chunked : BOOLEAN, token : Nat,
                 method : STRING, full : Nat, body : Bodies, cut : Bodies]
NoRequest == [head |-> 0, line |-> FALSE, fields |-> FALSE, length |-> 0, chunked |-> FALSE, token |-> 0,
              method |-> "", full |-> 0, body |-> NotJson, cut |-> NotJson]

Replies == [to : Nat, what : {"result", "invalid request", "method not found", "parse error"}]

WireAssumption ==
    /\ {HeaderLimit, BodyLimit, Piece, MaxSessions} \subseteq Nat
    /\ Messages \subseteq MessageTypes

--------------------------------------------------------------------------------
(* parseHttpRequest, on what has been received so far: the status it refuses  *)
(* with, 200 for a complete request, 0 for one that is not                    *)

AsArrived(r, n) == n >= r.head          \* mutant: the body is what came with the headers
BodyArrived(r, n) == n >= r.head + r.length

Incomplete == 0
Complete == 200
Parse(r, n) ==
    CASE n < r.head /\ n > HeaderLimit -> 431
      [] n < r.head /\ n <= HeaderLimit -> Incomplete
      [] n >= r.head /\ (~r.line \/ ~r.fields) -> 400
      [] OTHER -> IF r.length > BodyLimit THEN 413
                  ELSE IF r.chunked THEN 411
                  ELSE IF BodyArrived(r, n) THEN Complete ELSE Incomplete

Body(r, n) == IF r.length = r.full /\ n >= r.head + r.full THEN r.body ELSE r.cut

--------------------------------------------------------------------------------
(* Protocol::dispatch: nothing, or an answer                                  *)

Lists == {"initialize", "tools/list", "resources/list", "prompts/list"}
Silent == {"notifications/initialized", "notifications/cancelled"}

AlwaysAnswer(notification, answer) == answer    \* mutant: an error for a notification
Unless(notification, answer) == IF notification THEN "nothing" ELSE answer

Dispatch(e) ==
    CASE ~e.object -> "invalid request"
      [] e.object /\ e.method = "missing" -> Unless(~e.id, "invalid request")
      [] e.object /\ e.method \in Lists -> "result"
      [] e.object /\ e.method \in Silent -> "nothing"
      [] e.object /\ e.method \in {"ping", "tools/call"} -> Unless(~e.id, "result")
      [] OTHER -> Unless(~e.id, "method not found")

--------------------------------------------------------------------------------
VARIABLES
    token,          \* which start's token it takes, 0 when it is stopped
    sessions,
    request, received,
    conn,           \* "none", "reading", "serving", "closing" or "terminated"
    entry,          \* the entry of the body to be dispatched next
    answers, ran,   \* what the entries were answered, and the calls that ran
    reply            \* the HTTP status
wireVars == <<token, sessions, request, received, conn, entry, answers, ran, reply>>

NoStatus == 0
WireInit ==
    /\ token = 0 /\ sessions = 0
    /\ request = NoRequest /\ received = 0 /\ conn = "none"
    /\ entry = 0 /\ answers = <<>> /\ ran = <<>> /\ reply = NoStatus

(* A port in use, no token and other failures leave it stopped.               *)
StartServer ==
    /\ token = 0 /\ conn = "none" /\ sessions < MaxSessions
    /\ sessions' = sessions + 1
    /\ token' \in {0, sessions + 1}
    /\ UNCHANGED <<request, received, conn, entry, answers, ran, reply>>

(* The thread is joined, and the token forgotten last.                        *)
StopServer ==
    /\ token # 0 /\ conn = "none"
    /\ token' = 0
    /\ UNCHANGED <<sessions, request, received, conn, entry, answers, ran, reply>>

Connect ==
    /\ token # 0 /\ conn = "none"
    /\ conn' = "reading" /\ request' \in Messages
    /\ received' = 0 /\ entry' = 0 /\ answers' = <<>> /\ ran' = <<>> /\ reply' = NoStatus
    /\ UNCHANGED <<token, sessions>>

Sent == request.head + request.full
Receive ==
    /\ conn = "reading" /\ Parse(request, received) = Incomplete
    /\ \E n \in 1..Piece : received + n <= Sent /\ received' = received + n
    /\ UNCHANGED <<token, sessions, request, conn, entry, answers, ran, reply>>

(* The client closes, or says nothing for as long as the receive timeout.     *)
ReceiveFails ==
    /\ conn = "reading" /\ Parse(request, received) = Incomplete
    /\ conn' = "none"
    /\ UNCHANGED <<token, sessions, request, received, entry, answers, ran, reply>>

Reply(c) == reply' = c /\ conn' = "closing"
MethodFirst ==      \* mutant: the method is looked at before the token
    IF request.method # "POST" THEN 405 ELSE IF request.token # token THEN 401 ELSE 200
Checked == IF request.token # token THEN 401 ELSE IF request.method # "POST" THEN 405 ELSE 200

HandleConnection ==
    /\ conn = "reading" /\ Parse(request, received) # Incomplete
    /\ IF Parse(request, received) # Complete THEN Reply(Parse(request, received))
       ELSE IF Checked # 200 THEN Reply(Checked)
       ELSE conn' = "serving" /\ UNCHANGED reply
    /\ UNCHANGED <<token, sessions, request, received, entry, answers, ran>>

Content == Body(request, received)
(* Protocol::handle, an entry at a time.                                      *)
DispatchEntry ==
    /\ conn = "serving" /\ entry < Len(Content.entries)
    /\ LET e == Content.entries[entry + 1] IN
       /\ answers' = IF Dispatch(e) = "nothing" THEN answers
                     ELSE Append(answers, [to |-> entry + 1, what |-> Dispatch(e)])
       /\ ran' = IF e.object /\ e.method = "tools/call" THEN Append(ran, entry + 1) ELSE ran
    /\ entry' = entry + 1
    /\ UNCHANGED <<token, sessions, request, received, conn, reply>>

(* The parser's message quotes the bytes it stopped at.  Where those are no   *)
(* UTF-8, writing the answer throws, and nothing above catches that: the      *)
(* process terminates.                                                        *)
ParseErrorThrows ==
    /\ conn = "serving" /\ Content.kind = "ill-formed"
    /\ conn' = "terminated"
    /\ UNCHANGED <<token, sessions, request, received, entry, answers, ran, reply>>

HandleReturns ==
    /\ conn = "serving" /\ entry = Len(Content.entries) /\ Content.kind # "ill-formed"
    /\ IF Content.entries = <<>>
       THEN Reply(200) /\ answers' = <<[to |-> 0, what |-> IF Content.kind = "invalid" THEN "parse error"
                                                                            ELSE "invalid request"]>>
       ELSE Reply(IF answers = <<>> THEN 202 ELSE 200) /\ UNCHANGED answers
    /\ UNCHANGED <<token, sessions, request, received, entry, ran>>

Close ==
    /\ conn = "closing" /\ conn' = "none"
    /\ UNCHANGED <<token, sessions, request, received, entry, answers, ran, reply>>

WireNext ==
    \/ StartServer \/ StopServer \/ Connect \/ Receive \/ ReceiveFails \/ HandleConnection
    \/ DispatchEntry \/ ParseErrorThrows \/ HandleReturns \/ Close

WireSpec == WireInit /\ [][WireNext]_wireVars

--------------------------------------------------------------------------------
(* Properties                                                                 *)

Wanted(r) ==            \* what the message as a whole deserves
    IF ~r.line \/ ~r.fields THEN 400
    ELSE IF r.length > BodyLimit THEN 413
    ELSE IF r.chunked THEN 411
    ELSE IF r.token # token THEN 401
    ELSE IF r.method # "POST" THEN 405 ELSE 200

(* However a request is cut into pieces, it is answered for what the whole    *)
(* of it says, and a body cut short is waited for rather than read            *)
(* (McpHttp.cpp:147-153); a caller without this token's token is told       *)
(* nothing else (McpServer.cpp:244-253).  Headers of more than the limit may  *)
(* be answered for or refused, as the pieces fall.                            *)
AnsweredAsAWhole ==
    conn = "closing" /\ request.head <= HeaderLimit =>
      /\ (IF reply = 202 THEN 200 ELSE reply) = Wanted(request)
      /\ reply \in {200, 202} /\ request.length = request.full => entry = Len(request.body.entries)

(* Every request of a batch is answered once, in order, and a notification    *)
(* is not (McpProtocol.cpp:70-72) unless it names one of the methods that     *)
(* always answer; every tool call runs once, whether or not it is answered,   *)
(* and none for a caller who was turned away.                                 *)
Asks(e) == ~e.object \/ e.method \in Lists \/ (e.id /\ e.method \notin Silent)
RunsTool(e) == e.object /\ e.method = "tools/call"
Owed(n) == {i \in 1 .. n : Asks(Content.entries[i])}
Calling(n) == {i \in 1 .. n : RunsTool(Content.entries[i])}

OnceEach(s, wanted) ==
    /\ \A i, j \in DOMAIN s : i < j => s[i] < s[j]
    /\ {s[i] : i \in DOMAIN s} = wanted
RepliedTo == [i \in DOMAIN answers |-> answers[i].to]

AnsweredOnce ==
    conn = "closing" =>
      IF reply \in {200, 202}
      THEN /\ Content.entries # <<>> => OnceEach(RepliedTo, Owed(Len(Content.entries)))
           /\ OnceEach(ran, Calling(Len(Content.entries)))
           /\ reply = 202 <=> answers = <<>>
      ELSE ran = <<>> /\ answers = <<>>

(* Only a body that is not UTF-8, from a caller with the token, ends the      *)
(* program, and no tool has run for it (McpProtocol.cpp:33-38).               *)
TerminatedByBytes ==
    conn = "terminated" =>
      Wanted(request) = 200 /\ Content = IllFormed /\ answers = <<>> /\ ran = <<>>

(* A request is answered for the whole of it, and each call of it once,       *)
(* unless answering it ends the program (McpHttp.cpp, McpServer.cpp,          *)
(* McpProtocol.cpp).                                                          *)
WireAnswers == AnsweredAsAWhole /\ AnsweredOnce /\ TerminatedByBytes

(* "Malformed JSON is answered with a parse error" (tests/test_mcp.cpp:202):  *)
(* a body that is not JSON gets that answer.  It does not when the message of *)
(* the error cannot be written (McpProtocol.cpp:36-37).                       *)
MalformedAnswered ==
    /\ conn # "terminated"
    /\ conn = "closing" /\ reply = 200 /\ Content.kind \in {"invalid", "ill-formed"} =>
         answers = <<[to |-> 0, what |-> "parse error"]>>
================================================================================
