-------------------------------- MODULE Server --------------------------------
(***************************************************************************)
(* The server process over one connection: main.rs reads a message, handles*)
(* it to the end and writes the response, one at a time; server.rs gates   *)
(* every method but initialize until the client has authenticated; tools   *)
(* run behind the list of allowed ones; the audit log follows along.  The  *)
(* client may send ahead of the answers, send something broken and close   *)
(* its end; the process may die at any point and be started again.         *)
(***************************************************************************)
EXTENDS Transport, AuditLog

CONSTANTS MaxRequests,   \* bound on the messages sent, over all processes
          MaxPipelined,  \* bound on the messages sent and not answered
          MaxRestarts    \* bound on the restarts of the process

ASSUME RequestsAssumption == /\ MaxRequests \in Nat
                             /\ MaxPipelined \in Nat
                             /\ MaxRestarts \in Nat

\* The requests told apart: initialize with the token and without it, a
\* notification, the list of tools, a call of an allowed tool and of another one;
\* plain is answered at once and not logged: ping, an unknown method, a call that
\* names no tool; invalid is JSON but no request of JSON-RPC 2.0.
Requests == {"initGood", "initBad", "notification", "list", "callAllowed", "callDenied",
             "plain", "invalid"}

ASSUME RequestsAreMessages == Messages = [kind : Requests, id : 1..MaxRequests]

VARIABLES
    input,          \* what has arrived on standard input and is not read
    sender,         \* how the client sends: "framed", "line", nothing any more ("silent"),
                    \* or its end of the connection is closed
    sent,           \* messages sent, over all processes
    accepted,       \* the client has sent a valid token, or needs none (history)
    pending,        \* the answers the client waits for (history)
    pc,             \* where the main loop stands
    lineMode,       \* McpTransport.line_delimited_json_mode
    request,        \* the message being handled
    answer,         \* the response to it
    secured,        \* a token is configured
    authenticated,  \* ServerState.client_authenticated
    fails,          \* AUTH_FAILURE_COUNT
    delay,          \* the back-off being slept through, in milliseconds
    restarts

clientVars == <<input, sender, sent, accepted, pending>>
authVars == <<secured, authenticated, fails, delay>>
loopVars == <<pc, lineMode, request, answer>>
vars == <<clientVars, loopVars, authVars, auditVars, restarts>>

Codes == {"ok", "unauthorized", "denied", "plain", "invalid"}
Styles == {"framed", "line"}
Answers == [id : 1..MaxRequests, code : Codes, style : Styles]
NoAnswer == [code |-> "none"]

\* Types; an authenticated client has no failures that count against it.
TypeOK == /\ input \in Seq(Lines)
          /\ sender \in Styles \cup {"silent", "closed"}
          /\ sent \in 0..MaxRequests
          /\ accepted \in BOOLEAN
          /\ pending \in Seq(Answers)
          /\ pc \in {"reading", "handling", "refusing", "tool", "writing", "down"}
          /\ lineMode \in BOOLEAN
          /\ request \in Messages \cup {NoMessage}
          /\ answer \in Answers \cup {NoAnswer}
          /\ secured \in BOOLEAN
          /\ authenticated \in BOOLEAN
          /\ fails \in IF authenticated THEN {0} ELSE Nat
          /\ delay \in Nat /\ delay <= 2000
          /\ restarts \in 0..MaxRestarts
          /\ AuditTypeOK

Init == /\ input = <<>> /\ sender = "framed" /\ sent = 0 /\ pending = <<>>
        /\ lineMode = FALSE /\ request = NoMessage /\ answer = NoAnswer
        /\ pc = "reading"
        /\ secured \in BOOLEAN
        /\ accepted = ~secured /\ authenticated = ~secured
        /\ fails = 0 /\ delay = 0
        /\ restarts = 0
        /\ AuditInit

\* A process and its connection end, and with them all they know.
End == /\ pc' = "down"
       /\ input' = <<>> /\ sender' = "closed" /\ pending' = <<>>
       /\ lineMode' = FALSE /\ request' = NoMessage /\ answer' = NoAnswer
       /\ secured' = FALSE /\ accepted' = FALSE /\ authenticated' = FALSE
       /\ fails' = 0 /\ delay' = 0
       /\ UNCHANGED <<sent, auditVars, restarts>>
-------------------------------------------------------------------------------
(* The client *)

Quiet == UNCHANGED <<loopVars, authVars, auditVars, restarts>>

\* What the protocol promises for a request, from the requests sent before it.
ToAccepted == [initBad |-> {"ok"}, notification |-> {}, list |-> {"ok"},
               callAllowed |-> {"ok"}, callDenied |-> {"denied"}, plain |-> {"plain"}]
Promised(kind) ==
    IF kind = "invalid" THEN {"invalid"}
    ELSE IF kind = "initGood" THEN {"ok"}
    ELSE IF accepted THEN ToAccepted[kind] ELSE {"unauthorized"}

Message(kind) == [kind |-> kind, id |-> sent + 1]

\* A client may go over to one message per line, with blank ones between, not back.
Send(kind, style) ==
    /\ sender = style \/ (sender = "framed" /\ style = "line")
    /\ sent < MaxRequests
    /\ Len(pending) < MaxPipelined
    /\ sent' = sent + 1
    /\ sender' = style
    /\ \/ style = "framed" /\ input' = input \o Framed(Message(kind))
       \/ style = "line" /\ input' = input \o OneLine(Message(kind))
       \/ /\ style = "line" /\ sender = "line"
          /\ input' = input \o <<Plain("blank")>> \o OneLine(Message(kind))
    /\ pending' = pending \o
           IF Promised(kind) = {} THEN <<>>
           ELSE <<[id |-> sent + 1, code |-> CHOOSE c \in Promised(kind) : TRUE, style |-> style]>>
    /\ accepted' = (accepted \/ kind = "initGood")
    /\ Quiet

\* The last a client sends may be anything but a message.  Neither this nor the
\* end of the input is seen before the next read, and a read takes no more than
\* one message (PipelinedFrame, PipelinedLine): so garbage comes to a loop that
\* waits for a message, and the end to one that reads.
Garbage == {<<Plain(kind)>> : kind \in {"junk", "broken", "blank"}}
           \cup {<<Plain(kind), Plain("blank")>> : kind \in {"type", "badLength", "length"}}
           \cup {<<Plain("length"), Plain(kind)>> : kind \in {"length", "type"}}
           \cup {<<Plain("length"), Plain("blank"), Plain("broken")>>}

SendGarbage == /\ sender \in Styles
               /\ pc = "reading" /\ input = <<>>
               /\ \E lines \in Garbage : input' = lines
               /\ sender' = "silent"
               /\ UNCHANGED <<sent, accepted, pending>>
               /\ Quiet

Close == /\ sender # "closed"
         /\ pc = "reading"
         /\ sender' = "closed"
         /\ UNCHANGED <<input, sent, accepted, pending>>
         /\ Quiet
-------------------------------------------------------------------------------
(* The main loop *)

Serving == UNCHANGED <<sender, sent, accepted, secured, restarts>>
Handling(kinds) == pc = "handling" /\ request.kind \in kinds

\* The next message, once it has arrived.
Read == LET next == ReadMessage(input, lineMode)
        IN  /\ pc = "reading"
            /\ next.kind = "message"
            /\ input' = Unread(input, next)
            /\ lineMode' = next.lineMode
            /\ request' = next.body
            /\ pc' = "handling"
            /\ UNCHANGED <<answer, pending, authenticated, fails, delay, auditVars>>
            /\ Serving

\* The end of the input, whether within a message or not, and whatever is not a
\* message end the process.
Stop == LET next == ReadMessage(input, lineMode)
        IN  /\ pc = "reading"
            /\ next.kind = "error" \/ (next.kind = "wait" /\ sender = "closed")
            /\ End

\* The id tells which message is answered; the code says null where that has none.
Respond(code) == /\ answer' = [id |-> request.id, code |-> code, style |-> IF lineMode THEN "line" ELSE "framed"]
                 /\ pc' = "writing"

\* What a step of a handler leaves alone.
Within == /\ UNCHANGED <<input, pending, lineMode, request>>
          /\ Serving
NoAuthChange == UNCHANGED <<authenticated, fails, delay>>

\* Answered before any gate.
RejectMessage == /\ Handling({"invalid"})
                 /\ Respond("invalid")
                 /\ NoAuthChange /\ Within /\ UNCHANGED auditVars

Ungated == {"initGood", "initBad", "invalid"}

\* Every method but initialize, notifications too, needs a client that has
\* authenticated.
Unauthorized == /\ Handling(Requests \ Ungated)
                /\ ~authenticated
                /\ LogEvent("other")
                /\ Respond("unauthorized")
                /\ NoAuthChange /\ Within

TokenFound == secured /\ request.kind = "initGood"

\* Mutant: the failures before the token are never forgotten.
AcceptClientCounted == /\ Handling({"initGood", "initBad"})
                       /\ authenticated \/ TokenFound
                       /\ authenticated' = TRUE
                       /\ LogEvent("other")
                       /\ Respond("ok")
                       /\ Within /\ UNCHANGED <<fails, delay>>

\* initialize with the token, or after it, or where none is needed.
AcceptClient == /\ Handling({"initGood", "initBad"})
                /\ authenticated \/ TokenFound
                /\ authenticated' = TRUE
                /\ fails' = IF TokenFound THEN 0 ELSE fails
                /\ LogEvent("other")
                /\ Respond("ok")
                /\ Within /\ UNCHANGED delay

\* Mutant: whoever is refused once is let in afterwards.
RefuseClientOnce == /\ Handling({"initBad"})
                    /\ ~authenticated
                    /\ authenticated' = TRUE
                    /\ fails' = fails + 1
                    /\ delay' = 0
                    /\ pc' = "refusing"
                    /\ UNCHANGED <<answer, auditVars>>
                    /\ Within

\* From the third failure on the answer is held back, twice as long every time.
Doublings == <<1, 2, 4, 8, 16>>
Lesser(m, n) == IF m <= n THEN m ELSE n
Backoff(n) == IF n < 3 THEN 0 ELSE Lesser(250 * Doublings[Lesser(n - 3, 4) + 1], 2000)

RefuseClient == /\ Handling({"initBad"})
                /\ ~authenticated
                /\ fails' = fails + 1
                /\ delay' = Backoff(fails')
                /\ pc' = "refusing"
                /\ UNCHANGED <<authenticated, answer, auditVars>>
                /\ Within

\* The wait is over.
Refuse == /\ pc = "refusing"
          /\ delay' = 0
          /\ LogEvent("other")
          /\ Respond("unauthorized")
          /\ UNCHANGED <<authenticated, fails>>
          /\ Within

\* A notification is not answered.
Notified == /\ Handling({"notification"})
            /\ authenticated
            /\ pc' = "reading"
            /\ request' = NoMessage
            /\ UNCHANGED <<input, pending, lineMode, answer, auditVars>>
            /\ NoAuthChange /\ Serving

AnswerPlain == /\ Handling({"plain"})
               /\ authenticated
               /\ Respond("plain")
               /\ NoAuthChange /\ Within /\ UNCHANGED auditVars

AnswerLogged == /\ authenticated
                /\ \/ Handling({"list"}) /\ Respond("ok")
                   \/ Handling({"callDenied"}) /\ Respond("denied")
                /\ LogEvent("other")
                /\ NoAuthChange /\ Within

CallTool == /\ Handling({"callAllowed"})
            /\ authenticated
            /\ LogEvent("start")
            /\ pc' = "tool"
            /\ UNCHANGED answer
            /\ NoAuthChange /\ Within

\* Mutant: only a tool that succeeds is logged.
ToolReturnsUnlogged == /\ pc = "tool"
                       /\ \/ LogEvent("end")
                          \/ UNCHANGED auditVars
                       /\ Respond("ok")
                       /\ NoAuthChange /\ Within

\* Whatever comes of it, a result, an error or the timeout: it is a result to the
\* protocol.
ToolReturns == /\ pc = "tool"
               /\ LogEvent("end")
               /\ Respond("ok")
               /\ NoAuthChange /\ Within

\* The response reaches the client.
Write == /\ pc = "writing"
         /\ pending' = SubSeq(pending, 2, Len(pending))
         /\ pc' = "reading"
         /\ request' = NoMessage /\ answer' = NoAnswer
         /\ UNCHANGED <<input, lineMode, auditVars>>
         /\ NoAuthChange /\ Serving

\* Or the pipe is closed.
WriteFails == /\ pc = "writing"
              /\ End
-------------------------------------------------------------------------------
Die == pc # "down" /\ End

Restart == /\ pc = "down"
           /\ restarts < MaxRestarts
           /\ restarts' = restarts + 1
           /\ pc' = "reading"
           /\ sender' = "framed"
           /\ secured' \in BOOLEAN
           /\ accepted' = ~secured' /\ authenticated' = ~secured'
           /\ UNCHANGED <<input, sent, pending, lineMode, request, answer, fails, delay>>
           /\ RestartLog

ClientNext == \/ \E kind \in Requests, style \in Styles : Send(kind, style)
              \/ SendGarbage
              \/ Close

LoopNext == \/ Read \/ Stop
            \/ RejectMessage \/ Unauthorized \/ AcceptClient
            \/ RefuseClient \/ Refuse
            \/ Notified \/ AnswerPlain \/ AnswerLogged
            \/ CallTool \/ ToolReturns
            \/ Write \/ WriteFails

Next == ClientNext \/ LoopNext \/ Die \/ Restart

\* The loop goes on by itself: a tool returns because it has a timeout.  The
\* client sends what and when it likes; processes die and are started by others.
Spec == Init /\ [][Next]_vars /\ WF_vars(LoopNext)
-------------------------------------------------------------------------------
(* Properties *)

\* The answer about to be written is the one the client waits for next: of the
\* oldest message not answered, in the style it was sent in, with the outcome
\* that the messages before it call for.
AnswersAsPromised == pc = "writing" => pending # <<>> /\ answer = Head(pending)

\* Between the two lines of a tool call there is no other, and neither is there
\* without the other, unless an append failed or the process went down there.
AuditBrackets ==
    /\ pc = "tool" => \/ NextLine \in breaks
                      \/ log # <<>> /\ log[Len(log)].event = "start"
    /\ \A i \in 2..Len(log) :
           i \notin breaks => (log[i].event = "end" <=> log[i - 1].event = "start")

\* An answer the client waits for comes, or the process ends.
Owed(n) == \E i \in DOMAIN pending : pending[i].id = n
EveryRequestAnswered ==
    \A n \in 1..MaxRequests : Owed(n) ~> (~Owed(n) \/ pc = "down")
================================================================================
