----------------------------- MODULE ServerProofs -----------------------------
(***************************************************************************)
(* What is proved of the server process for any number of messages,        *)
(* restarts and lost lines: it writes its log as AuditLog says, the chain   *)
(* of the log tells of every loss between two lines, tool calls are         *)
(* bracketed in it; a message sent ahead is not lost; the back-off; and     *)
(* every answer is the one its client waits for.                            *)
(***************************************************************************)
EXTENDS Server, WellFoundedInduction, TLAPS

(* The transport *)

\* Whatever has arrived behind a framed message, reading takes that message and
\* leaves the rest (transport.rs:93-99, "consumed correctly on the next call").
THEOREM PipelinedFrame ==
    ASSUME NEW m \in Messages, NEW rest \in Seq(Lines)
    PROVE  LET arrived == Framed(m) \o rest
               next == ReadMessage(arrived, FALSE)
           IN  /\ next = Outcome("message", 3, m, FALSE)
               /\ Unread(arrived, next) = rest
<1> DEFINE arrived == Framed(m) \o rest
<1>1. /\ arrived \in Seq(Lines)
      /\ Len(arrived) = 3 + Len(rest)
      /\ arrived[1] = Plain("length") /\ arrived[2] = Plain("blank") /\ arrived[3] = Json(m)
  BY DEF Framed, Lines, Plain, Json
<1>2. DOMAIN arrived = 1..(3 + Len(rest)) /\ arrived # <<>> /\ Len(rest) \in Nat
  BY <1>1
<1>3. /\ arrived[1].kind = "length" /\ arrived[2].kind = "blank"
      /\ arrived[3].kind = "json" /\ arrived[3].body = m
  BY <1>1 DEF Plain, Json
<1>4. 2 \in Blanks(arrived) /\ 1 \notin Blanks(arrived)
  BY <1>2, <1>3 DEF Blanks
<1>5. Headers(arrived) = {1}
  BY <1>2, <1>4 DEF Headers, Blanks
<1>6. First(Blanks(arrived)) = 2
  <2>1. 2 \in Blanks(arrived) /\ \A j \in Blanks(arrived) : 2 <= j
    BY <1>2, <1>4 DEF Blanks
  <2>2. \A i \in Blanks(arrived) : (\A j \in Blanks(arrived) : i <= j) => i = 2
    BY <1>2, <2>1 DEF Blanks
  <2> QED BY <2>1, <2>2 DEF First
<1>7. ~Faulty(arrived, 1)
  BY <1>3, HeadersAssumption DEF Faulty
<1>8. ReadMessage(arrived, FALSE) = Outcome("message", 3, m, FALSE)
  <2>1. ~LooksLikeJson(Head(arrived))
    BY <1>1, <1>2, <1>3 DEF LooksLikeJson
  <2>2. ReadMessage(arrived, FALSE) = ReadFramed(arrived)
    BY <1>2, <2>1 DEF ReadMessage
  <2>3. /\ ~(\E i \in Headers(arrived) : Faulty(arrived, i))
        /\ Blanks(arrived) # {}
        /\ Measured(arrived)
        /\ Len(arrived) # First(Blanks(arrived))
    BY <1>1, <1>2, <1>3, <1>4, <1>5, <1>6, <1>7 DEF Measured
  <2>4. ReadFramed(arrived) = Parsed(arrived, 3, FALSE)
    <3>1. ReadFramed(arrived) = Parsed(arrived, First(Blanks(arrived)) + 1, FALSE)
      BY <2>3 DEF ReadFramed
    <3> QED BY <3>1, <1>6
  <2> QED BY <1>3, <2>2, <2>4 DEF Parsed
<1>9. Unread(arrived, Outcome("message", 3, m, FALSE)) = rest
  BY <1>1, <1>2 DEF Unread, Outcome, Framed
<1> QED BY <1>8, <1>9

\* The same of a message on a line of its own, once the mode is on.
THEOREM PipelinedLine ==
    ASSUME NEW m \in Messages, NEW rest \in Seq(Lines), NEW lineDelimited \in BOOLEAN
    PROVE  LET arrived == OneLine(m) \o rest
               next == ReadMessage(arrived, lineDelimited)
           IN  /\ next = Outcome("message", 1, m, TRUE)
               /\ Unread(arrived, next) = rest
<1> DEFINE arrived == OneLine(m) \o rest
<1>1. /\ arrived \in Seq(Lines)
      /\ Len(arrived) = 1 + Len(rest)
      /\ arrived[1] = Json(m)
  BY DEF OneLine, Lines, Plain, Json
<1>2. DOMAIN arrived = 1..(1 + Len(rest)) /\ arrived # <<>> /\ Len(rest) \in Nat
  BY <1>1
<1>3. arrived[1].kind = "json" /\ arrived[1].body = m
  BY <1>1 DEF Json
<1>4. Parsed(arrived, 1, TRUE) = Outcome("message", 1, m, TRUE)
  BY <1>3 DEF Parsed
<1>5. ReadMessage(arrived, TRUE) = Parsed(arrived, 1, TRUE)
  <2>1. 1 \in DOMAIN arrived \ Blanks(arrived)
    BY <1>2, <1>3 DEF Blanks
  <2>2. \A j \in DOMAIN arrived \ Blanks(arrived) : 1 <= j
    BY <1>2
  <2>3. \A i \in DOMAIN arrived \ Blanks(arrived) :
            (\A j \in DOMAIN arrived \ Blanks(arrived) : i <= j) => i = 1
    BY <1>2, <2>1
  <2>4. First(DOMAIN arrived \ Blanks(arrived)) = 1
    BY <2>1, <2>2, <2>3 DEF First
  <2>5. ReadLine(arrived) = Parsed(arrived, First(DOMAIN arrived \ Blanks(arrived)), TRUE)
    BY <2>1 DEF ReadLine
  <2> QED BY <2>4, <2>5 DEF ReadMessage
<1>6. ReadMessage(arrived, FALSE) = Parsed(arrived, 1, TRUE)
  <2>1. LooksLikeJson(Head(arrived))
    BY <1>1, <1>2, <1>3 DEF LooksLikeJson
  <2> QED BY <1>2, <2>1 DEF ReadMessage
<1>7. Unread(arrived, Outcome("message", 1, m, TRUE)) = rest
  BY <1>1, <1>2 DEF Unread, Outcome, OneLine
<1>8. ReadMessage(arrived, lineDelimited) = Parsed(arrived, 1, TRUE)
  <2>1. lineDelimited = TRUE \/ lineDelimited = FALSE
    OBVIOUS
  <2> QED BY <1>5, <1>6, <2>1
<1> QED BY <1>4, <1>7, <1>8

LEMMA BackoffType == ASSUME NEW n \in Nat PROVE Backoff(n) \in Nat /\ Backoff(n) <= 2000
<1>1. CASE n < 3
  BY <1>1 DEF Backoff
<1>2. CASE n >= 3
  <2>1. Lesser(n - 3, 4) + 1 \in 1..5
    BY <1>2 DEF Lesser
  <2>2. Doublings[Lesser(n - 3, 4) + 1] \in 1..16
    BY <2>1 DEF Doublings
  <2>3. Backoff(n) = Lesser(250 * Doublings[Lesser(n - 3, 4) + 1], 2000)
    BY <1>2 DEF Backoff
  <2> QED BY <2>2, <2>3 DEF Lesser
<1> QED BY <1>1, <1>2

\* However often a client fails, it waits no longer than two seconds, and never
\* less than the time before (server.rs:116-118).
THEOREM BackoffBounded ==
    ASSUME NEW m \in Nat, NEW n \in Nat, m <= n
    PROVE  Backoff(m) \in 0..2000 /\ Backoff(m) <= Backoff(n)
<1>1. CASE m < 3
  <2>1. Backoff(m) = 0
    BY <1>1 DEF Backoff
  <2>2. Backoff(n) \in Nat /\ Backoff(n) <= 2000
    BY BackoffType
  <2> QED BY <2>1, <2>2
<1>2. CASE m >= 3
  <2>1. Lesser(m - 3, 4) + 1 <= Lesser(n - 3, 4) + 1
    BY <1>2 DEF Lesser
  <2>2. Lesser(m - 3, 4) + 1 \in 1..5 /\ Lesser(n - 3, 4) + 1 \in 1..5
    BY <1>2 DEF Lesser
  <2>3. \A i, j \in 1..5 : i <= j => Doublings[i] <= Doublings[j]
    BY DEF Doublings
  <2>4. \A i \in 1..5 : Doublings[i] \in 1..16
    BY DEF Doublings
  <2>5. Doublings[Lesser(m - 3, 4) + 1] <= Doublings[Lesser(n - 3, 4) + 1]
    BY <2>1, <2>2, <2>3
  <2>6. /\ Doublings[Lesser(m - 3, 4) + 1] \in 1..16
        /\ Doublings[Lesser(n - 3, 4) + 1] \in 1..16
    BY <2>2, <2>4
  <2> QED BY <1>2, <2>5, <2>6 DEF Backoff, Lesser
<1> QED BY <1>1, <1>2
-------------------------------------------------------------------------------
(* The chain of the log *)

\* A hash belongs to one event only.  What is left for the next event is the hash
\* of the last line exactly if that line was the last thing that happened.
AuditInv == /\ hashed \in Nat
            /\ prevHash \in 0..hashed
            /\ log \in Seq(Entries)
            /\ breaks \subseteq 1..NextLine
            /\ \A i \in 1..Len(log) : log[i].hash \in 1..hashed
            /\ log # <<>> => (prevHash = log[Len(log)].hash <=> NextLine \notin breaks)
            /\ ChainTellsLosses

LEMMA AuditInvInit == AuditInit => AuditInv
<1> SUFFICES ASSUME AuditInit PROVE AuditInv
  OBVIOUS
<1>1. Len(log) = 0 /\ log \in Seq(Entries)
  BY DEF AuditInit
<1> QED BY <1>1 DEF AuditInit, AuditInv, ChainTellsLosses, NextLine, Seed

\* A line that is written: the log grows by it.
LEMMA WriteKeepsChain ==
    ASSUME AuditInv, NEW event \in Events,
           hashed' = hashed + 1, prevHash' = hashed',
           log' = Append(log, [event |-> event, prev |-> prevHash, hash |-> hashed']),
           UNCHANGED breaks
    PROVE  AuditInv'
<1> DEFINE line == [event |-> event, prev |-> prevHash, hash |-> hashed + 1]
<1>1. hashed' \in Nat /\ prevHash' \in 0..hashed' /\ line \in Entries
  BY DEF AuditInv, Entries
<1>2. /\ log' \in Seq(Entries) /\ Len(log') = Len(log) + 1
      /\ \A i \in 1..Len(log) : log'[i] = log[i]
      /\ log'[Len(log) + 1] = line
      /\ Len(log) \in Nat
  BY <1>1 DEF AuditInv
<1>3. breaks' \subseteq 1..NextLine' /\ NextLine' \notin breaks'
  BY <1>2 DEF AuditInv, NextLine
<1>4. \A i \in 1..Len(log') : log'[i].hash \in 1..hashed'
  <2> SUFFICES ASSUME NEW i \in 1..Len(log') PROVE log'[i].hash \in 1..hashed'
    OBVIOUS
  <2>1. CASE i <= Len(log)
    BY <1>2, <2>1 DEF AuditInv
  <2>2. CASE i = Len(log) + 1
    BY <1>1, <1>2, <2>2 DEF AuditInv
  <2> QED BY <1>2, <2>1, <2>2
<1>5. prevHash' = log'[Len(log')].hash
  BY <1>2
<1>6. ChainTellsLosses'
  <2> SUFFICES ASSUME NEW i \in 2..Len(log') PROVE Chained(i)' <=> i \notin breaks'
    BY DEF ChainTellsLosses
  <2>1. CASE i <= Len(log)
    <3>1. i \in 2..Len(log) /\ i - 1 \in 1..Len(log) /\ i \in 1..Len(log)
      BY <1>2, <2>1
    <3>2. log'[i] = log[i] /\ log'[i - 1] = log[i - 1]
      BY <1>2, <3>1
    <3>3. Chained(i) <=> i \notin breaks
      BY <3>1 DEF AuditInv, ChainTellsLosses
    <3> QED BY <3>2, <3>3 DEF Chained
  <2>2. CASE i = Len(log) + 1
    <3>1. log # <<>> /\ Len(log) \in 1..Len(log) /\ i - 1 = Len(log) /\ i = NextLine
      BY <1>2, <2>2 DEF NextLine
    <3>2. log'[i].prev = prevHash /\ log'[i - 1] = log[Len(log)]
      BY <1>2, <2>2, <3>1
    <3>3. prevHash = log[Len(log)].hash <=> NextLine \notin breaks
      BY <3>1 DEF AuditInv
    <3> QED BY <3>1, <3>2, <3>3 DEF Chained
  <2> QED BY <1>2, <2>1, <2>2
<1> QED BY <1>1, <1>2, <1>3, <1>4, <1>5, <1>6 DEF AuditInv

\* A line that is lost and a restart: the log stays, and what is left for the next
\* event is no hash of a line.
LEMMA BreakKeepsChain ==
    ASSUME AuditInv, hashed' \in Nat, hashed' >= hashed,
           prevHash' \in 0..hashed', prevHash' = 0 \/ prevHash' > hashed,
           UNCHANGED log, breaks' = breaks \cup {NextLine}
    PROVE  AuditInv'
<1>1. hashed \in Nat /\ Len(log) \in Nat /\ NextLine' = NextLine
  BY DEF AuditInv, NextLine
<1>2. breaks' \subseteq 1..NextLine' /\ NextLine' \in breaks'
  <2>1. NextLine \in 1..NextLine
    BY <1>1 DEF NextLine
  <2>2. breaks \subseteq 1..NextLine
    BY DEF AuditInv
  <2> QED BY <1>1, <2>1, <2>2
<1>3. \A i \in 1..Len(log) : log[i].hash \in 1..hashed
  BY DEF AuditInv
<1>4. \A i \in 1..Len(log') : log'[i].hash \in 1..hashed'
  BY <1>1, <1>3
<1>5. log # <<>> => prevHash' # log[Len(log)].hash
  BY <1>1, <1>3 DEF AuditInv
<1>6. ChainTellsLosses'
  BY <1>1 DEF AuditInv, ChainTellsLosses, Chained, NextLine
<1> QED BY <1>1, <1>2, <1>4, <1>5, <1>6 DEF AuditInv

LEMMA AuditInvNext == AuditInv /\ [AuditNext]_auditVars => AuditInv'
<1> SUFFICES ASSUME AuditInv, [AuditNext]_auditVars PROVE AuditInv'
  OBVIOUS
<1>1. ASSUME NEW event \in Events, LogEvent(event) PROVE AuditInv'
  <2>1. hashed \in Nat /\ hashed' = hashed + 1 /\ prevHash' = hashed'
    BY <1>1 DEF AuditInv, LogEvent
  <2>2. CASE /\ log' = Append(log, [event |-> event, prev |-> prevHash, hash |-> hashed'])
             /\ UNCHANGED breaks
    BY <1>1, <2>1, <2>2, WriteKeepsChain
  <2>3. CASE breaks' = breaks \cup {NextLine} /\ UNCHANGED log
    BY <2>1, <2>3, BreakKeepsChain
  <2> QED BY <1>1, <2>2, <2>3 DEF LogEvent
<1>2. CASE RestartLog
  <2>1. hashed \in Nat /\ hashed' = hashed /\ prevHash' = 0
    BY <1>2 DEF AuditInv, RestartLog, Seed
  <2> QED BY <1>2, <2>1, BreakKeepsChain DEF RestartLog
<1>3. CASE UNCHANGED auditVars
  BY <1>3 DEF auditVars, AuditInv, ChainTellsLosses, Chained, NextLine
<1> QED BY <1>1, <1>2, <1>3 DEF AuditNext

\* The chain tells of every event lost, and every restart, between two lines, for
\* any number of them (security.rs:136-180).
THEOREM ChainTellsLossesTheorem == AuditSpec => []ChainTellsLosses
<1>1. AuditInv => ChainTellsLosses
  BY DEF AuditInv
<1> QED BY <1>1, AuditInvInit, AuditInvNext, PTL DEF AuditSpec
-------------------------------------------------------------------------------
(* The process and its log *)

\* What a step of the process does to the log, and where the main loop goes.
Outside == {"reading", "handling", "refusing", "writing"}

LogSteps ==
    \/ LogEvent("other") /\ pc \in Outside /\ pc' \in Outside
    \/ LogEvent("start") /\ pc \in Outside /\ pc' = "tool"
    \/ LogEvent("end") /\ pc = "tool" /\ pc' \in Outside
    \/ RestartLog /\ pc = "down" /\ pc' \in Outside
    \/ UNCHANGED auditVars /\ (pc' = pc \/ pc' = "down")
    \/ UNCHANGED auditVars /\ pc \in Outside /\ pc' \in Outside

LEMMA NextLogs == [Next]_vars => LogSteps
<1> SUFFICES ASSUME [Next]_vars PROVE LogSteps
  OBVIOUS
<1> USE DEF LogSteps, Outside
<1>1. ASSUME NEW kind \in Requests, NEW style \in Styles, Send(kind, style) PROVE LogSteps
  BY <1>1 DEF Send, Quiet, loopVars
<1>2. CASE SendGarbage
  BY <1>2 DEF SendGarbage, Quiet, loopVars
<1>3. CASE Close
  BY <1>3 DEF Close, Quiet, loopVars
<1>4. CASE Read
  BY <1>4 DEF Read
<1>5. CASE Stop
  BY <1>5 DEF Stop, End
<1>6. CASE RejectMessage
  BY <1>6 DEF RejectMessage, Handling, Respond
<1>7. CASE Unauthorized
  BY <1>7 DEF Unauthorized, Handling, Respond
<1>8. CASE AcceptClient
  BY <1>8 DEF AcceptClient, Handling, Respond
<1>9. CASE RefuseClient
  BY <1>9 DEF RefuseClient, Handling
<1>10. CASE Refuse
  BY <1>10 DEF Refuse, Respond
<1>11. CASE Notified
  BY <1>11 DEF Notified, Handling
<1>12. CASE AnswerPlain
  BY <1>12 DEF AnswerPlain, Handling, Respond
<1>13. CASE AnswerLogged
  BY <1>13 DEF AnswerLogged, Handling, Respond
<1>14. CASE CallTool
  BY <1>14 DEF CallTool, Handling
<1>15. CASE ToolReturns
  BY <1>15 DEF ToolReturns, Respond
<1>16. CASE Write
  BY <1>16 DEF Write
<1>17. CASE WriteFails
  BY <1>17 DEF WriteFails, End
<1>18. CASE Die
  BY <1>18 DEF Die, End
<1>19. CASE Restart
  BY <1>19 DEF Restart
<1>20. CASE UNCHANGED vars
  BY <1>20 DEF vars, loopVars
<1>21. ClientNext => LogSteps
  BY <1>1, <1>2, <1>3 DEF ClientNext
<1>22. LoopNext => LogSteps
  BY <1>4, <1>5, <1>6, <1>7, <1>8, <1>9, <1>10, <1>11, <1>12, <1>13, <1>14, <1>15, <1>16,
     <1>17 DEF LoopNext
<1> QED BY <1>18, <1>19, <1>20, <1>21, <1>22 DEF Next

LEMMA LogStepsAreAudit == LogSteps => [AuditNext]_auditVars
BY DEF LogSteps, AuditNext, Events

\* The process writes its log as the specification of the log says: every step is
\* an event, a restart or none of its business.
THEOREM WritesAuditLog == Spec => AuditSpec
<1>1. Init => AuditInit
  BY DEF Init
<1> QED BY <1>1, NextLogs, LogStepsAreAudit, PTL DEF Spec, AuditSpec

\* So the chain of a server's log tells of every loss between two of its lines.
THEOREM ServerChain == Spec => []ChainTellsLosses
BY WritesAuditLog, ChainTellsLossesTheorem, PTL

\* The last line opens a tool call exactly while a tool runs, or did when the
\* process went down, unless lines were lost behind it.
LastIs(event) == log # <<>> /\ log[Len(log)].event = event
BracketInv == /\ AuditInv
              /\ pc \in Outside \cup {"tool", "down"}
              /\ pc = "tool" => NextLine \in breaks \/ LastIs("start")
              /\ pc \in Outside => NextLine \in breaks \/ ~LastIs("start")
              /\ \A i \in 2..Len(log) : i \notin breaks =>
                     (log[i].event = "end" <=> log[i - 1].event = "start")

LEMMA BracketInvNext == BracketInv /\ [Next]_vars => BracketInv'
<1> SUFFICES ASSUME BracketInv, LogSteps, AuditInv' PROVE BracketInv'
  BY NextLogs, LogStepsAreAudit, AuditInvNext DEF BracketInv
<1>1. log \in Seq(Entries) /\ Len(log) \in Nat /\ breaks \subseteq 1..NextLine
  BY DEF BracketInv, AuditInv
<1>2. ASSUME NEW event \in Events, LogEvent(event),
             event = "end" <=> pc = "tool", event = "start" <=> pc' = "tool",
             pc \in Outside \cup {"tool"}, pc' \in Outside \cup {"tool"}
      PROVE  BracketInv'
  <2>1. CASE /\ log' = Append(log, [event |-> event, prev |-> prevHash, hash |-> hashed'])
             /\ UNCHANGED breaks
    <3>1. /\ Len(log') = Len(log) + 1
          /\ \A i \in 1..Len(log) : log'[i] = log[i]
          /\ log'[Len(log) + 1].event = event
      BY <1>1, <2>1
    <3>2. LastIs("start")' <=> event = "start"
      BY <1>1, <3>1 DEF LastIs
    <3>3. ASSUME NEW i \in 2..Len(log'), i \notin breaks'
          PROVE  log'[i].event = "end" <=> log'[i - 1].event = "start"
      <4>1. CASE i <= Len(log)
        <5>1. i \in 2..Len(log) /\ i \in 1..Len(log) /\ i - 1 \in 1..Len(log) /\ i \notin breaks
          BY <1>1, <2>1, <3>1, <3>3, <4>1
        <5> QED BY <3>1, <5>1 DEF BracketInv
      <4>2. CASE i = Len(log) + 1
        <5>1. i = NextLine /\ NextLine \notin breaks /\ log # <<>> /\ i - 1 = Len(log)
              /\ Len(log) \in 1..Len(log)
          BY <1>1, <2>1, <3>1, <3>3, <4>2 DEF NextLine
        <5>2. LastIs("start") <=> pc = "tool"
          BY <1>2, <5>1 DEF BracketInv, Outside
        <5>3. LastIs("start") <=> log'[i - 1].event = "start"
          BY <3>1, <5>1 DEF LastIs
        <5> QED BY <1>2, <3>1, <4>2, <5>2, <5>3
      <4> QED BY <1>1, <3>1, <4>1, <4>2
    <3> QED BY <1>2, <3>2, <3>3 DEF BracketInv, Outside
  <2>2. CASE breaks' = breaks \cup {NextLine} /\ UNCHANGED log
    BY <1>2, <2>2 DEF BracketInv, NextLine, LastIs, Outside
  <2> QED BY <1>2, <2>1, <2>2 DEF LogEvent
<1>3. CASE RestartLog /\ pc = "down" /\ pc' \in Outside
  BY <1>3 DEF BracketInv, RestartLog, NextLine, LastIs, Outside
<1>4. CASE UNCHANGED auditVars /\ (pc' = pc \/ pc' = "down")
  BY <1>4 DEF BracketInv, auditVars, NextLine, LastIs, Outside
<1>5. CASE UNCHANGED auditVars /\ pc \in Outside /\ pc' \in Outside
  BY <1>5 DEF BracketInv, auditVars, NextLine, LastIs, Outside
<1>6. CASE LogEvent("other") /\ pc \in Outside /\ pc' \in Outside
  BY <1>2, <1>6 DEF Events, Outside
<1>7. CASE LogEvent("start") /\ pc \in Outside /\ pc' = "tool"
  BY <1>2, <1>7 DEF Events, Outside
<1>8. CASE LogEvent("end") /\ pc = "tool" /\ pc' \in Outside
  BY <1>2, <1>8 DEF Events, Outside
<1> QED BY <1>3, <1>4, <1>5, <1>6, <1>7, <1>8 DEF LogSteps

\* Whatever is lost and however often the process goes down, a tool call whose
\* lines are there has both, next to each other (server.rs:233-258).
THEOREM AuditBracketsTheorem == Spec => []AuditBrackets
<1>1. Init => BracketInv
  <2> SUFFICES ASSUME Init PROVE BracketInv
    OBVIOUS
  <2>1. AuditInv
    BY AuditInvInit DEF Init
  <2>2. log = <<>> /\ Len(log) = 0 /\ pc = "reading"
    BY DEF Init, AuditInit
  <2> QED BY <2>1, <2>2 DEF BracketInv, LastIs, Outside
<1>2. BracketInv => AuditBrackets
  BY DEF BracketInv, AuditBrackets, LastIs
<1> QED BY <1>1, <1>2, BracketInvNext, PTL DEF Spec
-------------------------------------------------------------------------------
(* Types *)

LEMMA FirstIsFirst ==
    ASSUME NEW S \in SUBSET Nat, S # {}
    PROVE  First(S) \in S
<1>1. \E i \in S : \A j \in S : <<j, i>> \notin OpToRel(<, Nat)
  BY NatLessThanWellFounded, WFMin
<1>2. \E i \in S : \A j \in S : i <= j
  <2>1. PICK i \in S : \A j \in S : <<j, i>> \notin OpToRel(<, Nat)
    BY <1>1
  <2>2. \A j \in S : ~(j < i)
    BY <2>1 DEF OpToRel
  <2>3. \A j \in S : i <= j
    BY <2>2
  <2> QED BY <2>3
<1> QED BY <1>2 DEF First

LEMMA ParsedType ==
    ASSUME NEW lines \in Seq(Lines), NEW i \in DOMAIN lines, NEW mode \in BOOLEAN,
           Parsed(lines, i, mode).kind = "message"
    PROVE  /\ Parsed(lines, i, mode).body \in Messages
           /\ Parsed(lines, i, mode).lineMode \in BOOLEAN
           /\ Unread(lines, Parsed(lines, i, mode)) \in Seq(Lines)
<1>1. lines[i] \in Lines /\ i \in Nat /\ Len(lines) \in Nat
  OBVIOUS
<1>2. lines[i].kind = "json" /\ Parsed(lines, i, mode) = Outcome("message", i, lines[i].body, mode)
  BY DEF Parsed, Error, Outcome
<1>3. lines[i].body \in Messages
  BY <1>1, <1>2 DEF Lines, Plain, Json
<1>4. SubSeq(lines, i + 1, Len(lines)) \in Seq(Lines)
  BY <1>1
<1> QED BY <1>2, <1>3, <1>4 DEF Outcome, Unread

\* A message is a line that has arrived.
LEMMA ReadParses ==
    ASSUME NEW lines \in Seq(Lines), NEW mode \in BOOLEAN,
           ReadMessage(lines, mode).kind = "message"
    PROVE  \E i \in DOMAIN lines, m \in BOOLEAN : ReadMessage(lines, mode) = Parsed(lines, i, m)
<1>2. DOMAIN lines = 1..Len(lines) /\ Len(lines) \in Nat
  OBVIOUS
<1>3. Wait(TRUE).kind = "wait" /\ Wait(FALSE).kind = "wait" /\ Error(FALSE).kind = "error"
  BY DEF Wait, Error, Outcome
<1>4. CASE mode = TRUE
  <2> DEFINE filled == DOMAIN lines \ Blanks(lines)
  <2>1. ReadMessage(lines, mode) = ReadLine(lines)
    BY <1>4 DEF ReadMessage
  <2>2. ReadLine(lines) = IF filled = {} THEN Wait(TRUE) ELSE Parsed(lines, First(filled), TRUE)
    BY DEF ReadLine
  <2>3. filled # {}
    BY <1>3, <2>1, <2>2
  <2>4. filled \in SUBSET Nat
    BY <1>2
  <2>5. First(filled) \in DOMAIN lines
    BY <2>3, <2>4, FirstIsFirst
  <2>6. ReadMessage(lines, mode) = Parsed(lines, First(filled), TRUE)
    BY <2>1, <2>2, <2>3
  <2> QED BY <2>5, <2>6
<1>5. CASE mode = FALSE
  <2>1. lines # <<>>
    BY <1>3, <1>5 DEF ReadMessage
  <2>2. 1 \in DOMAIN lines
    BY <1>2, <2>1
  <2>3. CASE LooksLikeJson(Head(lines))
    <3>1. ReadMessage(lines, mode) = Parsed(lines, 1, TRUE)
      BY <1>5, <2>1, <2>3 DEF ReadMessage
    <3> QED BY <2>2, <3>1
  <2>4. CASE ~LooksLikeJson(Head(lines))
    <3>1. ReadMessage(lines, mode) = ReadFramed(lines)
      BY <1>5, <2>1, <2>4 DEF ReadMessage
    <3>2. \/ ReadFramed(lines) = Error(FALSE)
          \/ ReadFramed(lines) = Wait(FALSE)
          \/ /\ Blanks(lines) # {}
             /\ Len(lines) # First(Blanks(lines))
             /\ ReadFramed(lines) = Parsed(lines, First(Blanks(lines)) + 1, FALSE)
      BY DEF ReadFramed
    <3>3. /\ Blanks(lines) # {}
          /\ Len(lines) # First(Blanks(lines))
          /\ ReadFramed(lines) = Parsed(lines, First(Blanks(lines)) + 1, FALSE)
      BY <1>3, <3>1, <3>2
    <3>4. Blanks(lines) \in SUBSET Nat /\ Blanks(lines) \subseteq DOMAIN lines
      BY <1>2 DEF Blanks
    <3>5. First(Blanks(lines)) \in 1..Len(lines)
      BY <1>2, <3>3, <3>4, FirstIsFirst
    <3>6. First(Blanks(lines)) + 1 \in DOMAIN lines
      BY <1>2, <3>3, <3>5
    <3> QED BY <3>1, <3>3, <3>6
  <2> QED BY <2>3, <2>4
<1> QED BY <1>4, <1>5

LEMMA ReadType ==
    ASSUME NEW lines \in Seq(Lines), NEW mode \in BOOLEAN,
           ReadMessage(lines, mode).kind = "message"
    PROVE  /\ ReadMessage(lines, mode).body \in Messages
           /\ ReadMessage(lines, mode).lineMode \in BOOLEAN
           /\ Unread(lines, ReadMessage(lines, mode)) \in Seq(Lines)
BY ReadParses, ParsedType

\* What a step may rely on: a message is being handled where one is needed, and
\* nothing is left of a process that is down.
TypeInv == /\ TypeOK
           /\ pc \in {"handling", "refusing", "tool"} => request \in Messages
           /\ pc = "down" => fails = 0

LEMMA LogKeepsTypes ==
    ASSUME AuditTypeOK, [AuditNext]_auditVars
    PROVE  AuditTypeOK'
<1>1. ASSUME NEW event \in Events, LogEvent(event) PROVE AuditTypeOK'
  <2>1. [event |-> event, prev |-> prevHash, hash |-> hashed + 1] \in Entries
    BY DEF AuditTypeOK, Entries
  <2>2. hashed' \in Nat /\ prevHash' \in Nat
    BY <1>1 DEF AuditTypeOK, LogEvent
  <2>3. NextLine \in Nat
    BY DEF AuditTypeOK, NextLine
  <2>4. log' \in Seq(Entries)
    BY <1>1, <2>1 DEF AuditTypeOK, LogEvent
  <2>5. lost' \in 0..MaxLost
    BY <1>1, LostAssumption DEF AuditTypeOK, LogEvent
  <2>6. breaks' \in SUBSET Nat
    BY <1>1, <2>3 DEF AuditTypeOK, LogEvent
  <2> QED BY <2>2, <2>4, <2>5, <2>6 DEF AuditTypeOK
<1>2. CASE RestartLog
  <2>1. NextLine \in Nat
    BY DEF AuditTypeOK, NextLine
  <2> QED BY <1>2, <2>1 DEF AuditTypeOK, RestartLog, Seed
<1>3. CASE UNCHANGED auditVars
  BY <1>3 DEF AuditTypeOK, auditVars
<1> QED BY <1>1, <1>2, <1>3 DEF AuditNext

LEMMA EndTypes ==
    End => /\ accepted' \in BOOLEAN /\ secured' \in BOOLEAN
           /\ lineMode' \in BOOLEAN /\ authenticated' \in BOOLEAN
BY Zenon DEF End

LEMMA TypeInvNext == TypeInv /\ [Next]_vars => TypeInv'
<1> SUFFICES ASSUME TypeInv, [Next]_vars, AuditTypeOK' PROVE TypeInv'
  BY NextLogs, LogStepsAreAudit, LogKeepsTypes DEF TypeInv, TypeOK
<1> USE RequestsAssumption DEF TypeInv, TypeOK
<1>1. ASSUME NEW kind \in Requests, NEW style \in Styles, Send(kind, style) PROVE TypeInv'
  <2>1. sent + 1 \in 1..MaxRequests /\ sent' = sent + 1
    BY <1>1 DEF Send
  <2> DEFINE m == Message(kind)
             code == CHOOSE c \in Promised(kind) : TRUE
  <2>2. Json(m) \in Lines /\ Plain("length") \in Lines /\ Plain("blank") \in Lines
    BY <2>1, RequestsAreMessages DEF Lines, Message
  <2>3. /\ Framed(m) \in Seq(Lines) /\ OneLine(m) \in Seq(Lines)
        /\ <<>> \in Seq(Lines) /\ <<Plain("blank")>> \in Seq(Lines)
    BY <2>2 DEF Framed, OneLine
  <2>4. input' \in Seq(Lines)
    <3>1. CASE input' = input \o Framed(m)
      BY <2>3, <3>1
    <3>2. CASE input' = input \o OneLine(m)
      BY <2>3, <3>2
    <3>3. CASE input' = input \o <<Plain("blank")>> \o OneLine(m)
      BY <2>3, <3>3
    <3>4. \/ input' = input \o Framed(m)
          \/ input' = input \o OneLine(m)
          \/ input' = input \o <<Plain("blank")>> \o OneLine(m)
      <4> HIDE DEF TypeInv, TypeOK, m, code
      <4>1. m = Message(kind)
        BY DEF m
      <4> QED
        BY <1>1, <4>1, Zenon DEF Send
    <3> QED BY <3>1, <3>2, <3>3, <3>4
  <2>5. Promised(kind) = {} \/ \E c \in Codes : Promised(kind) = {c}
    BY DEF Promised, ToAccepted, Codes, Requests
  <2>6. pending' \in Seq(Answers)
    <3>1. CASE Promised(kind) = {}
      <4>1. pending' = pending \o <<>>
        BY <1>1, <3>1 DEF Send
      <4> QED BY <4>1
    <3>2. CASE Promised(kind) # {}
      <4>1. code \in Codes
        BY <2>5, <3>2
      <4>2. [id |-> sent + 1, code |-> code, style |-> style] \in Answers
        BY <2>1, <4>1 DEF Answers
      <4>3. pending' = pending \o <<[id |-> sent + 1, code |-> code, style |-> style]>>
        BY <1>1, <3>2 DEF Send
      <4> QED BY <4>2, <4>3
    <3> QED BY <3>1, <3>2
  <2>7. accepted' \in BOOLEAN
    BY <1>1 DEF Send
  <2>8. sender' = style /\ UNCHANGED <<loopVars, authVars, restarts>>
    BY <1>1 DEF Send, Quiet
  <2> QED BY <2>1, <2>4, <2>6, <2>7, <2>8 DEF loopVars, authVars
<1>2. CASE SendGarbage
  <2>1. \A kind \in {"length", "badLength", "type", "junk", "blank", "broken"} :
            Plain(kind) \in Lines
    BY DEF Lines
  <2>2. \A lines \in Garbage : lines \in Seq(Lines)
    <3> SUFFICES ASSUME NEW lines \in Garbage PROVE lines \in Seq(Lines)
      OBVIOUS
    <3>1. CASE \E kind \in {"junk", "broken", "blank"} : lines = <<Plain(kind)>>
      BY <2>1, <3>1
    <3>2. CASE \E kind \in {"type", "badLength", "length"} : lines = <<Plain(kind), Plain("blank")>>
      BY <2>1, <3>2
    <3>3. CASE \E kind \in {"length", "type"} : lines = <<Plain("length"), Plain(kind)>>
      BY <2>1, <3>3
    <3>4. CASE lines = <<Plain("length"), Plain("blank"), Plain("broken")>>
      BY <2>1, <3>4
    <3> QED BY <3>1, <3>2, <3>3, <3>4 DEF Garbage
  <2> QED BY <1>2, <2>2 DEF SendGarbage, Quiet, loopVars, authVars
<1>3. CASE Close
  BY <1>3 DEF Close, Quiet, loopVars, authVars
<1>4. CASE Read
  <2>1. /\ input' \in Seq(Lines) /\ lineMode' \in BOOLEAN /\ request' \in Messages
        /\ pc' = "handling"
    BY <1>4, ReadType DEF Read
  <2> QED BY <1>4, <2>1 DEF Read, Serving
<1>5. CASE End
  <2>1. <<>> \in Seq(Lines) /\ <<>> \in Seq(Answers)
    OBVIOUS
  <2>2. fails' \in IF authenticated' THEN {0} ELSE Nat
    BY <1>5 DEF End
  <2>3. /\ accepted' \in BOOLEAN /\ secured' \in BOOLEAN
        /\ lineMode' \in BOOLEAN /\ authenticated' \in BOOLEAN
    BY <1>5, EndTypes
  <2>4. request' \in Messages \cup {NoMessage} /\ answer' \in Answers \cup {NoAnswer}
    BY <1>5 DEF End
  <2>5. input' \in Seq(Lines) /\ pending' \in Seq(Answers)
    BY <1>5, <2>1 DEF End
  <2>6. /\ sender' = "closed" /\ pc' = "down" /\ delay' = 0 /\ fails' = 0
        /\ UNCHANGED <<sent, restarts>>
    BY <1>5 DEF End
  <2> QED BY <2>2, <2>3, <2>4, <2>5, <2>6
<1>6. ASSUME NEW code \in Codes, Respond(code), request \in Messages
      PROVE  answer' \in Answers /\ pc' = "writing"
  BY <1>6, RequestsAreMessages DEF Respond, Answers, Styles
<1> USE DEF Within, Serving, NoAuthChange, Handling
<1>7. CASE RejectMessage
  BY <1>6, <1>7 DEF RejectMessage, Codes
<1>8. CASE Unauthorized
  BY <1>6, <1>8 DEF Unauthorized, Codes
<1>9. CASE AcceptClient
  BY <1>6, <1>9 DEF AcceptClient, Codes
<1>10. CASE RefuseClient
  <2>1. fails' \in Nat /\ ~authenticated /\ ~authenticated'
    BY <1>10 DEF RefuseClient
  <2>2. delay' \in Nat /\ delay' <= 2000
    <3>1. Backoff(fails') \in Nat /\ Backoff(fails') <= 2000
      BY <2>1, BackoffType
    <3> QED BY <1>10, <3>1 DEF RefuseClient
  <2> QED BY <1>10, <2>1, <2>2 DEF RefuseClient
<1>11. CASE Refuse
  BY <1>6, <1>11 DEF Refuse, Codes
<1>12. CASE Notified
  BY <1>12 DEF Notified
<1>13. CASE AnswerPlain
  BY <1>6, <1>13 DEF AnswerPlain, Codes
<1>14. CASE AnswerLogged
  BY <1>6, <1>14 DEF AnswerLogged, Codes
<1>15. CASE CallTool
  BY <1>15 DEF CallTool
<1>16. CASE ToolReturns
  BY <1>6, <1>16 DEF ToolReturns, Codes
<1>17. CASE Write
  <2>1. SubSeq(pending, 2, Len(pending)) \in Seq(Answers)
    OBVIOUS
  <2> QED BY <1>17, <2>1 DEF Write
<1>18. CASE Restart
  <2>1. fails' = 0 /\ restarts' \in 0..MaxRestarts /\ authenticated' \in BOOLEAN
    BY <1>18 DEF Restart
  <2> QED BY <1>18, <2>1 DEF Restart, Styles
<1>19. CASE UNCHANGED vars
  BY <1>19 DEF vars, clientVars, loopVars, authVars
<1>20. ClientNext => TypeInv'
  BY <1>1, <1>2, <1>3 DEF ClientNext
<1>21. LoopNext => TypeInv'
  BY <1>4, <1>5, <1>7, <1>8, <1>9, <1>10, <1>11, <1>12, <1>13, <1>14, <1>15, <1>16, <1>17
     DEF LoopNext, Stop, WriteFails
<1>22. Die => TypeInv'
  BY <1>5 DEF Die
<1> QED BY <1>18, <1>19, <1>20, <1>21, <1>22 DEF Next

LEMMA TypeInvInit == Init => TypeInv
<1> SUFFICES ASSUME Init PROVE TypeInv
  OBVIOUS
<1>1. AuditTypeOK
  <2>1. <<>> \in Seq(Entries)
    OBVIOUS
  <2> QED BY <2>1, LostAssumption DEF Init, AuditInit, AuditTypeOK, Seed
<1>2. <<>> \in Seq(Lines) /\ <<>> \in Seq(Answers)
  OBVIOUS
<1>3. fails \in IF authenticated THEN {0} ELSE Nat
  BY DEF Init
<1>4. accepted \in BOOLEAN /\ secured \in BOOLEAN /\ authenticated \in BOOLEAN
      /\ lineMode \in BOOLEAN
  BY Zenon DEF Init
<1> QED BY <1>1, <1>2, <1>3, <1>4, RequestsAssumption DEF Init, TypeInv, TypeOK, Styles

LEMMA TypeInvariant == Spec => []TypeInv
BY TypeInvInit, TypeInvNext, PTL DEF Spec

\* The variables keep their types; a client that is let in starts again from no
\* failures (server.rs:110).
THEOREM ServerTypes == Spec => []TypeOK
<1>1. TypeInv => TypeOK
  BY DEF TypeInv
<1> QED BY <1>1, TypeInvariant, PTL

(* Every answer is the one its client waits for, for any number of messages   *)
(* sent ahead, in either style, whatever is left in the input, and any number *)
(* of restarts.  Neither the input nor the answers waited for are taken apart *)
(* by recursion: the invariant says that there is a set of views, one for     *)
(* every read to come, which the view of the next read belongs to and in      *)
(* which each is settled or leads over a message to another.  A message that  *)
(* is sent makes all the views longer at their ends, and a read goes on to    *)
(* the next one.                                                              *)

LEMMA MessageIsJson ==
    ASSUME NEW lines \in Seq(Lines), NEW mode \in BOOLEAN,
           ReadMessage(lines, mode).kind = "message"
    PROVE  \E i \in DOMAIN lines : lines[i].kind = "json"
<1>1. PICK i \in DOMAIN lines, m \in BOOLEAN : ReadMessage(lines, mode) = Parsed(lines, i, m)
  BY ReadParses
<1> QED BY <1>1 DEF Parsed, Error, Outcome

(* The views of the reads to come *)

\* Promised, for any request and whether the client was in when it came.
PromisedTo(kind, auth) ==
    IF kind = "invalid" THEN {"invalid"}
    ELSE IF kind = "initGood" THEN {"ok"}
    ELSE IF auth THEN ToAccepted[kind] ELSE {"unauthorized"}
Answering(m, code, style) == [id |-> m.id, code |-> code, style |-> style]
AnswersTo(m, auth, style) ==
    IF PromisedTo(m.kind, auth) = {} THEN <<>>
    ELSE <<Answering(m, CHOOSE c \in PromisedTo(m.kind, auth) : TRUE, style)>>

\* What the main loop finds at some read, and what the client still waits for then.
Views == [input : Seq(Lines), style : Styles, pending : Seq(Answers), client : {"in", "out"}]
InLineMode(v) == v.style = "line"
LetIn(v) == v.client = "in"

\* Before the read there is no message left, and after it nothing is promised.
Settled(v) ==
    /\ v.pending = <<>>
    /\ LetIn(v) <=> accepted
    /\ \A i \in DOMAIN v.input : v.input[i].kind # "json"
    /\ sender \in Styles => v.input = <<>> /\ v.style = sender

\* A message stands first, and behind it the view of the read after it.
Leads(v, m, w) ==
    /\ \/ v.input = Framed(m) \o w.input /\ ~InLineMode(v) /\ ~InLineMode(w)
       \/ v.input = OneLine(m) \o w.input /\ InLineMode(w)
       \/ v.input = <<Plain("blank")>> \o OneLine(m) \o w.input /\ InLineMode(v) /\ InLineMode(w)
    /\ v.pending = AnswersTo(m, LetIn(v), w.style) \o w.pending
    /\ LetIn(w) <=> (LetIn(v) \/ m.kind = "initGood")

\* The views of all reads to come, as far as the client has sent.
Ahead(R) == \A v \in R : Settled(v) \/ \E m \in Messages, w \in R : Leads(v, m, w)

\* The answer to the message in hand.
Style == IF lineMode THEN "line" ELSE "framed"
Owing == IF pc = "handling" THEN AnswersTo(request, authenticated, Style)
         ELSE IF pc = "refusing" THEN <<Answering(request, "unauthorized", Style)>>
         ELSE IF pc = "tool" THEN <<Answering(request, "ok", Style)>>
         ELSE IF pc = "writing" THEN <<answer>>
         ELSE <<>>

\* The next read.
NextRead(v) ==
    /\ v.input = input
    /\ InLineMode(v) <=> lineMode
    /\ pending = Owing \o v.pending
    /\ LetIn(v) <=> (authenticated \/ Handling({"initGood"}))

AnswersInv ==
    /\ \E R \in SUBSET Views : Ahead(R) /\ \E v \in R : NextRead(v)
    /\ pc = "down" => /\ input = <<>> /\ pending = <<>> /\ ~lineMode
                      /\ sender = "closed"

LEMMA PromisedCode ==
    ASSUME NEW kind \in Requests, NEW auth
    PROVE  \/ PromisedTo(kind, auth) = {}
           \/ \E c \in Codes : PromisedTo(kind, auth) = {c}
BY DEF PromisedTo, ToAccepted, Codes, Requests

LEMMA AnswersToType ==
    ASSUME NEW m \in Messages, NEW auth, NEW style \in Styles
    PROVE  AnswersTo(m, auth, style) \in Seq(Answers)
<1>1. m.kind \in Requests /\ m.id \in 1..MaxRequests
  BY RequestsAreMessages
<1>2. CASE PromisedTo(m.kind, auth) = {}
  BY <1>2 DEF AnswersTo
<1>3. ASSUME NEW c \in Codes, PromisedTo(m.kind, auth) = {c}
      PROVE  AnswersTo(m, auth, style) \in Seq(Answers)
  <2>1. (CHOOSE d \in PromisedTo(m.kind, auth) : TRUE) = c
    BY <1>3
  <2>2. Answering(m, c, style) \in Answers
    BY <1>1 DEF Answering, Answers
  <2> QED BY <1>3, <2>1, <2>2 DEF AnswersTo
<1> QED BY <1>1, <1>2, <1>3, PromisedCode

\* The message that stands first is read, whatever is behind it, and no more.
LEMMA ReadLeads ==
    ASSUME NEW v \in Views, NEW w \in Views, NEW m \in Messages, Leads(v, m, w)
    PROVE  LET next == ReadMessage(v.input, InLineMode(v))
           IN  /\ next.kind = "message" /\ next.body = m
               /\ InLineMode(w) => next.lineMode = TRUE
               /\ ~InLineMode(w) => next.lineMode = FALSE
               /\ Unread(v.input, next) = w.input
<1> DEFINE next == ReadMessage(v.input, InLineMode(v))
<1>1. v.input \in Seq(Lines) /\ w.input \in Seq(Lines)
  BY DEF Views
<1>2. CASE v.input = Framed(m) \o w.input /\ ~InLineMode(v) /\ ~InLineMode(w)
  <2>1. InLineMode(v) = FALSE
    BY <1>2 DEF InLineMode
  <2>2. next = Outcome("message", 3, m, FALSE) /\ Unread(v.input, next) = w.input
    BY <1>1, <1>2, <2>1, PipelinedFrame
  <2> QED BY <1>2, <2>2 DEF Outcome
<1>3. CASE v.input = OneLine(m) \o w.input /\ InLineMode(w)
  <2>1. InLineMode(v) \in BOOLEAN
    BY DEF InLineMode
  <2>2. next = Outcome("message", 1, m, TRUE) /\ Unread(v.input, next) = w.input
    BY <1>1, <1>3, <2>1, PipelinedLine
  <2> QED BY <1>3, <2>2 DEF Outcome
<1>4. CASE v.input = <<Plain("blank")>> \o OneLine(m) \o w.input /\ InLineMode(v) /\ InLineMode(w)
  <2>1. InLineMode(v) = TRUE /\ InLineMode(w)
    BY <1>4 DEF InLineMode
  <2>2. /\ Len(v.input) = 2 + Len(w.input)
        /\ v.input[1].kind = "blank"
        /\ v.input[2].kind = "json" /\ v.input[2].body = m
        /\ Len(w.input) \in Nat
    BY <1>1, <1>4 DEF OneLine, Plain, Json
  <2> DEFINE filled == DOMAIN v.input \ Blanks(v.input)
  <2>3. /\ DOMAIN v.input = 1..(2 + Len(w.input))
        /\ 1 \notin filled /\ 2 \in filled
    BY <1>1, <2>2 DEF Blanks
  <2>4. \A j \in filled : j \in Nat /\ 2 <= j
    BY <2>2, <2>3
  <2>5. \A i \in filled : (\A j \in filled : i <= j) => i = 2
    <3> HIDE DEF filled
    <3> QED BY <2>3, <2>4
  <2>6. First(filled) = 2
    <3> HIDE DEF filled
    <3> QED BY <2>3, <2>4, <2>5 DEF First
  <2>7. next = Parsed(v.input, First(filled), TRUE)
    BY <2>1, <2>3 DEF ReadMessage, ReadLine
  <2>8. next = Outcome("message", 2, m, TRUE)
    BY <2>2, <2>6, <2>7 DEF Parsed
  <2>9. Unread(v.input, Outcome("message", 2, m, TRUE)) = w.input
    BY <1>1, <1>4, <2>2 DEF Unread, Outcome, OneLine
  <2>10. next = Outcome("message", 2, m, TRUE) /\ Unread(v.input, next) = w.input
    BY <2>8, <2>9
  <2> QED BY <2>1, <2>10 DEF Outcome
<1> QED BY <1>2, <1>3, <1>4 DEF Leads

LEMMA OneAnswer ==
    ASSUME NEW m, NEW auth, NEW style, NEW code, PromisedTo(m.kind, auth) = {code}
    PROVE  AnswersTo(m, auth, style) = <<Answering(m, code, style)>>
<1>1. (CHOOSE c \in PromisedTo(m.kind, auth) : TRUE) = code
  OBVIOUS
<1> QED BY <1>1 DEF AnswersTo

LEMMA SamePromise ==
    ASSUME NEW m \in Messages, NEW a, NEW b, NEW style,
           PromisedTo(m.kind, a) = PromisedTo(m.kind, b)
    PROVE  AnswersTo(m, a, style) = AnswersTo(m, b, style)
<1>1. CASE PromisedTo(m.kind, a) = {}
  BY <1>1 DEF AnswersTo
<1>2. ASSUME NEW code \in Codes, PromisedTo(m.kind, a) = {code}
      PROVE  AnswersTo(m, a, style) = AnswersTo(m, b, style)
  BY <1>2, OneAnswer
<1> QED BY <1>1, <1>2, PromisedCode, RequestsAreMessages

LEMMA OwingType == TypeInv => Owing \in Seq(Answers \cup {NoAnswer})
<1> SUFFICES ASSUME TypeInv PROVE Owing \in Seq(Answers \cup {NoAnswer})
  OBVIOUS
<1>1. Style \in Styles
  BY DEF Style, Styles
<1>2. CASE pc = "handling"
  <2>1. request \in Messages /\ authenticated \in BOOLEAN
    BY <1>2 DEF TypeInv, TypeOK
  <2>2. AnswersTo(request, authenticated, Style) \in Seq(Answers)
    BY <1>1, <2>1, AnswersToType
  <2> QED BY <1>2, <2>2 DEF Owing
<1>3. ASSUME NEW code \in Codes, request \in Messages
      PROVE  <<Answering(request, code, Style)>> \in Seq(Answers \cup {NoAnswer})
  <2>1. Answering(request, code, Style) \in Answers
    BY <1>1, <1>3, RequestsAreMessages DEF Answering, Answers
  <2> QED BY <2>1
<1>4. CASE pc = "refusing"
  BY <1>3, <1>4 DEF Owing, TypeInv, TypeOK, Codes
<1>5. CASE pc = "tool"
  BY <1>3, <1>5 DEF Owing, TypeInv, TypeOK, Codes
<1>6. CASE pc = "writing"
  BY <1>6 DEF Owing, TypeInv, TypeOK
<1>7. CASE pc \in {"reading", "down"}
  BY <1>7 DEF Owing
<1> QED BY <1>2, <1>4, <1>5, <1>6, <1>7 DEF TypeInv, TypeOK

\* More behind the input, and behind the answers, of all the views.
Extended(v, lines, answers) ==
    [input |-> v.input \o lines, style |-> v.style,
     pending |-> v.pending \o answers, client |-> v.client]

LEMMA ConcatAssociative ==
    ASSUME NEW S, NEW a \in Seq(S), NEW b \in Seq(S), NEW c \in Seq(S)
    PROVE  (a \o b) \o c = a \o (b \o c)
OBVIOUS

\* The same, where it is to be used with fields of records.
LEMMA LinesAssociative ==
    \A a, b, c \in Seq(Lines) : (a \o b) \o c = a \o (b \o c)
BY ConcatAssociative
LEMMA AnswersAssociative ==
    \A a, b, c \in Seq(Answers \cup {NoAnswer}) : (a \o b) \o c = a \o (b \o c)
BY ConcatAssociative

LEMMA LinesType ==
    ASSUME NEW m \in Messages
    PROVE  /\ Framed(m) \in Seq(Lines) /\ OneLine(m) \in Seq(Lines)
           /\ <<Plain("blank")>> \in Seq(Lines)
           /\ <<Plain("blank")>> \o OneLine(m) \in Seq(Lines)
<1>1. Json(m) \in Lines /\ Plain("length") \in Lines /\ Plain("blank") \in Lines
  BY DEF Lines
<1> QED BY <1>1 DEF Framed, OneLine

LEMMA ExtendedLeads ==
    ASSUME NEW v \in Views, NEW w \in Views, NEW m \in Messages, Leads(v, m, w),
           NEW lines \in Seq(Lines), NEW answers \in Seq(Answers)
    PROVE  Leads(Extended(v, lines, answers), m, Extended(w, lines, answers))
<1> DEFINE v2 == Extended(v, lines, answers)
           w2 == Extended(w, lines, answers)
<1>1. /\ v2.input = v.input \o lines /\ w2.input = w.input \o lines
      /\ v2.pending = v.pending \o answers /\ w2.pending = w.pending \o answers
      /\ v2.style = v.style /\ w2.style = w.style
      /\ v2.client = v.client /\ w2.client = w.client
  BY DEF Extended
<1>2. /\ w.input \in Seq(Lines) /\ w.pending \in Seq(Answers) /\ w.style \in Styles
      /\ LetIn(v) \in BOOLEAN
  BY DEF Views, LetIn
<1>3. /\ v.input = Framed(m) \o w.input => v2.input = Framed(m) \o w2.input
      /\ v.input = OneLine(m) \o w.input => v2.input = OneLine(m) \o w2.input
      /\ v.input = <<Plain("blank")>> \o OneLine(m) \o w.input =>
             v2.input = <<Plain("blank")>> \o OneLine(m) \o w2.input
  <2> HIDE DEF v2, w2
  <2>1. ASSUME NEW a \in Seq(Lines), v.input = a \o w.input PROVE v2.input = a \o w2.input
    <3>1. (a \o w.input) \o lines = a \o (w.input \o lines)
      BY <1>2, LinesAssociative, Zenon
    <3> QED BY <1>1, <2>1, <3>1
  <2> QED BY <2>1, LinesType
<1>4. v2.pending = AnswersTo(m, LetIn(v), w.style) \o w2.pending
  <2>1. v.pending = AnswersTo(m, LetIn(v), w.style) \o w.pending
    BY DEF Leads
  <2>2. AnswersTo(m, LetIn(v), w.style) \in Seq(Answers)
    BY <1>2, AnswersToType
  <2> HIDE DEF v2, w2
  <2> DEFINE first == AnswersTo(m, LetIn(v), w.style)
  <2> HIDE DEF first
  <2>3. /\ first \in Seq(Answers \cup {NoAnswer}) /\ answers \in Seq(Answers \cup {NoAnswer})
        /\ w.pending \in Seq(Answers \cup {NoAnswer})
    BY <1>2, <2>2 DEF first
  <2>4. (first \o w.pending) \o answers = first \o (w.pending \o answers)
    BY <2>3, AnswersAssociative, Zenon
  <2> QED BY <1>1, <2>1, <2>4 DEF first
<1>5. /\ InLineMode(v2) <=> InLineMode(v)
      /\ InLineMode(w2) <=> InLineMode(w)
      /\ LetIn(v2) <=> LetIn(v)
      /\ LetIn(w2) <=> LetIn(w)
  BY <1>1 DEF InLineMode, LetIn
<1>6. AnswersTo(m, LetIn(v2), w2.style) = AnswersTo(m, LetIn(v), w.style)
  BY <1>1 DEF LetIn
<1> HIDE DEF v2, w2
<1>7. Leads(v2, m, w2)
  BY <1>3, <1>4, <1>5, <1>6 DEF Leads
<1> QED BY <1>7 DEF v2, w2

LEMMA SendKeepsAnswers ==
    ASSUME TypeInv, AnswersInv, NEW kind \in Requests, NEW style \in Styles, Send(kind, style)
    PROVE  AnswersInv'
<1>1. PICK m \in Messages : m = Message(kind) /\ m.kind = kind /\ m.id = sent + 1
  <2>1. sent + 1 \in 1..MaxRequests
    BY RequestsAssumption DEF Send, TypeInv, TypeOK
  <2>2. Message(kind) \in Messages
    BY <2>1, RequestsAreMessages DEF Message
  <2> QED BY <2>2 DEF Message
<1>2. accepted' <=> (accepted \/ kind = "initGood")
  BY Zenon DEF Send
<1>3. PICK answers \in Seq(Answers) : answers = AnswersTo(m, accepted, style)
  <2>1. accepted \in BOOLEAN
    BY DEF TypeInv, TypeOK
  <2> QED BY <2>1, AnswersToType
<1>4. pending' = pending \o answers
  <2>1. Promised(kind) = PromisedTo(m.kind, accepted)
    BY <1>1 DEF Promised, PromisedTo
  <2> QED BY <1>1, <1>3, <2>1 DEF Send, AnswersTo, Answering
<1> PICK client \in {"in", "out"} : client = "in" <=> accepted'
  OBVIOUS
<1> DEFINE last == [input |-> <<>>, style |-> style, pending |-> <<>>, client |-> client]
<1>5. sender \in Styles /\ sender' = style /\ (sender = "line" => style = "line")
  BY DEF Send, Styles
<1>6. PICK lines \in Seq(Lines) :
          /\ input' = input \o lines
          /\ \/ lines = Framed(m) /\ style = "framed"
             \/ lines = OneLine(m) /\ style = "line"
             \/ lines = <<Plain("blank")>> \o OneLine(m) /\ sender = "line" /\ style = "line"
  <2>1. input \in Seq(Lines)
    BY DEF TypeInv, TypeOK
  <2>2. CASE input' = input \o Framed(m) /\ style = "framed"
    BY <1>1, <2>2, LinesType
  <2>3. CASE input' = input \o OneLine(m) /\ style = "line"
    BY <1>1, <2>3, LinesType
  <2>4. CASE input' = input \o <<Plain("blank")>> \o OneLine(m) /\ style = "line" /\ sender = "line"
    <3>1. input' = input \o (<<Plain("blank")>> \o OneLine(m))
      BY <1>1, <2>1, <2>4, LinesType, ConcatAssociative
    <3> QED BY <1>1, <2>4, <3>1, LinesType
  <2> QED BY <1>1, <2>2, <2>3, <2>4 DEF Send
<1>7. PICK R \in SUBSET Views : Ahead(R) /\ \E v \in R : NextRead(v)
  BY DEF AnswersInv
<1> DEFINE Ext(v) == Extended(v, lines, answers)
           R2 == {Ext(v) : v \in R} \cup {last}
<1>8. last \in Views
  BY DEF Views
<1>9. R2 \in SUBSET Views
  <2> SUFFICES ASSUME NEW v \in R PROVE Ext(v) \in Views
    BY <1>8
  <2>1. v.input \o lines \in Seq(Lines) /\ v.pending \o answers \in Seq(Answers)
    BY <1>3, <1>6 DEF Views
  <2> QED BY <2>1 DEF Views, Extended
<1>10. Settled(last)'
  BY <1>2, <1>5 DEF Settled, LetIn
<1>11. ASSUME NEW v \in R, Settled(v) PROVE Leads(Ext(v), m, last)
  <2>1. /\ v.input = <<>> /\ v.pending = <<>> /\ v.style = sender /\ v.client \in {"in", "out"}
        /\ LetIn(v) <=> accepted
    BY <1>5, <1>7, <1>11 DEF Settled, Views
  <2>2. Ext(v).input = lines /\ Ext(v).pending = answers /\ Ext(v).style = sender
        /\ Ext(v).client = v.client
    BY <1>3, <1>6, <2>1 DEF Extended
  <2>3. LetIn(Ext(v)) <=> accepted
    BY <2>1, <2>2 DEF LetIn
  <2>4. LetIn(last) <=> (accepted \/ m.kind = "initGood")
    BY <1>1, <1>2 DEF LetIn
  <2>5. Ext(v).pending = AnswersTo(m, LetIn(Ext(v)), last.style) \o last.pending
    <3>1. AnswersTo(m, LetIn(Ext(v)), last.style) = answers
      <4>1. last.style = style /\ (LetIn(Ext(v)) <=> accepted)
        BY <2>3
      <4> HIDE DEF Ext, last
      <4>2. PromisedTo(m.kind, LetIn(Ext(v))) = PromisedTo(m.kind, accepted)
        BY <4>1 DEF PromisedTo, LetIn
      <4> QED BY <1>3, <4>1, <4>2, SamePromise
    <3>2. answers \o <<>> = answers
      BY <1>3
    <3> QED BY <2>2, <3>1, <3>2
  <2>6. /\ lines = Framed(m) => lines = Framed(m) \o <<>>
        /\ lines = OneLine(m) => lines = OneLine(m) \o <<>>
        /\ lines = <<Plain("blank")>> \o OneLine(m) => lines = <<Plain("blank")>> \o OneLine(m) \o <<>>
    BY <1>1, <1>6, LinesType
  <2>7. \/ Ext(v).input = Framed(m) \o last.input /\ ~InLineMode(Ext(v)) /\ ~InLineMode(last)
        \/ Ext(v).input = OneLine(m) \o last.input /\ InLineMode(last)
        \/ /\ Ext(v).input = <<Plain("blank")>> \o OneLine(m) \o last.input
           /\ InLineMode(Ext(v)) /\ InLineMode(last)
    BY <1>5, <1>6, <2>2, <2>6 DEF InLineMode, Styles
  <2> HIDE DEF last, Ext
  <2> QED BY <2>3, <2>4, <2>5, <2>7 DEF Leads
<1>12. Ahead(R2)'
  <2> SUFFICES ASSUME NEW v \in R
               PROVE  \E m2 \in Messages, w \in R2 : Leads(Ext(v), m2, w)
    BY <1>10 DEF Ahead
  <2>1. CASE Settled(v)
    BY <1>1, <1>11, <2>1
  <2>2. ASSUME NEW m2 \in Messages, NEW w \in R, Leads(v, m2, w)
        PROVE  Leads(Ext(v), m2, Ext(w))
    BY <1>3, <2>2, ExtendedLeads
  <2> QED BY <1>7, <2>1, <2>2 DEF Ahead
<1>13. ASSUME NEW v \in R, NextRead(v) PROVE NextRead(Ext(v))'
  <2>1. UNCHANGED <<pc, lineMode, request, answer, authenticated>>
    BY DEF Send, Quiet, loopVars, authVars
  <2>2. Owing' = Owing
    BY <2>1 DEF Owing, Style
  <2>3. /\ v.pending \in Seq(Answers \cup {NoAnswer}) /\ answers \in Seq(Answers \cup {NoAnswer})
        /\ Owing \in Seq(Answers \cup {NoAnswer})
    BY <1>3, <1>7, OwingType DEF Views
  <2>4. pending' = Owing' \o (v.pending \o answers)
    <3>1. pending' = (Owing \o v.pending) \o answers
      BY <1>4, <1>13 DEF NextRead
    <3>2. (Owing \o v.pending) \o answers = Owing \o (v.pending \o answers)
      BY <2>3, AnswersAssociative, Zenon
    <3> QED BY <2>2, <3>1, <3>2
  <2>5. /\ Ext(v).input = v.input \o lines /\ Ext(v).pending = v.pending \o answers
        /\ Ext(v).style = v.style /\ Ext(v).client = v.client
    BY DEF Extended
  <2> HIDE DEF Ext
  <2>6. InLineMode(Ext(v)) <=> InLineMode(v)
    BY <2>5 DEF InLineMode
  <2>7. LetIn(Ext(v)) <=> LetIn(v)
    BY <2>5 DEF LetIn
  <2>8. /\ Ext(v).input = input' /\ (InLineMode(Ext(v)) <=> lineMode')
        /\ pending' = Owing' \o Ext(v).pending
        /\ LetIn(Ext(v)) <=> (authenticated' \/ Handling({"initGood"})')
    BY <1>6, <1>13, <2>1, <2>4, <2>5, <2>6, <2>7 DEF NextRead, Handling
  <2> QED BY <2>8 DEF NextRead
<1>14. pc' # "down"
  BY <1>5 DEF AnswersInv, Send, Quiet, loopVars, Styles
<1> QED
  <2>1. \E v \in R2 : NextRead(v)'
    BY <1>7, <1>13
  <2> QED BY <1>9, <1>12, <1>14, <2>1 DEF AnswersInv

LEMMA GarbageIsNoMessage == \A lines \in Garbage : \A i \in DOMAIN lines : lines[i].kind # "json"
<1> SUFFICES ASSUME NEW lines \in Garbage, NEW i \in DOMAIN lines PROVE lines[i].kind # "json"
  OBVIOUS
<1>1. CASE \E kind \in {"junk", "broken", "blank"} : lines = <<Plain(kind)>>
  BY <1>1 DEF Plain
<1>2. CASE \E kind \in {"type", "badLength", "length"} : lines = <<Plain(kind), Plain("blank")>>
  BY <1>2 DEF Plain
<1>3. CASE \E kind \in {"length", "type"} : lines = <<Plain("length"), Plain(kind)>>
  BY <1>3 DEF Plain
<1>4. CASE lines = <<Plain("length"), Plain("blank"), Plain("broken")>>
  BY <1>4 DEF Plain
<1> QED BY <1>1, <1>2, <1>3, <1>4 DEF Garbage

\* A read that has nothing to read any more: nothing is promised either.
LEMMA NothingLeft ==
    ASSUME TypeInv, NEW R \in SUBSET Views, Ahead(R), NEW v \in R, NextRead(v), v.input = <<>>
    PROVE  Settled(v)
<1> SUFFICES ASSUME NEW m \in Messages, NEW w \in R, Leads(v, m, w) PROVE FALSE
  BY DEF Ahead
<1>1. w.input \in Seq(Lines)
  BY DEF Views
<1>2. \A a \in Seq(Lines) : Len(a \o w.input) = Len(a) + Len(w.input) /\ Len(w.input) \in Nat
  BY <1>1
<1>3. \E a \in Seq(Lines) : v.input = a \o w.input /\ Len(a) \in {1, 2, 3}
  <2>1. /\ Len(Framed(m)) = 3 /\ Len(OneLine(m)) = 1
        /\ Len(<<Plain("blank")>> \o OneLine(m)) = 2
    BY DEF Framed, OneLine
  <2>2. v.input = <<Plain("blank")>> \o OneLine(m) \o w.input =>
           v.input = (<<Plain("blank")>> \o OneLine(m)) \o w.input
    OBVIOUS
  <2> QED BY <2>1, <2>2, LinesType DEF Leads
<1>4. Len(v.input) = 0
  OBVIOUS
<1> QED BY <1>2, <1>3, <1>4

LEMMA GarbageKeepsAnswers ==
    ASSUME TypeInv, TypeInv', AnswersInv, SendGarbage
    PROVE  AnswersInv'
<1>1. PICK R \in SUBSET Views : Ahead(R) /\ \E v \in R : NextRead(v)
  BY DEF AnswersInv
<1>2. PICK v \in R : NextRead(v)
  BY <1>1
<1>3. /\ pc = "reading" /\ input = <<>> /\ sender' = "silent" /\ input' \in Garbage
      /\ UNCHANGED <<accepted, pending, pc, lineMode, authenticated, request>>
  BY DEF SendGarbage, Quiet, loopVars, authVars
<1>4. Settled(v)
  BY <1>1, <1>2, <1>3, NothingLeft DEF NextRead
<1>5. PICK lines \in Seq(Lines) : lines = input' /\ \A i \in DOMAIN lines : lines[i].kind # "json"
  BY <1>3, GarbageIsNoMessage DEF TypeInv, TypeOK
<1> DEFINE last == [input |-> lines, style |-> v.style, pending |-> <<>>, client |-> v.client]
<1>6. last \in Views
  BY <1>1 DEF Views
<1>7. Settled(last)'
  BY <1>3, <1>4, <1>5 DEF Settled, LetIn, Styles
<1>8. NextRead(last)'
  BY <1>2, <1>3, <1>4, <1>5 DEF NextRead, Settled, InLineMode, LetIn, Owing, Handling
<1>9. Ahead({last})' /\ {last} \in SUBSET Views
  BY <1>6, <1>7 DEF Ahead
<1> QED BY <1>3, <1>8, <1>9 DEF AnswersInv

\* A process that has nothing to read and owes nothing.
Fresh == /\ input = <<>> /\ pending = <<>> /\ pc \in {"reading", "down"}
         /\ ~lineMode /\ sender \in {"framed", "closed"}
         /\ accepted <=> authenticated
         /\ pc = "down" => sender = "closed"

LEMMA FreshAnswers == Fresh => AnswersInv
<1> SUFFICES ASSUME Fresh PROVE AnswersInv
  OBVIOUS
<1> PICK client \in {"in", "out"} : client = "in" <=> authenticated
  OBVIOUS
<1> DEFINE v == [input |-> <<>>, style |-> "framed", pending |-> <<>>, client |-> client]
<1>1. v \in Views
  BY DEF Views, Styles
<1>2. Settled(v)
  BY DEF Settled, LetIn, Styles, Fresh
<1>3. NextRead(v)
  BY DEF NextRead, InLineMode, LetIn, Owing, Handling, Fresh
<1>4. Ahead({v}) /\ {v} \in SUBSET Views
  BY <1>1, <1>2 DEF Ahead
<1> QED BY <1>3, <1>4 DEF AnswersInv, Fresh

LEMMA FreshAnswersNext == Fresh' => AnswersInv'
BY FreshAnswers, PTL

LEMMA EndKeepsAnswers == End => AnswersInv'
<1>1. End => Fresh'
  BY Zenon DEF End, Fresh
<1> QED BY <1>1, FreshAnswersNext

LEMMA CloseKeepsAnswers ==
    ASSUME AnswersInv, UNCHANGED <<input, accepted, pending, loopVars, authVars>>,
           sender' \in {sender, "closed"}
    PROVE  AnswersInv'
<1>1. PICK R \in SUBSET Views : Ahead(R) /\ \E v \in R : NextRead(v)
  BY DEF AnswersInv
<1>2. \A v \in R : Settled(v) => Settled(v)'
  BY DEF Settled, Styles
<1>3. \A v \in R : NextRead(v) => NextRead(v)'
  BY DEF NextRead, Owing, Style, Handling, loopVars, authVars
<1>4. Ahead(R)'
  BY <1>1, <1>2 DEF Ahead
<1> QED BY <1>1, <1>3, <1>4 DEF AnswersInv, loopVars

\* The loop goes on with the views it has.
LEMMA LoopKeepsAnswers ==
    ASSUME UNCHANGED <<sender, accepted>>, pc' # "down",
           NEW R \in SUBSET Views, Ahead(R), NEW v \in R, NextRead(v)'
    PROVE  AnswersInv'
<1>1. \A u \in R : Settled(u) => Settled(u)'
  BY DEF Settled
<1>2. Ahead(R)'
  BY <1>1 DEF Ahead
<1> QED BY <1>2 DEF AnswersInv

LEMMA ReadKeepsAnswers ==
    ASSUME TypeInv, AnswersInv, Read
    PROVE  AnswersInv'
<1>1. PICK R \in SUBSET Views : Ahead(R) /\ \E v \in R : NextRead(v)
  BY DEF AnswersInv
<1>2. PICK v \in R : NextRead(v)
  BY <1>1
<1> DEFINE next == ReadMessage(input, lineMode)
<1>3. /\ pc = "reading" /\ next.kind = "message" /\ pc' = "handling"
      /\ input' = Unread(input, next) /\ lineMode' = next.lineMode /\ request' = next.body
      /\ UNCHANGED <<pending, authenticated, sender, accepted>>
  BY DEF Read, Serving
<1>4. v \in Views /\ v.input = input /\ v.pending \in Seq(Answers) /\ input \in Seq(Lines)
  BY <1>1, <1>2 DEF NextRead, Views, TypeInv, TypeOK
<1>5. ReadMessage(v.input, InLineMode(v)) = next
  <2>1. InLineMode(v) <=> lineMode
    BY <1>2 DEF NextRead
  <2>2. CASE lineMode = TRUE
    <3>1. InLineMode(v) = TRUE
      BY <2>1, <2>2 DEF InLineMode
    <3> QED BY <1>4, <2>2, <3>1
  <2>3. CASE lineMode = FALSE
    <3>1. InLineMode(v) = FALSE
      BY <2>1, <2>3 DEF InLineMode
    <3> QED BY <1>4, <2>3, <3>1
  <2>4. lineMode \in BOOLEAN
    BY DEF TypeInv, TypeOK
  <2> HIDE DEF next
  <2> QED BY <2>2, <2>3, <2>4
<1>6. ~Settled(v)
  <2>1. lineMode \in BOOLEAN
    BY DEF TypeInv, TypeOK
  <2>2. \E i \in DOMAIN input : input[i].kind = "json"
    BY <1>3, <1>4, <2>1, MessageIsJson
  <2> QED BY <1>4, <2>2 DEF Settled
<1>7. PICK m \in Messages, w \in R : Leads(v, m, w)
  BY <1>1, <1>6 DEF Ahead
<1>8. /\ request' = m /\ input' = w.input
      /\ InLineMode(w) => lineMode' = TRUE
      /\ ~InLineMode(w) => lineMode' = FALSE
  <2> HIDE DEF next
  <2> QED BY <1>1, <1>3, <1>4, <1>5, <1>7, ReadLeads
<1>9. Style' = w.style
  BY <1>1, <1>8 DEF Style, InLineMode, Views, Styles
<1>10. LetIn(v) <=> authenticated
  BY <1>2, <1>3 DEF NextRead, Handling
<1>11. Owing' = AnswersTo(m, LetIn(v), w.style)
  <2>1. Owing' = AnswersTo(m, authenticated', Style')
    BY <1>3, <1>8 DEF Owing
  <2>2. PromisedTo(m.kind, LetIn(v)) = PromisedTo(m.kind, authenticated')
    BY <1>3, <1>10 DEF PromisedTo, LetIn
  <2> QED BY <1>9, <2>1, <2>2, SamePromise
<1>12. pending' = Owing' \o w.pending
  <2>1. pending = v.pending
    BY <1>2, <1>3, <1>4 DEF NextRead, Owing
  <2> QED BY <1>3, <1>7, <1>11, <2>1 DEF Leads
<1>13. LetIn(w) <=> (authenticated' \/ Handling({"initGood"})')
  BY <1>3, <1>7, <1>8, <1>10 DEF Leads, Handling
<1>14. NextRead(w)'
  <2>1. InLineMode(w) <=> lineMode'
    BY <1>8
  <2> QED BY <1>8, <1>12, <1>13, <2>1 DEF NextRead
<1> QED BY <1>1, <1>3, <1>14, LoopKeepsAnswers

LEMMA WriteKeepsAnswers ==
    ASSUME AnswersInv, Write
    PROVE  AnswersInv'
<1>1. PICK R \in SUBSET Views : Ahead(R) /\ \E v \in R : NextRead(v)
  BY DEF AnswersInv
<1>2. PICK v \in R : NextRead(v)
  BY <1>1
<1>3. /\ pc = "writing" /\ pc' = "reading" /\ pending' = SubSeq(pending, 2, Len(pending))
      /\ UNCHANGED <<input, lineMode, authenticated, sender, accepted>>
  BY DEF Write, NoAuthChange, Serving
<1>4. pending = <<answer>> \o v.pending /\ v.pending \in Seq(Answers)
  BY <1>1, <1>2, <1>3 DEF NextRead, Owing, Views
<1>5. pending' = v.pending
  <2> DEFINE owed == v.pending
  <2>1. owed \in Seq(Answers) /\ pending = <<answer>> \o owed
    BY <1>4
  <2> HIDE DEF owed
  <2>2. SubSeq(pending, 2, Len(pending)) = owed
    BY <2>1
  <2> QED BY <1>3, <2>2 DEF owed
<1>6. NextRead(v)'
  BY <1>2, <1>3, <1>4, <1>5 DEF NextRead, Owing, Handling
<1> QED BY <1>1, <1>3, <1>6, LoopKeepsAnswers

\* A step of a handler: what is owed stays so, up to the answer itself.
LEMMA HandlerKeepsAnswers ==
    ASSUME AnswersInv, pc' # "down",
           UNCHANGED <<input, pending, lineMode, sender, accepted>>, Owing' = Owing,
           (authenticated \/ Handling({"initGood"})) <=> (authenticated' \/ Handling({"initGood"})')
    PROVE  AnswersInv'
<1>1. PICK R \in SUBSET Views : Ahead(R) /\ \E v \in R : NextRead(v)
  BY DEF AnswersInv
<1>2. PICK v \in R : NextRead(v)
  BY <1>1
<1>3. NextRead(v)'
  BY <1>2 DEF NextRead
<1> QED BY <1>1, <1>3, LoopKeepsAnswers

\* A response with the one code that is promised for the message in hand.
LEMMA RespondKeepsAnswers ==
    ASSUME AnswersInv, NEW code, Respond(code), UNCHANGED request,
           UNCHANGED <<input, pending, lineMode, sender, accepted>>,
           Owing = <<Answering(request, code, Style)>>,
           (authenticated \/ Handling({"initGood"})) <=> authenticated'
    PROVE  AnswersInv'
<1>1. pc' = "writing" /\ answer' = Answering(request, code, Style)
  BY DEF Respond, Answering, Style
<1>2. Owing' = Owing
  BY <1>1 DEF Owing
<1>3. ~Handling({"initGood"})'
  BY <1>1 DEF Handling
<1> QED BY <1>1, <1>2, <1>3, HandlerKeepsAnswers

LEMMA HandlersKeepAnswers ==
    ASSUME TypeInv, AnswersInv,
           \/ RejectMessage \/ Unauthorized \/ AcceptClient \/ RefuseClient \/ Refuse
           \/ Notified \/ AnswerPlain \/ AnswerLogged \/ CallTool \/ ToolReturns
    PROVE  AnswersInv'
<1> USE DEF Within, Serving, NoAuthChange
<1>1. authenticated \in BOOLEAN /\ (pc = "handling" => request \in Messages)
  BY DEF TypeInv, TypeOK
<1>2. ASSUME NEW code, PromisedTo(request.kind, authenticated) = {code}, pc = "handling"
      PROVE  Owing = <<Answering(request, code, Style)>>
  BY <1>2, OneAnswer DEF Owing
<1>3. CASE RejectMessage
  <2>1. PromisedTo(request.kind, authenticated) = {"invalid"}
    BY <1>3 DEF RejectMessage, Handling, PromisedTo
  <2> QED BY <1>2, <1>3, <2>1, RespondKeepsAnswers DEF RejectMessage, Handling
<1>4. CASE Unauthorized
  <2>1. PromisedTo(request.kind, authenticated) = {"unauthorized"}
    BY <1>4 DEF Unauthorized, Handling, PromisedTo, Ungated
  <2> QED BY <1>2, <1>4, <2>1, RespondKeepsAnswers DEF Unauthorized, Handling, Ungated
<1>5. CASE AcceptClient
  <2>1. request.kind = "initGood" \/ authenticated
    BY <1>5 DEF AcceptClient, TokenFound
  <2>2. PromisedTo(request.kind, authenticated) = {"ok"}
    BY <1>5, <2>1 DEF AcceptClient, Handling, PromisedTo, ToAccepted
  <2> QED BY <1>2, <1>5, <2>1, <2>2, RespondKeepsAnswers DEF AcceptClient, Handling
<1>6. CASE RefuseClient
  <2>1. PromisedTo(request.kind, authenticated) = {"unauthorized"}
    BY <1>6 DEF RefuseClient, Handling, PromisedTo
  <2>2. Owing' = Owing
    BY <1>2, <1>6, <2>1 DEF RefuseClient, Handling, Owing, Style
  <2> QED BY <1>6, <2>2, HandlerKeepsAnswers DEF RefuseClient, Handling
<1>7. CASE Refuse
  BY <1>7, RespondKeepsAnswers DEF Refuse, Handling, Owing
<1>8. CASE Notified
  <2>1. AnswersTo(request, authenticated, Style) = <<>>
    BY <1>8 DEF Notified, Handling, AnswersTo, PromisedTo, ToAccepted
  <2>2. Owing' = Owing
    BY <1>8, <2>1 DEF Notified, Handling, Owing
  <2> QED BY <1>8, <2>2, HandlerKeepsAnswers DEF Notified, Handling
<1>9. CASE AnswerPlain
  <2>1. PromisedTo(request.kind, authenticated) = {"plain"}
    BY <1>9 DEF AnswerPlain, Handling, PromisedTo, ToAccepted
  <2> QED BY <1>2, <1>9, <2>1, RespondKeepsAnswers DEF AnswerPlain, Handling
<1>10. CASE AnswerLogged
  <2>1. ASSUME NEW code, Respond(code), <<request.kind, code>> \in {<<"list", "ok">>, <<"callDenied", "denied">>}
        PROVE  AnswersInv'
    <3>1. PromisedTo(request.kind, authenticated) = {code}
      BY <1>10, <2>1 DEF AnswerLogged, PromisedTo, ToAccepted
    <3> QED BY <1>2, <1>10, <2>1, <3>1, RespondKeepsAnswers DEF AnswerLogged, Handling
  <2> QED BY <1>10, <2>1 DEF AnswerLogged, Handling
<1>11. CASE CallTool
  <2>1. PromisedTo(request.kind, authenticated) = {"ok"}
    BY <1>11 DEF CallTool, Handling, PromisedTo, ToAccepted
  <2>2. Owing' = Owing
    BY <1>2, <1>11, <2>1 DEF CallTool, Handling, Owing, Style
  <2> QED BY <1>11, <2>2, HandlerKeepsAnswers DEF CallTool, Handling
<1>12. CASE ToolReturns
  BY <1>12, RespondKeepsAnswers DEF ToolReturns, Handling, Owing
<1> QED BY <1>3, <1>4, <1>5, <1>6, <1>7, <1>8, <1>9, <1>10, <1>11, <1>12

LEMMA AnswersInvNext == TypeInv /\ AnswersInv /\ [Next]_vars => AnswersInv'
<1> SUFFICES ASSUME TypeInv, TypeInv', AnswersInv, [Next]_vars PROVE AnswersInv'
  BY TypeInvNext
<1>1. CASE ClientNext
  <2>1. CASE SendGarbage
    BY <2>1, GarbageKeepsAnswers
  <2>2. CASE Close
    BY <2>2, CloseKeepsAnswers DEF Close, Quiet
  <2> QED BY <1>1, <2>1, <2>2, SendKeepsAnswers DEF ClientNext
<1>2. CASE LoopNext
  BY <1>2, ReadKeepsAnswers, WriteKeepsAnswers, HandlersKeepAnswers, EndKeepsAnswers
     DEF LoopNext, Stop, WriteFails
<1>3. CASE Die
  BY <1>3, EndKeepsAnswers DEF Die
<1>4. CASE Restart
  <2>1. Fresh'
    BY <1>4 DEF Restart, Fresh, AnswersInv
  <2> QED BY <2>1, FreshAnswersNext
<1>5. CASE UNCHANGED vars
  BY <1>5, CloseKeepsAnswers DEF vars, clientVars
<1> QED BY <1>1, <1>2, <1>3, <1>4, <1>5 DEF Next

\* Whatever is sent ahead, in whatever style and with whatever behind it, and
\* however the process fares: an answer is written to the oldest message that
\* waits for one, in its style and with the outcome the messages before it call
\* for (main.rs:94-132, server.rs:9-135).
THEOREM AnswersKeepPromise == Spec => []AnswersAsPromised
<1>1. Init => AnswersInv
  <2>1. Init => Fresh
    BY Zenon DEF Init, Fresh
  <2> QED BY <2>1, FreshAnswers
<1>2. AnswersInv => AnswersAsPromised
  <2> SUFFICES ASSUME AnswersInv, pc = "writing"
               PROVE  pending # <<>> /\ answer = Head(pending)
    BY DEF AnswersAsPromised
  <2>1. PICK owed \in Seq(Answers) : pending = <<answer>> \o owed
    BY DEF AnswersInv, NextRead, Owing, Views
  <2> QED BY <2>1
<1> QED BY <1>1, <1>2, AnswersInvNext, TypeInvInit, TypeInvNext, PTL DEF Spec
===============================================================================
