------------------------------- MODULE Transport -------------------------------
(***************************************************************************)
(* McpTransport::read_message as a function of what has arrived on the     *)
(* input and of the mode.  The input is a sequence of lines; the body of a *)
(* framed message, which is read by its length, is one element as well.    *)
(* In line-delimited mode every line is a message; the other mode reads a  *)
(* block of headers and a body, and goes over to line-delimited mode for   *)
(* good when the first line of a block looks like JSON.                    *)
(***************************************************************************)
EXTENDS Naturals, Sequences

CONSTANTS Messages,    \* the JSON values that may be sent
          NoMessage,   \* none of them
          MaxHeaders   \* limit on the headers of a message

ASSUME MessagesAssumption == NoMessage \notin Messages
ASSUME HeadersAssumption == MaxHeaders \in Nat \ {0}

\* length, badLength: a Content-Length within or out of the limits (or no
\* number); type: another header; junk: a line without a colon; json: a line or
\* body that is a JSON value; broken: one that only begins like one.
Plain(kind) == [kind |-> kind, body |-> NoMessage]
Json(m) == [kind |-> "json", body |-> m]
Lines == {Plain(kind) : kind \in {"length", "badLength", "type", "junk", "blank", "broken"}}
         \cup {Json(m) : m \in Messages}

Framed(m) == <<Plain("length"), Plain("blank"), Json(m)>>
OneLine(m) == <<Json(m)>>

Outcome(kind, used, body, lineMode) ==
    [kind |-> kind, used |-> used, body |-> body, lineMode |-> lineMode]
Wait(lineMode) == Outcome("wait", 0, NoMessage, lineMode)
Error(lineMode) == Outcome("error", 0, NoMessage, lineMode)

\* The line or body at position i, parsed as JSON.
Parsed(input, i, lineMode) ==
    IF input[i].kind = "json" THEN Outcome("message", i, input[i].body, lineMode)
    ELSE Error(lineMode)

First(S) == CHOOSE i \in S : \A j \in S : i <= j
Blanks(input) == {i \in DOMAIN input : input[i].kind = "blank"}

\* Mutant: a blank line ends the reading.
ReadLineOnce(input) ==
    IF input = <<>> \/ 1 \in Blanks(input) THEN Wait(TRUE) ELSE Parsed(input, 1, TRUE)

\* Blank lines between messages are skipped.
ReadLine(input) ==
    LET filled == DOMAIN input \ Blanks(input)
    IN  IF filled = {} THEN Wait(TRUE) ELSE Parsed(input, First(filled), TRUE)

HeaderName(line) == IF line.kind = "badLength" THEN "length" ELSE line.kind

\* The header lines that have arrived: those before the first blank one.
Headers(input) == {i \in DOMAIN input : \A j \in Blanks(input) : i < j}

\* One header too many, no header at all, or one that is there already.
Faulty(input, i) == \/ i > MaxHeaders
                    \/ input[i].kind \in {"junk", "broken"}
                    \/ \E j \in 1..(i - 1) : HeaderName(input[j]) = HeaderName(input[i])

\* A block that says how long the body is.
Measured(input) == \E i \in Headers(input) : input[i].kind = "length"

ReadFramed(input) ==
    IF \E i \in Headers(input) : Faulty(input, i) THEN Error(FALSE)
    ELSE IF Blanks(input) = {} THEN Wait(FALSE)
    ELSE IF ~Measured(input) THEN Error(FALSE)
    ELSE IF Len(input) = First(Blanks(input)) THEN Wait(FALSE)
    ELSE Parsed(input, First(Blanks(input)) + 1, FALSE)

LooksLikeJson(line) == line.kind \in {"json", "broken"}

ReadMessage(input, lineMode) ==
    IF lineMode THEN ReadLine(input)
    ELSE IF input = <<>> THEN Wait(FALSE)
    ELSE IF LooksLikeJson(Head(input)) THEN Parsed(input, 1, TRUE)
    ELSE ReadFramed(input)

Unread(input, outcome) == SubSeq(input, outcome.used + 1, Len(input))
================================================================================
