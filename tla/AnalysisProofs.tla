---------------------------- MODULE AnalysisProofs ----------------------------
(***************************************************************************)
(* What is proved of the tools that read one file and of the dependency    *)
(* graph, for every file, project and request.                             *)
(***************************************************************************)
EXTENDS GatewayProofs

(***************************************************************************)
(* The source of functions.                                                *)
(***************************************************************************)
LEMMA NoticesArePieces ==
    /\ F!CommentRedacted \in F!Piece /\ F!Placeholder \in F!Piece
    /\ F!CommentRedacted.name \notin {"//", "sensitive", "body"}
    /\ F!NoticeName \notin {"//", "sensitive", "body"}
    /\ F!Redacted.name = F!NoticeName
    /\ F!Placeholder.name # "body"
  BY DEF F!CommentRedacted, F!Placeholder, F!Redacted, F!NoticeName, F!Plain, F!PiecesNamed, F!Piece, F!CommentNoticeName

\* No "//" of the line comes before a sensitive word.
Stripped(line) == \A k, l \in DOMAIN line : ~(k < l /\ line[k].name = "//" /\ line[l].name = "sensitive")

LEMMA Cuts ==
    ASSUME NEW S, NEW s \in Seq(S), NEW n \in 0 .. Len(s)
    PROVE  /\ SubSeq(s, 1, n) \in Seq(S) /\ Len(SubSeq(s, 1, n)) = n
           /\ \A k \in 1 .. n : SubSeq(s, 1, n)[k] = s[k]
           /\ SubSeq(s, n + 1, Len(s)) \in Seq(S) /\ Len(SubSeq(s, n + 1, Len(s))) = Len(s) - n
           /\ \A k \in 1 .. Len(s) - n : SubSeq(s, n + 1, Len(s))[k] = s[n + k]
<1>1. Len(s) \in Nat /\ n \in Nat /\ n <= Len(s)
  OBVIOUS
<1>2. SubSeq(s, n + 1, Len(s)) = [k \in 1 .. Len(s) - n |-> s[n + k]]
  BY <1>1
<1> QED
  BY <1>1, <1>2

\* One element between two sequences.
Splice(r, x, t) == r \o <<x>> \o t

Spliced(out, r, x, t) ==
    /\ Len(out) = Len(r) + 1 + Len(t)
    /\ \A k \in 1 .. Len(r) : out[k] = r[k]
    /\ out[Len(r) + 1] = x
    /\ \A k \in 1 .. Len(t) : out[Len(r) + 1 + k] = t[k]

LEMMA SpliceSplices ==
    ASSUME NEW S, NEW r \in Seq(S), NEW x \in S, NEW t \in Seq(S)
    PROVE  Splice(r, x, t) \in Seq(S) /\ Spliced(Splice(r, x, t), r, x, t)
<1> DEFINE q == r \o <<x>>
<1>1. /\ q \in Seq(S) /\ Len(q) = Len(r) + 1 /\ q[Len(r) + 1] = x
      /\ \A k \in 1 .. Len(r) : q[k] = r[k]
  OBVIOUS
<1> HIDE DEF q
<1>2. /\ q \o t \in Seq(S) /\ Len(q \o t) = Len(q) + Len(t)
      /\ \A k \in 1 .. Len(q) : (q \o t)[k] = q[k]
      /\ \A k \in 1 .. Len(t) : (q \o t)[Len(q) + k] = t[k]
  BY <1>1
<1>3. Len(r) \in Nat
  OBVIOUS
<1> QED
  BY <1>1, <1>2, <1>3 DEF q, Splice, Spliced

\* From the first "//" with a sensitive word behind it to the last such word: what is
\* left before has no such "//", and what is left behind no such word.
LEMMA StripLineStrips ==
    ASSUME NEW line \in F!Line
    PROVE  /\ F!StripLine(line) \in F!Line
           /\ Stripped(F!StripLine(line))
           /\ \A k \in DOMAIN F!StripLine(line) :
                 F!StripLine(line)[k] = F!CommentRedacted \/ \E i \in DOMAIN line : F!StripLine(line)[k] = line[i]
<1> DEFINE N == Len(line)
           words == {i \in DOMAIN line : line[i].name = "sensitive"}
           starts == {i \in DOMAIN line : line[i].name = "//" /\ \E j \in words : j > i}
           first == CHOOSE i \in starts : \A j \in starts : i <= j
           last == CHOOSE i \in words : \A j \in words : i >= j
           before == SubSeq(line, 1, first - 1)
           after == SubSeq(line, last + 1, N)
           out == Splice(before, F!CommentRedacted, after)
<1>1. N \in Nat /\ DOMAIN line = 1 .. N /\ line \in Seq(F!Piece)
  BY DEF F!Line
<1>2. F!StripLine(line) = IF starts = {} THEN line ELSE out
  BY Zenon DEF F!StripLine, Splice
<1>3. CASE starts = {}
  <2>1. F!StripLine(line) = line
    BY <1>2, <1>3
  <2>2. Stripped(line)
    BY <1>1, <1>3 DEF Stripped
  <2> QED
    BY <2>1, <2>2
<1>4. CASE starts # {}
  <2>1. first \in starts /\ \A j \in starts : first <= j
    <3>1. starts \in SUBSET Nat
      BY <1>1
    <3> HIDE DEF starts
    <3>2. \E i \in starts : \A j \in starts : i <= j
      BY <1>4, <3>1, FirstPlace
    <3> QED
      BY <3>2, Zenon
  <2>2. last \in words /\ \A j \in words : last >= j
    <3>1. words \in SUBSET (1 .. N) /\ words # {}
      BY <1>1, <1>4
    <3> HIDE DEF words, N
    <3>2. \E i \in words : \A j \in words : i >= j
      BY <1>1, <3>1, LastPlace
    <3> QED
      BY <3>2, Zenon
  <2>3. first \in 1 .. N /\ last \in 1 .. N /\ first < last
    <3>1. PICK j \in words : j > first
      BY <2>1
    <3> HIDE DEF first, last
    <3> QED
      BY <1>1, <2>1, <2>2, <3>1
  <2> HIDE DEF first, last, N
  <2>4. /\ before \in Seq(F!Piece) /\ Len(before) = first - 1
        /\ \A k \in 1 .. first - 1 : before[k] = line[k]
    BY <1>1, <2>3, Cuts DEF N
  <2>5. /\ after \in Seq(F!Piece) /\ Len(after) = N - last
        /\ \A k \in 1 .. N - last : after[k] = line[last + k]
    <3>1. last \in 0 .. Len(line)
      BY <1>1, <2>3 DEF N
    <3> QED
      BY <1>1, <3>1, Cuts, Zenon DEF N
  <2> HIDE DEF before, after, words, starts
  <2>6. F!CommentRedacted \in F!Piece
    BY NoticesArePieces
  <2>7. /\ out \in Seq(F!Piece) /\ Len(out) = first + (N - last)
        /\ \A k \in 1 .. first - 1 : out[k] = before[k]
        /\ out[first] = F!CommentRedacted
        /\ \A k \in 1 .. N - last : out[first + k] = after[k]
    <3>1. out \in Seq(F!Piece) /\ Spliced(out, before, F!CommentRedacted, after)
      BY <2>4, <2>5, <2>6, SpliceSplices
    <3> HIDE DEF out
    <3> QED
      BY <1>1, <2>3, <2>4, <2>5, <3>1 DEF Spliced
  <2>8. DOMAIN out = 1 .. first + (N - last)
    BY <2>7
  <2> HIDE DEF out
  <2>9. ASSUME NEW k \in DOMAIN out
        PROVE  \/ k \in 1 .. first - 1 /\ out[k] = line[k] /\ k \in DOMAIN line
               \/ k = first /\ out[k] = F!CommentRedacted
               \/ k > first /\ out[k] = line[last + (k - first)] /\ last + (k - first) \in DOMAIN line
    <3>1. CASE k < first
      BY <1>1, <2>3, <2>4, <2>7, <2>8, <3>1
    <3>2. CASE k = first
      BY <2>7, <3>2
    <3>3. CASE k > first
      <4>1. k - first \in 1 .. N - last /\ first + (k - first) = k
        BY <1>1, <2>3, <2>8, <3>3
      <4>2. out[k] = after[k - first]
        BY <2>7, <4>1
      <4>3. last + (k - first) \in DOMAIN line
        BY <1>1, <2>3, <4>1
      <4> QED
        BY <2>5, <3>3, <4>1, <4>2, <4>3
    <3> QED
      BY <1>1, <2>3, <2>8, <3>1, <3>2, <3>3
  <2>10. Stripped(out)
    <3> SUFFICES ASSUME NEW k \in DOMAIN out, NEW l \in DOMAIN out, k < l,
                        out[k].name = "//", out[l].name = "sensitive"
                 PROVE  FALSE
      BY DEF Stripped
    <3>1. k \in Nat /\ l \in Nat /\ first \in Nat
      BY <1>1, <2>3, <2>8
    <3>2. CASE k \in 1 .. first - 1 /\ out[k] = line[k] /\ k \in DOMAIN line
      <4>1. \E j \in words : j > k
        <5>1. PICK j \in words : j > first
          BY <2>1 DEF starts
        <5> QED
          BY <1>1, <3>1, <3>2, <5>1 DEF words
      <4>2. k \in starts
        BY <3>2, <4>1 DEF starts
      <4>3. k < first
        BY <3>1, <3>2
      <4> QED
        BY <2>1, <3>1, <4>2, <4>3
    <3>3. CASE k = first
      BY <2>7, <3>3, NoticesArePieces
    <3>4. CASE k > first
      <4>1. l > first
        BY <3>1, <3>4
      <4>2. out[l] = line[last + (l - first)] /\ last + (l - first) \in DOMAIN line
        BY <2>9, <3>1, <4>1
      <4>3. last + (l - first) \in words
        BY <4>2 DEF words
      <4> QED
        BY <1>1, <2>2, <2>3, <3>1, <4>1, <4>3
    <3> QED
      BY <2>9, <3>2, <3>3, <3>4
  <2>11. F!StripLine(line) = out
    BY <1>2, <1>4
  <2> QED
    BY <2>7, <2>9, <2>10, <2>11 DEF F!Line
<1> QED
  BY <1>3, <1>4

\* Lines and places stay: a piece is the one that was there, or a notice.
SamePlaces(out, text) ==
    /\ DOMAIN out = DOMAIN text
    /\ \A i \in DOMAIN text :
          /\ DOMAIN out[i] = DOMAIN text[i]
          /\ \A j \in DOMAIN text[i] : out[i][j].name = F!NoticeName \/ out[i][j] = text[i][j]

LEMMA RedactEachPlaces ==
    ASSUME NEW text \in F!Text, NEW S, NEW labels \in Seq(S)
    PROVE  SamePlaces(F!RedactEach(text, labels).text, text)
<1>1. F!RedactEach(text, labels).text = Without(text, labels, Len(labels))
  BY RedactEachIsWithout
<1>2. \A i \in DOMAIN text : \A j \in DOMAIN text[i] : F!InPlaceOf(text[i][j]).name = F!NoticeName
  BY PiecesOfText, NoticeInPlace
<1> QED
  BY <1>1, <1>2, Zenon DEF Without, SamePlaces

\* So they do in all passes.
LEMMA CleanedPlaces ==
    ASSUME NEW text \in F!Text, NEW S, NEW labels \in Seq(S)
    PROVE  SamePlaces(F!sanitize_text_with_dynamic_patterns(text, labels).text, text)
<1> DEFINE builtin == F!RedactEach(text, F!SECRET_PATTERNS).text
           custom == F!RedactEach(builtin, labels).text
<1>1. F!sanitize_text_with_dynamic_patterns(text, labels).text = custom
  BY DEF F!sanitize_text_with_dynamic_patterns, F!sanitize_text
<1>2. builtin \in F!Text
  BY SecretsAreLabels, RedactEachType
<1>3. SamePlaces(builtin, text)
  BY SecretsAreLabels, RedactEachPlaces
<1> HIDE DEF builtin
<1>4. SamePlaces(custom, builtin)
  BY <1>2, RedactEachPlaces
<1> HIDE DEF custom
<1>5. SamePlaces(custom, text)
  BY <1>3, <1>4, Zenon DEF SamePlaces
<1> QED
  BY <1>1, <1>5

\* The source of a function: neither a secret nor a comment with a sensitive word, and
\* its pieces are those of the text but for the notices.
LEMMA FunctionSource ==
    ASSUME NEW text \in F!Text
    PROVE  LET out == F!sanitize_function_source(text, <<>>).text
           IN /\ \A piece \in F!Pieces(out) :
                    piece.name = F!NoticeName \/ piece.matches \cap Range(F!SECRET_PATTERNS) = {}
              /\ \A n \in DOMAIN out : Stripped(out[n])
              /\ \A piece \in F!Pieces(out) :
                    piece.name = F!NoticeName \/ piece \in {F!CommentRedacted} \cup F!Pieces(text)
<1> DEFINE stripped == F!strip_sensitive_comments(text)
           out == F!sanitize_function_source(text, <<>>).text
<1>1. \A n \in DOMAIN text : text[n] \in F!Line
  BY DEF F!Text
<1>2. stripped = [n \in DOMAIN text |-> F!StripLine(text[n])]
  BY Zenon DEF F!strip_sensitive_comments, F!Mapped
<1>3. DOMAIN stripped = DOMAIN text /\ \A n \in DOMAIN text : stripped[n] = F!StripLine(text[n])
  BY <1>2
<1> HIDE DEF stripped
<1>4. stripped \in F!Text
  <2>1. DOMAIN text = 1 .. Len(text) /\ Len(text) \in Nat
    BY DEF F!Text
  <2>2. \A n \in DOMAIN text : F!StripLine(text[n]) \in F!Line
    BY <1>1, StripLineStrips
  <2>3. stripped \in [1 .. Len(text) -> F!Line]
    BY <1>2, <2>1, <2>2, Zenon
  <2> QED
    BY <2>1, <2>3 DEF F!Text
<1>5. <<>> \in Seq(STRING) /\ Range(<<>>) = {}
  BY DEF Range
<1>6. SamePlaces(out, stripped)
  <2>1. out = F!sanitize_text_with_dynamic_patterns(stripped, <<>>).text
    BY DEF F!sanitize_function_source, stripped
  <2> HIDE DEF out
  <2> QED
    BY <1>4, <1>5, <2>1, CleanedPlaces
<1>7. \A piece \in F!Pieces(out) :
         piece.name = F!NoticeName \/ piece.matches \cap Range(F!SECRET_PATTERNS) = {}
  <2>1. out = F!sanitize_text_with_dynamic_patterns(stripped, <<>>).text
    BY DEF F!sanitize_function_source, stripped
  <2>2. \A piece \in F!Pieces(out) :
           \/ piece.name = F!NoticeName
           \/ piece.matches \cap (Range(F!SECRET_PATTERNS) \cup Range(<<>>)) = {}
    BY <1>4, <1>5, <2>1, CleanedText
  <2> QED
    BY <1>5, <2>2
<1> HIDE DEF out
<1>8. ASSUME NEW n \in DOMAIN out PROVE Stripped(out[n])
  <2>1. Stripped(stripped[n])
    BY <1>1, <1>3, <1>6, StripLineStrips DEF SamePlaces
  <2> QED
    BY <1>6, <2>1, NoticesArePieces DEF Stripped, SamePlaces
<1>9. ASSUME NEW piece \in F!Pieces(out)
      PROVE  piece.name = F!NoticeName \/ piece \in {F!CommentRedacted} \cup F!Pieces(text)
  <2>1. PICK n \in DOMAIN out : \E j \in DOMAIN out[n] : piece = out[n][j]
    BY DEF F!Pieces, F!Range
  <2>2. PICK j \in DOMAIN stripped[n] : piece.name = F!NoticeName \/ piece = stripped[n][j]
    BY <1>6, <2>1 DEF SamePlaces
  <2>3. n \in DOMAIN text /\ stripped[n] = F!StripLine(text[n]) /\ text[n] \in F!Line
    BY <1>1, <1>3, <1>6 DEF SamePlaces
  <2>4. stripped[n][j] = F!CommentRedacted \/ \E i \in DOMAIN text[n] : stripped[n][j] = text[n][i]
    BY <2>2, <2>3, StripLineStrips
  <2>5. \A i \in DOMAIN text[n] : text[n][i] \in F!Pieces(text)
    BY <2>3 DEF F!Pieces, F!Range
  <2> QED
    BY <2>2, <2>4, <2>5
<1> QED
  BY <1>7, <1>8, <1>9 DEF out

(***************************************************************************)
(* Configuration files.                                                    *)
(***************************************************************************)
\* A pair with a sensitive key keeps nothing of its value.
ValueHidden(line) == line.kind = "pair" /\ line.sensitiveKey => F!Range(line.pieces) \subseteq {F!Redacted}

ConfigLines == [kind : STRING, sensitiveKey : BOOLEAN, pieces : F!Line]

LEMMA ConfigLineHides ==
    ASSUME NEW line \in ConfigLines
    PROVE  ValueHidden(F!sanitize_config_line(line).line)
<1> DEFINE value == F!redact_config_value(line.pieces)
           out == F!sanitize_config_line(line).line
<1> SUFFICES ValueHidden(out)
  OBVIOUS
<1>1. CASE line.kind \in {"blank", "comment"} \/ line.pieces = <<>>
  <2>1. F!sanitize_config_line(line) = [line |-> line, fired |-> <<>>]
    BY <1>1 DEF F!sanitize_config_line
  <2>2. out = line
    BY <2>1
  <2>3. line.kind # "pair" \/ F!Range(line.pieces) = {}
    BY <1>1 DEF F!Range
  <2> QED
    BY <2>2, <2>3, Zenon DEF ValueHidden
<1>2. CASE /\ ~(line.kind \in {"blank", "comment"} \/ line.pieces = <<>>)
           /\ line.kind = "pair" /\ line.sensitiveKey
  <2>1. F!sanitize_config_line(line)
          = [line |-> [line EXCEPT !.pieces = <<F!Redacted>>], fired |-> <<"CONFIG_SENSITIVE_KEY">>]
    BY <1>2, Zenon DEF F!sanitize_config_line
  <2>2. out = [line EXCEPT !.pieces = <<F!Redacted>>]
    BY <2>1
  <2>3. out.pieces = <<F!Redacted>>
    BY <2>2 DEF ConfigLines
  <2>4. F!Range(<<F!Redacted>>) = {F!Redacted}
    BY DEF F!Range
  <2> HIDE DEF out
  <2> QED
    BY <2>3, <2>4, Zenon DEF ValueHidden
<1>3. CASE /\ ~(line.kind \in {"blank", "comment"} \/ line.pieces = <<>>)
           /\ ~(line.kind = "pair" /\ line.sensitiveKey)
  <2>1. F!sanitize_config_line(line) = [line |-> [line EXCEPT !.pieces = value.pieces], fired |-> value.fired]
    BY <1>3, Zenon DEF F!sanitize_config_line
  <2>2. out = [line EXCEPT !.pieces = value.pieces]
    BY <2>1
  <2>3. out.kind = line.kind /\ (out.sensitiveKey <=> line.sensitiveKey)
    <3> HIDE DEF value
    <3>1. line = [x \in {"kind", "sensitiveKey", "pieces"} |-> line[x]]
      BY DEF ConfigLines
    <3>2. out.kind = line.kind
      BY <2>2, <3>1
    <3>3. out.sensitiveKey = line.sensitiveKey
      BY <2>2, <3>1
    <3> QED
      BY <3>2, <3>3, Zenon
  <2> HIDE DEF out
  <2> QED
    BY <1>3, <2>3, Zenon DEF ValueHidden
<1> QED
  BY <1>1, <1>2, <1>3, Zenon

LEMMA ConfigTextHides ==
    ASSUME NEW lines \in Seq(ConfigLines)
    PROVE  LET out == F!sanitize_config_text(lines).lines
           IN out \in Seq(Range(out)) /\ \A i \in DOMAIN out : ValueHidden(out[i])
<1> DEFINE done == [i \in DOMAIN lines |-> F!sanitize_config_line(lines[i])]
           out == F!sanitize_config_text(lines).lines
<1>1. F!sanitize_config_text(lines).lines = [i \in DOMAIN done |-> done[i].line]
  BY DEF F!sanitize_config_text, F!Mapped
<1>2. \A i \in DOMAIN lines : done[i].line = F!sanitize_config_line(lines[i]).line
  OBVIOUS
<1>3. DOMAIN done = DOMAIN lines
  OBVIOUS
<1> HIDE DEF done
<1>4. DOMAIN out = DOMAIN lines /\ \A i \in DOMAIN lines : out[i] = F!sanitize_config_line(lines[i]).line
  BY <1>1, <1>2, <1>3
<1>5. out = [i \in 1 .. Len(lines) |-> out[i]] /\ Len(lines) \in Nat
  BY <1>1, <1>3
<1> HIDE DEF out
<1>6. out \in Seq(Range(out))
  BY <1>5 DEF Range
<1>7. \A i \in DOMAIN lines : lines[i] \in ConfigLines
  OBVIOUS
<1> QED
  BY <1>4, <1>6, <1>7, ConfigLineHides DEF out

(***************************************************************************)
(* The answers of the tools.                                               *)
(***************************************************************************)
LEMMA NoticeKind == \A kind : F!Notice(kind).kind = kind
  BY DEF F!Notice

\* What is hidden gets a notice.
LEMMA HiddenGetsNotice ==
    ASSUME NEW file, file.outside \/ file.restricted, NEW Body
    PROVE  F!Guarded(file, Body).kind \in {"denied", "restricted"}
<1>1. F!Guarded(file, Body) \in {F!Notice("denied"), F!Notice("restricted")}
  BY Zenon DEF F!Guarded
<1> QED
  BY <1>1 DEF F!Notice

LEMMA AnswersAreGuarded ==
    ASSUME NEW r, r.tool \in FileToolNames
    PROVE  \E Body : FileAnswer(r) = F!Guarded(r.file, Body)
<1>1. CASE r.tool = "get_file_outline"
  BY <1>1, Zenon DEF FileAnswer, F!get_file_outline
<1>2. CASE r.tool = "inspect_symbol"
  BY <1>2, Zenon DEF FileAnswer, F!inspect_symbol
<1>3. CASE r.tool = "get_module_summary"
  BY <1>3, Zenon DEF FileAnswer, F!get_module_summary
<1>4. CASE r.tool = "query_ast"
  BY <1>4, Zenon DEF FileAnswer, F!query_ast
<1>5. CASE r.tool = "read_config_file"
  BY <1>5, Zenon DEF FileAnswer, F!read_config_file
<1> QED
  BY <1>1, <1>2, <1>3, <1>4, <1>5 DEF FileToolNames

\* What a tool may say of a file that is not hidden.
GuardKinds == {"denied", "restricted"}
LEMMA GuardedKind ==
    ASSUME NEW file, NEW Body, NEW kinds, Body.kind \in kinds
    PROVE  F!Guarded(file, Body).kind \in kinds \cup GuardKinds
<1>1. F!Guarded(file, Body) \in {F!Notice("denied"), F!Notice("restricted"), Body}
  BY Zenon DEF F!Guarded
<1> QED
  BY <1>1 DEF F!Notice, GuardKinds

\* inspect_symbol in parts: the functions that are found, and what is said of each.
Found(functions, symbol, mode, hint) ==
    F!Where(F!SymbolMatches(functions, symbol, mode), LAMBDA f : hint = "" \/ hint \in f.signature)
Candidate(f) == [qualified |-> f.qualified, signature |-> f.signature, first |-> f.first, last |-> f.last]
Inspected(f) == [symbol |-> Candidate(f), source |-> F!sanitize_function_source(F!SourceOf(f), <<>>).text]
Unfound(functions) == [kind |-> "not found", available |-> {functions[i].qualified : i \in DOMAIN functions}]
Ambiguous(found) == [kind |-> "ambiguous", candidates |-> [i \in DOMAIN found |-> Candidate(found[i])]]
Matched(found) == [kind |-> "ok", matches |-> [i \in DOMAIN found |-> Inspected(found[i])]]

LEMMA KindsOfInspect ==
    /\ \A functions : Unfound(functions).kind = "not found"
    /\ \A found : Ambiguous(found).kind = "ambiguous" /\ Matched(found).kind = "ok"
  BY DEF Unfound, Ambiguous, Matched

LEMMA AmbiguousParts ==
    ASSUME NEW found
    PROVE  LET candidates == Ambiguous(found).candidates
           IN DOMAIN candidates = DOMAIN found /\ \A i \in DOMAIN found : candidates[i] = Candidate(found[i])
  BY DEF Ambiguous

LEMMA MatchedParts ==
    ASSUME NEW found
    PROVE  LET matches == Matched(found).matches
           IN /\ DOMAIN matches = DOMAIN found
              /\ \A i \in DOMAIN found :
                    /\ matches[i].symbol = Candidate(found[i])
                    /\ matches[i].source = F!sanitize_function_source(F!SourceOf(found[i]), <<>>).text
<1> DEFINE matches == Matched(found).matches
<1>1. matches = [i \in DOMAIN found |-> Inspected(found[i])]
  BY DEF Matched
<1>2. \A f : /\ Inspected(f).symbol = Candidate(f)
             /\ Inspected(f).source = F!sanitize_function_source(F!SourceOf(f), <<>>).text
  BY DEF Inspected
<1> HIDE DEF matches
<1> QED
  BY <1>1, <1>2, Zenon DEF matches

\* What is said of a file, when those functions of it are found.
Says(ans, file, functions, found) ==
    IF file.outside THEN ans = F!Notice("denied")
    ELSE IF file.restricted THEN ans = F!Notice("restricted")
    ELSE IF found = <<>> THEN ans = Unfound(functions)
    ELSE ans = Ambiguous(found) \/ ans = Matched(found)

LEMMA InspectParts ==
    ASSUME NEW file, NEW symbol, NEW mode, NEW all, NEW hint
    PROVE  LET functions == F!analyze_file(file).functions
           IN Says(F!inspect_symbol(file, symbol, mode, all, hint), file, functions,
                   Found(functions, symbol, mode, hint))
<1> DEFINE functions == F!analyze_file(file).functions
           found == Found(functions, symbol, mode, hint)
           Body == IF found = <<>> THEN Unfound(functions)
                   ELSE IF Len(found) > 1 /\ ~all THEN Ambiguous(found) ELSE Matched(found)
<1>1. F!inspect_symbol(file, symbol, mode, all, hint) = F!Guarded(file, Body)
  BY Zenon DEF F!inspect_symbol, F!Mapped, Found, Unfound, Ambiguous, Matched, Candidate, Inspected
<1> HIDE DEF found, functions
<1> QED
  BY <1>1, Zenon DEF F!Guarded, found, functions, Says

LEMMA InspectKinds ==
    ASSUME NEW file, NEW symbol, NEW mode, NEW all, NEW hint
    PROVE  F!inspect_symbol(file, symbol, mode, all, hint).kind \in {"not found", "ambiguous", "ok"} \cup GuardKinds
<1> DEFINE functions == F!analyze_file(file).functions
           found == Found(functions, symbol, mode, hint)
           ans == F!inspect_symbol(file, symbol, mode, all, hint)
<1>1. ans \in {F!Notice("denied"), F!Notice("restricted"), Unfound(functions), Ambiguous(found), Matched(found)}
  BY InspectParts, Zenon DEF Says
<1> HIDE DEF ans, found, functions
<1>2. ans.kind \in {"not found", "ambiguous", "ok"} \cup GuardKinds
  BY <1>1, KindsOfInspect, NoticeKind DEF GuardKinds
<1> QED
  BY <1>2 DEF ans

LEMMA OtherKinds ==
    ASSUME NEW file
    PROVE  /\ \A publicOnly : F!get_module_summary(file, publicOnly).kind \in {"summary"} \cup GuardKinds
           /\ \A query, labels : F!query_ast(file, query, labels).kind
                                   \in {"unsupported", "unreadable", "invalid query", "captures"} \cup GuardKinds
<1>1. ASSUME NEW publicOnly PROVE F!get_module_summary(file, publicOnly).kind \in {"summary"} \cup GuardKinds
  <2> DEFINE analysis == F!analyze_file(file)
             Full(symbols) == F!Where(symbols, LAMBDA s : s.public \/ ~publicOnly)
             Hidden(symbols) == IF publicOnly THEN F!Mapped(F!Where(symbols, LAMBDA s : ~s.public), LAMBDA s : s.name)
                                ELSE <<>>
             Entry(s) == [name |-> s.name, documented |-> s.documented]
             Body == [kind |-> "summary", functions |-> F!Mapped(Full(analysis.functions), Entry),
                      types |-> F!Mapped(Full(analysis.types), Entry),
                      hiddenFunctions |-> Hidden(analysis.functions), hiddenTypes |-> Hidden(analysis.types)]
  <2>1. F!get_module_summary(file, publicOnly) = F!Guarded(file, Body)
    BY Zenon DEF F!get_module_summary
  <2>2. Body.kind = "summary"
    OBVIOUS
  <2> HIDE DEF Body
  <2> QED
    BY <2>1, <2>2, GuardedKind
<1>2. ASSUME NEW query, NEW labels
      PROVE  F!query_ast(file, query, labels).kind
               \in {"unsupported", "unreadable", "invalid query", "captures"} \cup GuardKinds
  <2> DEFINE captures == F!Mapped(query.captures, LAMBDA text : F!sanitize_text_with_dynamic_patterns(text, labels))
             Body == IF file.language \in {"unknown", "scss"} THEN F!Notice("unsupported")
                     ELSE IF ~file.readable THEN F!Notice("unreadable")
                     ELSE IF ~query.valid THEN F!Notice("invalid query")
                     ELSE [kind |-> "captures", captures |-> captures]
  <2>1. F!query_ast(file, query, labels) = F!Guarded(file, Body)
    BY Zenon DEF F!query_ast
  <2> HIDE DEF captures
  <2>2. Body.kind \in {"unsupported", "unreadable", "invalid query", "captures"}
    <3>1. Body \in {F!Notice("unsupported"), F!Notice("unreadable"), F!Notice("invalid query"),
                    [kind |-> "captures", captures |-> captures]}
      BY Zenon
    <3>2. [kind |-> "captures", captures |-> captures].kind = "captures"
      OBVIOUS
    <3> HIDE DEF Body
    <3> QED
      BY <3>1, <3>2, NoticeKind
  <2> HIDE DEF Body
  <2> QED
    BY <2>1, <2>2, GuardedKind
<1> QED
  BY <1>1, <1>2

LEMMA ReadKinds ==
    ASSUME NEW file
    PROVE  /\ F!get_file_outline(file).kind \in {"unreadable", "config", "outline"} \cup GuardKinds
           /\ F!read_config_file(file).kind \in {"no configuration", "unreadable", "config"} \cup GuardKinds
<1> DEFINE done == F!sanitize_config_text(file.lines)
           kept == F!Where(done.lines, LAMBDA line : line.kind \notin {"blank", "comment"})
           outlined == [kind |-> "config", lines |-> kept]
           full == [kind |-> "config", lines |-> done.lines, redactions |-> done.fired]
           Entry(f) == F!sanitize_file_outline([canonical |-> f.qualified, signature |-> f.signature, strip |-> f.strip,
                                                first |-> f.first, last |-> f.last], f.redacted)
           outline == [kind |-> "outline", functions |-> F!Mapped(F!analyze_file(file).functions, Entry),
                       types |-> F!Mapped(F!analyze_file(file).types,
                                          LAMBDA t : IF t.redacted THEN F!NoticeName ELSE t.name)]
<1>1. F!render_config_outline(file) \in {F!Notice("unreadable"), outlined}
  BY Zenon DEF F!render_config_outline
<1>2. F!get_file_outline(file) \in {F!Notice("denied"), F!Notice("restricted"), F!render_config_outline(file), outline}
  BY Zenon DEF F!get_file_outline, F!Guarded
<1>3. F!read_config_file(file) \in {F!Notice("denied"), F!Notice("restricted"), F!Notice("no configuration"),
                                     F!Notice("unreadable"), full}
  BY Zenon DEF F!read_config_file, F!Guarded
<1>4. outlined.kind = "config" /\ full.kind = "config" /\ outline.kind = "outline"
  OBVIOUS
<1> HIDE DEF outlined, full, outline
<1>5. F!get_file_outline(file).kind \in {"unreadable", "config", "outline"} \cup GuardKinds
  BY <1>1, <1>2, <1>4, NoticeKind DEF GuardKinds
<1>6. F!read_config_file(file).kind \in {"no configuration", "unreadable", "config"} \cup GuardKinds
  BY <1>3, <1>4, NoticeKind DEF GuardKinds
<1> QED
  BY <1>5, <1>6

\* Only inspect_symbol gives a function.
LEMMA OnlyInspectGives ==
    ASSUME NEW r, r.tool \in FileToolNames, FileAnswer(r).kind = "ok"
    PROVE  r.tool = "inspect_symbol"
<1>1. CASE r.tool = "get_file_outline"
  BY <1>1, ReadKinds DEF FileAnswer, GuardKinds
<1>2. CASE r.tool = "read_config_file"
  BY <1>2, ReadKinds DEF FileAnswer, GuardKinds
<1>3. CASE r.tool \in {"get_module_summary", "query_ast"}
  BY <1>3, OtherKinds DEF FileAnswer, GuardKinds
<1> QED
  BY <1>1, <1>2, <1>3 DEF FileToolNames

\* The lines a configuration file is answered with, whole or as an outline.
LEMMA ConfigAnswerHides ==
    ASSUME NEW r, r.tool \in FileToolNames, FileTypeOK(r.file), FileAnswer(r).kind = "config"
    PROVE  \A i \in DOMAIN FileAnswer(r).lines : ValueHidden(FileAnswer(r).lines[i])
<1> DEFINE file == r.file
           clean == F!sanitize_config_text(file.lines).lines
<1>1. clean \in Seq(Range(clean)) /\ \A i \in DOMAIN clean : ValueHidden(clean[i])
  BY ConfigTextHides DEF FileTypeOK, ConfigLines
<1>2. CASE r.tool = "inspect_symbol"
  BY <1>2, InspectKinds DEF FileAnswer, GuardKinds
<1>3. CASE r.tool \in {"get_module_summary", "query_ast"}
  BY <1>3, OtherKinds DEF FileAnswer, GuardKinds
<1>4. CASE r.tool = "get_file_outline"
  <2> DEFINE shown == {i \in DOMAIN clean : clean[i].kind \notin {"blank", "comment"}}
             kept == F!At(clean, shown)[Len(clean)]
             Entry(f) == F!sanitize_file_outline([canonical |-> f.qualified, signature |-> f.signature, strip |-> f.strip,
                                                  first |-> f.first, last |-> f.last], f.redacted)
             outline == [kind |-> "outline", functions |-> F!Mapped(F!analyze_file(file).functions, Entry),
                         types |-> F!Mapped(F!analyze_file(file).types,
                                            LAMBDA t : IF t.redacted THEN F!NoticeName ELSE t.name)]
  <2>1. FileAnswer(r) \in {F!Notice("denied"), F!Notice("restricted"), F!Notice("unreadable"), outline,
                           [kind |-> "config", lines |-> kept]}
    <3>1. FileAnswer(r) = F!get_file_outline(file)
      BY <1>4 DEF FileAnswer
    <3>2. F!render_config_outline(file) \in {F!Notice("unreadable"), [kind |-> "config", lines |-> kept]}
      BY Zenon DEF F!render_config_outline, F!Where
    <3> HIDE DEF kept, clean
    <3>3. F!get_file_outline(file) \in {F!Notice("denied"), F!Notice("restricted"),
                                        F!render_config_outline(file), outline}
      BY Zenon DEF F!get_file_outline, F!Guarded
    <3> QED
      BY <3>1, <3>2, <3>3, Zenon
  <2>2. outline.kind = "outline"
    OBVIOUS
  <2> HIDE DEF kept, outline
  <2>3. FileAnswer(r).lines = kept
    BY <2>1, <2>2 DEF F!Notice
  <2> HIDE DEF clean
  <2>4. ASSUME NEW i \in DOMAIN kept PROVE ValueHidden(kept[i])
    <3> HIDE DEF shown
    <3>1. Taken(kept, clean, shown)
      BY <1>1, AtPlacesOfF DEF kept
    <3>2. \E j \in DOMAIN clean : clean[j] = kept[i]
      BY <3>1 DEF Taken
    <3> QED
      BY <1>1, <3>2
  <2> QED
    BY <2>3, <2>4
<1>5. CASE r.tool = "read_config_file"
  <2> DEFINE full == [kind |-> "config", lines |-> clean, redactions |-> F!sanitize_config_text(file.lines).fired]
  <2>1. FileAnswer(r) = F!read_config_file(file)
    BY <1>5 DEF FileAnswer
  <2>2. F!read_config_file(file) \in {F!Notice("denied"), F!Notice("restricted"), F!Notice("no configuration"),
                                      F!Notice("unreadable"), full}
    BY Zenon DEF F!read_config_file, F!Guarded
  <2>3. full.lines = clean
    OBVIOUS
  <2> HIDE DEF full, clean
  <2>4. FileAnswer(r).lines = clean
    <3>1. F!read_config_file(file) = full
      <4>1. \A kind \in {"denied", "restricted", "no configuration", "unreadable"} : F!Notice(kind).kind # "config"
        BY NoticeKind
      <4>2. F!read_config_file(file).kind = "config"
        BY <2>1
      <4> QED
        BY <2>2, <4>1, <4>2
    <3> QED
      BY <2>1, <2>3, <3>1
  <2> QED
    BY <1>1, <2>4
<1> QED
  BY <1>2, <1>3, <1>4, <1>5 DEF FileToolNames

(***************************************************************************)
(* Functions: what the parser keeps of each, and how it is found again.    *)
(***************************************************************************)
\* What is kept is of a function of the file, in its place.
LEMMA KeptFunctions ==
    ASSUME NEW file, FileTypeOK(file)
    PROVE  LET functions == F!analyze_file(file).functions
           IN /\ functions \in Seq(Range(functions))
              /\ \A i \in DOMAIN functions :
                    /\ i \in DOMAIN file.functions /\ IsFunctionNode(file.functions[i])
                    /\ functions[i] = F!FunctionInfo(file.functions[i], file.language)
<1> DEFINE functions == F!analyze_file(file).functions
           infos == [i \in DOMAIN file.functions |-> F!FunctionInfo(file.functions[i], file.language)]
<1>1. functions = <<>> \/ functions = infos
  <2>1. \/ F!analyze_file(file) = [language |-> "", functions |-> <<>>, types |-> <<>>]
        \/ F!analyze_file(file) = [language |-> file.language, functions |-> <<>>, types |-> <<>>]
        \/ F!analyze_file(file) = [language |-> file.language, types |-> file.types, functions |-> infos]
    BY Zenon DEF F!analyze_file, F!Mapped
  <2> HIDE DEF infos
  <2>2. /\ [language |-> "", functions |-> <<>>, types |-> <<>>].functions = <<>>
        /\ [language |-> file.language, functions |-> <<>>, types |-> <<>>].functions = <<>>
        /\ [language |-> file.language, types |-> file.types, functions |-> infos].functions = infos
    OBVIOUS
  <2> QED
    BY <2>1, <2>2, Zenon
<1>2. file.functions \in Seq(Range(file.functions)) /\ \A i \in DOMAIN file.functions : IsFunctionNode(file.functions[i])
  BY DEF FileTypeOK, Range
<1> HIDE DEF functions
<1>3. CASE functions = <<>>
  <2>1. DOMAIN functions = {} /\ functions \in Seq(Range(functions))
    BY <1>3
  <2> QED
    BY <2>1 DEF functions
<1>4. CASE functions = infos
  <2>1. /\ DOMAIN functions = 1 .. Len(file.functions) /\ Len(file.functions) \in Nat
        /\ DOMAIN file.functions = 1 .. Len(file.functions)
    BY <1>2, <1>4
  <2>2. \A i \in DOMAIN functions : functions[i] = F!FunctionInfo(file.functions[i], file.language)
    BY <1>4, Zenon
  <2>3. functions = [i \in 1 .. Len(file.functions) |-> functions[i]]
    BY <1>4, <2>1, Zenon
  <2>4. functions \in Seq(Range(functions))
    BY <2>1, <2>3 DEF Range
  <2> QED
    BY <1>2, <2>1, <2>2, <2>4 DEF functions
<1> QED
  BY <1>1, <1>3, <1>4

\* The source that is given of a function: its body is gone when it is marked and a block.
LEMMA SourceGiven ==
    ASSUME NEW node, NEW language, IsFunctionNode(node)
    PROVE  LET f == F!FunctionInfo(node, language)
           IN /\ F!SourceOf(f) \in F!Text
              /\ f.strip /\ node.body = "block" => \A piece \in F!Pieces(F!SourceOf(f)) : piece.name # "body"
<1> DEFINE f == F!FunctionInfo(node, language)
           text == node.text
           N == Len(text)
           range == node.range
           notice == <<F!Placeholder>>
           cut == Splice(SubSeq(text, 1, range[1]), notice, SubSeq(text, range[2] + 1, N))
<1>1. f.source = text /\ f.range = F!find_body_node(node)
  BY DEF F!FunctionInfo
<1>2. /\ text \in F!Text /\ range \in Nat \X Nat
      /\ node.body = "block" =>
            /\ range[1] <= range[2] /\ range[2] <= N
            /\ \A n \in DOMAIN text \ (range[1] + 1 .. range[2]) : \A piece \in Range(text[n]) : piece.name # "body"
  BY DEF IsFunctionNode
<1> HIDE DEF text, range, f
<1>3. notice \in F!Line /\ \A piece \in F!Range(notice) : piece = F!Placeholder
  BY NoticesArePieces DEF F!Line, F!Range
<1> HIDE DEF notice
<1>4. text \in Seq(F!Line) /\ N \in Nat /\ DOMAIN text = 1 .. N /\ range[1] \in Nat /\ range[2] \in Nat
  BY <1>2 DEF F!Text
<1>5. CASE ~(node.body = "block")
  <2>1. F!SourceOf(f) = text
    <3>1. f.range = <<>>
      BY <1>1, <1>5 DEF F!find_body_node
    <3> QED
      BY <1>1, <3>1, Zenon DEF F!SourceOf
  <2> QED
    BY <1>2, <1>5, <2>1 DEF f
<1>6. CASE node.body = "block"
  <2>1. range[1] \in 0 .. N /\ range[2] \in 0 .. N /\ range[1] <= range[2] /\ N = Len(text)
    BY <1>2, <1>4, <1>6
  <2> DEFINE before == SubSeq(text, 1, range[1])
             after == SubSeq(text, range[2] + 1, N)
  <2>2. /\ before \in Seq(F!Line) /\ Len(before) = range[1] /\ \A k \in 1 .. range[1] : before[k] = text[k]
    BY <1>4, <2>1, Cuts
  <2>3. /\ after \in Seq(F!Line) /\ Len(after) = N - range[2]
        /\ \A k \in 1 .. N - range[2] : after[k] = text[range[2] + k]
    BY <1>4, <2>1, Cuts
  <2>4. cut = Splice(before, notice, after)
    OBVIOUS
  <2> HIDE DEF before, after, cut
  <2>5. cut \in F!Text
    BY <1>3, <2>2, <2>3, <2>4, SpliceSplices DEF F!Text
  <2>6. ASSUME NEW n \in DOMAIN cut
        PROVE  cut[n] = notice \/ \E m \in DOMAIN text \ (range[1] + 1 .. range[2]) : cut[n] = text[m]
    <3> DEFINE a == Len(before)
               b == Len(after)
    <3>1. a \in Nat /\ b \in Nat
      BY <2>2, <2>3
    <3>2. Spliced(cut, before, notice, after)
      BY <1>3, <2>2, <2>3, <2>4, SpliceSplices
    <3>3. /\ Len(cut) = a + 1 + b /\ cut[a + 1] = notice
          /\ \A k \in 1 .. a : cut[k] = before[k]
          /\ \A k \in 1 .. b : cut[a + 1 + k] = after[k]
      BY <3>2 DEF Spliced
    <3>4. n \in 1 .. a + 1 + b
      BY <2>5, <3>3 DEF F!Text
    <3> HIDE DEF a, b
    <3>5. a = range[1] /\ b = N - range[2]
      BY <2>2, <2>3 DEF a, b
    <3> HIDE DEF N
    <3>6. CASE n \in 1 .. a
      <4>1. n \in DOMAIN text \ (range[1] + 1 .. range[2]) /\ cut[n] = text[n]
        BY <1>4, <2>1, <2>2, <3>3, <3>5, <3>6
      <4> QED
        BY <4>1
    <3>7. CASE n = a + 1
      BY <3>3, <3>7
    <3>8. CASE n > a + 1
      <4> DEFINE k == n - (a + 1)
      <4>1. k \in 1 .. b /\ n = a + 1 + k
        BY <3>1, <3>4, <3>8
      <4>2. cut[n] = after[k]
        BY <3>3, <4>1
      <4> HIDE DEF k
      <4>3. after[k] = text[range[2] + k] /\ range[2] + k \in DOMAIN text \ (range[1] + 1 .. range[2])
        BY <1>4, <2>1, <2>3, <3>5, <4>1
      <4> QED
        BY <4>2, <4>3
    <3> QED
      BY <3>1, <3>4, <3>6, <3>7, <3>8
  <2>7. ASSUME NEW piece \in F!Pieces(cut) PROVE piece.name # "body"
    <3>1. PICK n \in DOMAIN cut : piece \in F!Range(cut[n])
      BY DEF F!Pieces
    <3>2. CASE cut[n] = notice
      <4>1. piece = F!Placeholder
        BY <1>3, <3>1, <3>2
      <4> QED
        BY <4>1, NoticesArePieces
    <3>3. CASE \E m \in DOMAIN text \ (range[1] + 1 .. range[2]) : cut[n] = text[m]
      BY <1>2, <1>6, <3>1, <3>3 DEF F!Range, Range
    <3> QED
      BY <2>6, <3>2, <3>3
  <2>8. CASE f.strip
    <3>1. f.range = <<range>> /\ <<range>> # <<>> /\ <<range>>[1] = range
      BY <1>1, <1>6 DEF F!find_body_node, range
    <3>2. F!SourceOf(f) = F!strip_body_by_range(text, range)
      BY <1>1, <2>8, <3>1, Zenon DEF F!SourceOf
    <3>3. F!strip_body_by_range(text, range) = cut
      <4>1. ~(range[1] > range[2] \/ range[2] > Len(text))
        BY <1>4, <2>1
      <4> QED
        BY <4>1, Zenon DEF F!strip_body_by_range, cut, Splice, notice
    <3> QED
      BY <2>5, <2>7, <3>2, <3>3 DEF f
  <2>9. CASE ~f.strip
    <3>1. F!SourceOf(f) = text
      BY <1>1, <2>9, Zenon DEF F!SourceOf
    <3> QED
      BY <1>2, <2>9, <3>1 DEF f
  <2> QED
    BY <2>8, <2>9
<1> QED
  BY <1>5, <1>6

\* The names of what contains a function.
LEMMA OwnerChain ==
    ASSUME NEW node, NEW language, IsFunctionNode(node)
    PROVE  \E T : F!extract_owner_chain(node, language) \in Seq(T)
<1> DEFINE above == node.ancestors
           IsOwner(i) == /\ above[i].kind \in F!OwnerKinds(language) /\ above[i].name # ""
                         /\ language = "kotlin" => i > 1 /\ above[i - 1].kind = "class_body"
           named == {i \in DOMAIN above : IsOwner(i)}
           owners == F!At(node.ancestors, named)[Len(node.ancestors)]
           mapped == [i \in DOMAIN owners |-> owners[i].name]
           names == F!Reverse(mapped)
           T == Range(names) \cup {node.receiver}
<1>1. F!extract_owner_chain(node, language)
        = IF language = "go" /\ node.receiver # "" THEN Append(names, node.receiver) ELSE names
  BY Zenon DEF F!extract_owner_chain, F!Mapped
<1>2. owners \in Seq(Range(node.ancestors))
  <2> HIDE DEF named
  <2> QED
    BY AtPlacesOfF DEF IsFunctionNode
<1> HIDE DEF owners
<1>3. Len(mapped) \in Nat /\ DOMAIN mapped = 1 .. Len(mapped)
  BY <1>2
<1> HIDE DEF mapped
<1>4. names = [i \in 1 .. Len(mapped) |-> mapped[(Len(mapped) - i) + 1]]
  BY Zenon DEF F!Reverse
<1>5. names = [i \in 1 .. Len(mapped) |-> names[i]]
  BY <1>4
<1> HIDE DEF names
<1>6. names \in Seq(T)
  BY <1>3, <1>5 DEF Range
<1>7. Append(names, node.receiver) \in Seq(T)
  BY <1>6
<1> HIDE DEF T
<1> QED
  BY <1>1, <1>6, <1>7, Zenon

\* Every element of out is one of seq.
Among(out, seq) == \A i \in DOMAIN out : \E j \in DOMAIN seq : out[i] = seq[j]

LEMMA QualifiedNames ==
    \A node, language :
        LET f == F!FunctionInfo(node, language)
        IN f.qualified = Append(F!extract_owner_chain(node, language), f.name)
<1>1. \A node, language :
        /\ F!FunctionInfo(node, language).name = node.name
        /\ F!FunctionInfo(node, language).qualified = Append(F!extract_owner_chain(node, language), node.name)
  BY Zenon DEF F!FunctionInfo, F!build_qualified_name
<1> QED
  BY <1>1

LEMMA NothingFound ==
    ASSUME NEW found, NEW f, \E i \in DOMAIN found : found[i] = f
    PROVE  found # <<>>
  OBVIOUS

\* A symbol is looked for among the functions of the file.
LEMMA FoundAreFunctions ==
    ASSUME NEW S, NEW functions \in Seq(S), NEW symbol, NEW mode, NEW hint
    PROVE  Found(functions, symbol, mode, hint) \in Seq(S) /\ Among(Found(functions, symbol, mode, hint), functions)
<1> DEFINE simple == {i \in DOMAIN functions : <<functions[i].name>> = symbol}
           qualified == {i \in DOMAIN functions : functions[i].qualified = symbol}
           Pick(places) == F!At(functions, places)[Len(functions)]
           matches == F!SymbolMatches(functions, symbol, mode)
           hinted == {i \in DOMAIN matches : hint = "" \/ hint \in matches[i].signature}
           found == F!At(matches, hinted)[Len(matches)]
<1>1. \A places : Pick(places) \in Seq(S) /\ Taken(Pick(places), functions, places)
  BY AtPlacesOfF
<1>2. matches \in {Pick(simple), Pick(qualified)}
  <2>1. matches = Pick(simple) \/ matches = Pick(qualified)
    BY Zenon DEF F!SymbolMatches, F!Where
  <2> HIDE DEF matches, Pick
  <2> QED
    BY <2>1
<1> HIDE DEF Pick, simple, qualified, matches
<1>3. matches \in Seq(S) /\ \A i \in DOMAIN matches : \E j \in DOMAIN functions : matches[i] = functions[j]
  <2>1. matches \in Seq(S)
    BY <1>1, <1>2
  <2>2. \E places : Taken(matches, functions, places)
    BY <1>1, <1>2
  <2> QED
    BY <2>1, <2>2, Zenon DEF Taken
<1>4. Found(functions, symbol, mode, hint) = found
  BY Zenon DEF Found, F!Where, matches
<1> HIDE DEF hinted
<1>5. found \in Seq(S) /\ Taken(found, matches, hinted)
  BY <1>3, AtPlacesOfF
<1> HIDE DEF found
<1>6. \A i \in DOMAIN found : \E k \in DOMAIN matches : found[i] = matches[k]
  BY <1>5, Zenon DEF Taken
<1>7. \A i \in DOMAIN found : \E j \in DOMAIN functions : found[i] = functions[j]
  BY <1>3, <1>6
<1> QED
  BY <1>4, <1>5, <1>7 DEF Among

\* By its qualified name, as it stands, a function is found.
LEMMA CanonicalIsFound ==
    ASSUME NEW S, NEW functions \in Seq(S), NEW e \in DOMAIN functions,
           NEW T, NEW owners \in Seq(T), functions[e].qualified = Append(owners, functions[e].name)
    PROVE  LET found == Found(functions, functions[e].qualified, "auto", "")
           IN \E i \in DOMAIN found : found[i] = functions[e]
<1> DEFINE symbol == functions[e].qualified
           simple == {i \in DOMAIN functions : <<functions[i].name>> = symbol}
           qualified == {i \in DOMAIN functions : functions[i].qualified = symbol}
           Pick(places) == F!At(functions, places)[Len(functions)]
           matches == F!SymbolMatches(functions, symbol, "auto")
           hinted == DOMAIN matches
           found == F!At(matches, hinted)[Len(matches)]
<1>1. \A places : Pick(places) \in Seq(S) /\ Taken(Pick(places), functions, places)
  BY AtPlacesOfF
<1>2. matches = IF Len(symbol) > 1 \/ Pick(simple) = <<>> THEN Pick(qualified) ELSE Pick(simple)
  <2>1. "auto" # "simple" /\ "auto" # "qualified"
    OBVIOUS
  <2> QED
    BY <2>1, Zenon DEF F!SymbolMatches, F!Where
<1>3. Len(symbol) > 1 \/ symbol = <<functions[e].name>>
  <2>1. Len(symbol) = Len(owners) + 1 /\ Len(owners) \in Nat
    OBVIOUS
  <2>2. Len(owners) = 0 => symbol = <<functions[e].name>>
    OBVIOUS
  <2> HIDE DEF symbol
  <2> QED
    BY <2>1, <2>2
<1>4. e \in qualified /\ (symbol = <<functions[e].name>> => e \in simple)
  OBVIOUS
<1> HIDE DEF Pick, simple, qualified, matches, symbol
<1>5. \E places : matches = Pick(places) /\ e \in places
  BY <1>2, <1>3, <1>4, Zenon
<1>6. matches \in Seq(S) /\ \E k \in DOMAIN matches : matches[k] = functions[e]
  <2>1. PICK places : matches = Pick(places) /\ e \in places
    BY <1>5
  <2>2. Taken(matches, functions, places) /\ matches \in Seq(S)
    BY <1>1, <2>1
  <2>3. e \in DOMAIN functions \cap places
    BY <2>1
  <2> QED
    BY <2>2, <2>3, Zenon DEF Taken
<1>7. Found(functions, symbol, "auto", "") = found
  <2>1. \A f : "" = "" \/ "" \in f.signature
    OBVIOUS
  <2>2. {i \in DOMAIN matches : "" = "" \/ "" \in matches[i].signature} = hinted
    OBVIOUS
  <2> QED
    BY <2>2, Zenon DEF Found, F!Where, matches
<1> HIDE DEF hinted
<1>8. found \in Seq(S) /\ Taken(found, matches, hinted)
  BY <1>6, AtPlacesOfF
<1> HIDE DEF found
<1>9. PICK k \in DOMAIN matches : matches[k] = functions[e]
  BY <1>6
<1>10. \E k2 \in DOMAIN matches \cap hinted : matches[k2] = functions[e]
  BY <1>9 DEF hinted
<1>11. \E i \in DOMAIN found : found[i] = functions[e]
  BY <1>8, <1>10, Zenon DEF Taken
<1> QED
  BY <1>7, <1>11 DEF symbol

\* A sequence over a set is one over a larger set.
LEMMA SeqGrows ==
    ASSUME NEW S, NEW T, S \subseteq T, NEW seq \in Seq(S)
    PROVE  seq \in Seq(T)
<1>1. Len(seq) \in Nat /\ seq = [i \in 1 .. Len(seq) |-> seq[i]] /\ \A i \in 1 .. Len(seq) : seq[i] \in T
  OBVIOUS
<1> QED
  BY <1>1

LEMMA AppendParts ==
    ASSUME NEW S, NEW seq \in Seq(S), NEW e \in S
    PROVE  /\ Append(seq, e) \in Seq(S) /\ Len(Append(seq, e)) = Len(seq) + 1
           /\ \A i \in 1 .. Len(seq) : Append(seq, e)[i] = seq[i]
           /\ Append(seq, e)[Len(seq) + 1] = e
  OBVIOUS

\* A qualified name of one name is that name.
LEMMA OneName ==
    ASSUME NEW T, NEW owners \in Seq(T), NEW name, NEW other, Append(owners, name) = <<other>>
    PROVE  name = other
<1>1. Len(Append(owners, name)) = Len(owners) + 1 /\ Append(owners, name)[Len(owners) + 1] = name
  <2> DEFINE all == T \cup {name}
  <2>1. owners \in Seq(all) /\ name \in all
    BY SeqGrows
  <2> HIDE DEF all
  <2> QED
    BY <2>1, AppendParts
<1>2. Len(owners) \in Nat /\ Len(<<other>>) = 1 /\ <<other>>[1] = other
  OBVIOUS
<1>3. Len(owners) + 1 = 1
  BY <1>1, <1>2, Zenon
<1> QED
  BY <1>1, <1>2, <1>3, Zenon

\* No function has the notice for its name or its qualified name.
LEMMA NoticeIsNotFound ==
    ASSUME NEW S, NEW functions \in Seq(S),
           \A i \in DOMAIN functions : /\ functions[i].name # F!NoticeName
                                       /\ functions[i].qualified # <<F!NoticeName>>
    PROVE  Found(functions, <<F!NoticeName>>, "auto", "") = <<>>
<1> DEFINE symbol == <<F!NoticeName>>
           simple == {i \in DOMAIN functions : <<functions[i].name>> = symbol}
           qualified == {i \in DOMAIN functions : functions[i].qualified = symbol}
           Pick(places) == F!At(functions, places)[Len(functions)]
           matches == F!SymbolMatches(functions, symbol, "auto")
           found == Found(functions, symbol, "auto", "")
<1>1. simple = {} /\ qualified = {}
  BY ZenonT(30)
<1>2. matches \in {Pick(simple), Pick(qualified)}
  <2>1. matches = Pick(simple) \/ matches = Pick(qualified)
    BY Zenon DEF F!SymbolMatches, F!Where
  <2> HIDE DEF matches, Pick
  <2> QED
    BY <2>1
<1> HIDE DEF Pick, simple, qualified, matches
<1>3. matches = <<>>
  <2>1. matches = Pick({})
    BY <1>1, <1>2
  <2>2. Pick({}) \in Seq(S) /\ Taken(Pick({}), functions, {})
    BY AtPlacesOfF DEF Pick
  <2> QED
    BY <2>1, <2>2 DEF Taken
<1>4. found = F!At(matches, {i \in DOMAIN matches : "" = "" \/ "" \in matches[i].signature})[Len(matches)]
  BY Zenon DEF Found, F!Where, matches
<1>5. matches \in Seq(S)
  BY <1>3
<1>6. found \in Seq(S) /\ \E places : Taken(found, matches, places)
  BY <1>4, <1>5, AtPlacesOfF
<1> HIDE DEF found
<1>7. \A i \in DOMAIN found : \E k \in DOMAIN matches : found[i] = matches[k]
  BY <1>6, Zenon DEF Taken
<1>8. DOMAIN matches = {}
  BY <1>3
<1>9. DOMAIN found = {}
  BY <1>7, <1>8
<1>10. found = <<>>
  BY <1>6, <1>9
<1> QED
  BY <1>10 DEF found

\* What inspect_symbol gives is what was found, and that is of functions of the file.
Gives(ans, found, functions) == (ans.kind = "ok" => ans = Matched(found)) /\ Among(found, functions)

LEMMA InspectGives ==
    ASSUME NEW file, FileTypeOK(file), NEW symbol, NEW mode, NEW all, NEW hint
    PROVE  Gives(F!inspect_symbol(file, symbol, mode, all, hint),
                 Found(F!analyze_file(file).functions, symbol, mode, hint), F!analyze_file(file).functions)
<1> DEFINE functions == F!analyze_file(file).functions
           found == Found(functions, symbol, mode, hint)
           ans == F!inspect_symbol(file, symbol, mode, all, hint)
<1>1. ans \in {F!Notice("denied"), F!Notice("restricted"), Unfound(functions), Ambiguous(found), Matched(found)}
  BY InspectParts, Zenon DEF Says
<1>2. functions \in Seq(Range(functions))
  BY KeptFunctions
<1> HIDE DEF ans, functions
<1>3. Among(found, functions)
  BY <1>2, FoundAreFunctions
<1> HIDE DEF found
<1>4. ans.kind = "ok" => ans = Matched(found)
  BY <1>1, KindsOfInspect, NoticeKind
<1> QED
  BY <1>3, <1>4 DEF ans, functions, found, Gives

\* An outline has an entry for each function that is kept.
Entry(f) == F!sanitize_file_outline([canonical |-> f.qualified, signature |-> f.signature, strip |-> f.strip,
                                     first |-> f.first, last |-> f.last], f.redacted)

LEMMA OutlineParts ==
    ASSUME NEW file, F!get_file_outline(file).kind = "outline"
    PROVE  LET functions == F!analyze_file(file).functions
           IN /\ ~file.outside /\ ~file.restricted
              /\ F!get_file_outline(file).functions = [i \in DOMAIN functions |-> Entry(functions[i])]
<1> DEFINE functions == F!analyze_file(file).functions
           entries == [i \in DOMAIN functions |-> Entry(functions[i])]
           clean == F!sanitize_config_text(file.lines).lines
           kept == F!Where(clean, LAMBDA line : line.kind \notin {"blank", "comment"})
           outline == [kind |-> "outline", functions |-> entries,
                       types |-> F!Mapped(F!analyze_file(file).types,
                                          LAMBDA t : IF t.redacted THEN F!NoticeName ELSE t.name)]
           config == [kind |-> "config", lines |-> kept]
           ans == F!get_file_outline(file)
<1>1. F!render_config_outline(file) \in {F!Notice("unreadable"), config}
  BY Zenon DEF F!render_config_outline
<1>2. ans = F!Guarded(file, IF F!is_config_file(file) THEN F!render_config_outline(file) ELSE outline)
  BY Zenon DEF F!get_file_outline, F!Mapped, Entry
<1>3. outline.functions = entries /\ config.kind = "config"
  OBVIOUS
<1> HIDE DEF outline, config, ans, entries
<1>4. F!Notice("denied").kind # "outline" /\ F!Notice("restricted").kind # "outline"
  BY NoticeKind
<1>5. F!render_config_outline(file).kind # "outline"
  BY <1>1, <1>3, NoticeKind
<1>6. ~file.outside /\ ~file.restricted /\ ans = outline
  BY <1>2, <1>4, <1>5, Zenon DEF F!Guarded, ans
<1> QED
  BY <1>3, <1>6 DEF ans, entries

(***************************************************************************)
(* The conversation of a client with the tools that read a file.           *)
(***************************************************************************)
FileRequest(r) ==
    /\ "file tools" \in DOMAIN Requests /\ r.tool \in FileToolNames
    /\ \E asked \in Requests["file tools"] : r.file = asked.file

\* The symbol asked for is of an entry of the outline of the same file.
Listed(r, outline) ==
    /\ r.tool = "inspect_symbol" /\ r.mode = "auto" /\ r.hint = ""
    /\ outline = F!get_file_outline(r.file) /\ outline.kind = "outline"
    /\ r.entry \in DOMAIN outline.functions /\ r.symbol = outline.functions[r.entry].canonical

FilesInv ==
    tool = "file tools" =>
        /\ request # <<>> => request = <<Req>> /\ FileRequest(Req)
        /\ answer # <<>> => request # <<>> /\ answer = <<FileAnswer(Req)>>
        /\ heard # <<>> => request # <<>> /\ heard = <<heard[1]>> /\ Listed(Req, heard[1])

LEMMA FilesInit == Init => FilesInv
  BY DEF Init, FilesInv

\* Only an outline is an outline.
LEMMA OutlineIsOfOutline ==
    ASSUME NEW r, r.tool \in FileToolNames, FileAnswer(r).kind = "outline"
    PROVE  FileAnswer(r) = F!get_file_outline(r.file)
<1>1. CASE r.tool = "get_file_outline"
  BY <1>1 DEF FileAnswer
<1>2. CASE r.tool = "inspect_symbol"
  BY <1>2, InspectKinds DEF FileAnswer, GuardKinds
<1>3. CASE r.tool \in {"get_module_summary", "query_ast"}
  BY <1>3, OtherKinds DEF FileAnswer, GuardKinds
<1>4. CASE r.tool = "read_config_file"
  BY <1>4, ReadKinds DEF FileAnswer, GuardKinds
<1> QED
  BY <1>1, <1>2, <1>3, <1>4 DEF FileToolNames

LEMMA FilesNext ==
    ASSUME FilesInv, [Next]_vars
    PROVE  FilesInv'
<1>1. CASE UNCHANGED <<tool, call>>
  BY <1>1 DEF FilesInv, call, Req, FileAnswer, Listed, FileRequest
<1>2. CASE Ask
  <2>1. PICK r \in Requests[tool] : request' = <<r>>
    BY <1>2 DEF Ask
  <2>2. request'[1] = r /\ request' # <<>>
    BY <2>1
  <2>3. UNCHANGED <<tool, answer, heard>> /\ request = <<>> /\ tool \in DOMAIN Requests
    BY <1>2 DEF Ask
  <2>4. tool = "file tools" => answer = <<>> /\ heard = <<>> /\ FileRequest(r)
    BY <2>3, FilesAssumption DEF FilesInv, FileRequest
  <2> QED
    BY <2>1, <2>2, <2>3, <2>4 DEF FilesInv, Req
<1>3. CASE Answer
  <2>1. UNCHANGED <<tool, request, heard>> /\ request # <<>>
    BY <1>3 DEF Answer
  <2>2. tool = "file tools" => Respond(request[1]) = {FileAnswer(request[1])}
    BY DEF Respond
  <2>3. tool = "file tools" => answer' = <<FileAnswer(request[1])>>
    BY <1>3, <2>2 DEF Answer
  <2> QED
    BY <2>1, <2>3 DEF FilesInv, Req, FileAnswer
<1>4. CASE Return
  BY <1>4 DEF Return, FilesInv
<1>5. CASE NextPage
  BY <1>5 DEF NextPage, FilesInv
<1>6. CASE InspectListed
  <2>1. /\ tool = "file tools" /\ answer # <<>> /\ answer[1].kind = "outline" /\ UNCHANGED tool
        /\ heard' = <<answer[1]>> /\ answer' = <<>>
    BY <1>6 DEF InspectListed
  <2>2. PICK i \in DOMAIN answer[1].functions, all \in BOOLEAN :
          request' = <<[tool |-> "inspect_symbol", file |-> request[1].file, mode |-> "auto", all |-> all,
                        symbol |-> answer[1].functions[i].canonical, hint |-> "", entry |-> i]>>
    BY <1>6, Zenon DEF InspectListed
  <2> DEFINE r == [tool |-> "inspect_symbol", file |-> request[1].file, mode |-> "auto", all |-> all,
                   symbol |-> answer[1].functions[i].canonical, hint |-> "", entry |-> i]
  <2>3. /\ r.tool = "inspect_symbol" /\ r.file = request[1].file /\ r.mode = "auto" /\ r.hint = "" /\ r.entry = i
        /\ r.symbol = answer[1].functions[i].canonical
    OBVIOUS
  <2> HIDE DEF r
  <2>4. request' = <<r>>
    BY <2>2 DEF r
  <2>5. request'[1] = r /\ request' # <<>> /\ heard'[1] = answer[1]
    BY <2>1, <2>4
  <2>6. FileRequest(request[1]) /\ answer[1] = FileAnswer(request[1])
    <3>1. answer = <<FileAnswer(Req)>> /\ FileRequest(Req)
      BY <2>1, Zenon DEF FilesInv
    <3> QED
      BY <3>1 DEF Req
  <2>7. answer[1] = F!get_file_outline(request[1].file)
    BY <2>1, <2>6, OutlineIsOfOutline DEF FileRequest
  <2>8. FileRequest(r)
    BY <2>3, <2>6 DEF FileRequest, FileToolNames
  <2>9. Listed(r, answer[1])
    BY <2>1, <2>3, <2>7 DEF Listed
  <2> QED
    BY <2>1, <2>4, <2>5, <2>8, <2>9 DEF FilesInv, Req
<1>7. CASE RefreshIndex \/ ChangeSettings \/ ObserveTree \/ Restart
  <2>1. UNCHANGED <<tool, call>>
    BY <1>7, Zenon DEF RefreshIndex, ChangeSettings, ObserveTree, Restart
  <2> QED
    BY <1>1, <2>1
<1>8. CASE \E c \in Callers : BeginPass(c) \/ LoadOverrides(c) \/ ApplyRules(c) \/ GiveResult(c)
  <2>1. UNCHANGED <<tool, call>>
    BY <1>8, Zenon DEF BeginPass, LoadOverrides, ApplyRules, GiveResult
  <2> QED
    BY <1>1, <2>1
<1>9. CASE UNCHANGED vars
  BY <1>1, <1>9 DEF vars
<1> QED
  BY <1>2, <1>3, <1>4, <1>5, <1>6, <1>7, <1>8, <1>9 DEF Next

LEMMA RequestsAreTyped ==
    ASSUME FilesInv, Answered("file tools")
    PROVE  /\ request = <<Req>> /\ answer = <<Ans>> /\ FileRequest(Req) /\ FileTypeOK(Req.file)
           /\ Ans = FileAnswer(Req)
<1>1. request = <<Req>> /\ FileRequest(Req) /\ answer = <<FileAnswer(Req)>>
  BY Zenon DEF FilesInv, Answered
<1>2. Ans = FileAnswer(Req)
  <2> HIDE DEF Req
  <2> QED
    BY <1>1 DEF Ans
<1>3. FileTypeOK(Req.file)
  BY <1>1, FilesAssumption DEF FileRequest
<1> QED
  BY <1>1, <1>2, <1>3

\* What .mcpignore hides, or lies outside the root, stays hidden from every tool that
\* reads a file; of a sensitive key nothing on its line is given, and in the source of a
\* function only notices match and no "//" has a sensitive word behind it (tools/*.rs,
\* sanitizer.rs): for every file, request and text.
THEOREM FilesStayHidden == Spec => []HiddenStaysHidden
<1>1. FilesInv => HiddenStaysHidden
  <2> SUFFICES ASSUME FilesInv, Answered("file tools")
               PROVE  /\ Req.file.outside \/ Req.file.restricted => Ans.kind \in {"denied", "restricted"}
                      /\ Ans.kind = "config" => \A i \in DOMAIN Ans.lines : ValueHidden(Ans.lines[i])
                      /\ Ans.kind = "ok" => \A i \in DOMAIN Ans.matches :
                            /\ \A piece \in F!Pieces(Ans.matches[i].source) :
                                  piece.name = F!NoticeName \/ piece.matches \cap Range(F!SECRET_PATTERNS) = {}
                            /\ \A n \in DOMAIN Ans.matches[i].source : Stripped(Ans.matches[i].source[n])
    BY Zenon DEF HiddenStaysHidden, ValueHidden, Stripped, F!Range, Range
  <2> DEFINE r == Req
             functions == F!analyze_file(r.file).functions
             found == Found(functions, r.symbol, r.mode, r.hint)
  <2>1. r.tool \in FileToolNames /\ FileTypeOK(r.file) /\ Ans = FileAnswer(r)
    BY RequestsAreTyped DEF FileRequest
  <2> HIDE DEF r
  <2>2. ASSUME r.file.outside \/ r.file.restricted PROVE Ans.kind \in {"denied", "restricted"}
    BY <2>1, <2>2, AnswersAreGuarded, HiddenGetsNotice, Zenon
  <2>3. ASSUME Ans.kind = "config" PROVE \A i \in DOMAIN Ans.lines : ValueHidden(Ans.lines[i])
    BY <2>1, <2>3, ConfigAnswerHides
  <2>4. ASSUME Ans.kind = "ok", NEW i \in DOMAIN Ans.matches
        PROVE  /\ \A piece \in F!Pieces(Ans.matches[i].source) :
                     piece.name = F!NoticeName \/ piece.matches \cap Range(F!SECRET_PATTERNS) = {}
               /\ \A n \in DOMAIN Ans.matches[i].source : Stripped(Ans.matches[i].source[n])
    <3>1. Ans = F!inspect_symbol(r.file, r.symbol, r.mode, r.all, r.hint)
      BY <2>1, <2>4, OnlyInspectGives DEF FileAnswer
    <3>2. Ans = Matched(found) /\ Among(found, functions)
      <4>1. Gives(Ans, found, functions)
        BY <2>1, <3>1, InspectGives
      <4> QED
        BY <2>4, <4>1 DEF Gives
    <3>3. ASSUME NEW j \in DOMAIN functions PROVE F!SourceOf(functions[j]) \in F!Text
      <4>1. IsFunctionNode(r.file.functions[j]) /\ functions[j] = F!FunctionInfo(r.file.functions[j], r.file.language)
        BY <2>1, KeptFunctions, Zenon
      <4> HIDE DEF functions
      <4> QED
        BY <4>1, SourceGiven
    <3> HIDE DEF found, functions
    <3>4. /\ i \in DOMAIN found
          /\ Ans.matches[i].source = F!sanitize_function_source(F!SourceOf(found[i]), <<>>).text
      BY <2>4, <3>2, MatchedParts
    <3>5. F!SourceOf(found[i]) \in F!Text
      BY <3>2, <3>3, <3>4 DEF Among
    <3> QED
      BY <3>4, <3>5, FunctionSource
  <2> QED
    BY <2>2, <2>3, <2>4 DEF r
<1>2. FilesInv /\ [Next]_vars => FilesInv'
  BY FilesNext
<1> QED
  BY FilesInit, <1>1, <1>2, PTL DEF Spec

\* The outline leads to the symbol (outline.rs, symbol.rs): whatever the file, a function
\* is found by its canonical identifier as the outline gives it, nothing is by one that the
\* outline has redacted, and a function that the outline calls restricted never comes with
\* the block that is its body.
THEOREM OutlineLeads == Spec => []OutlineLeadsToSymbol
<1>1. FilesInv => OutlineLeadsToSymbol
  <2> SUFFICES ASSUME FilesInv, Answered("file tools"), heard # <<>>
               PROVE  OutlineLeadsToSymbol
    BY DEF OutlineLeadsToSymbol
  <2> DEFINE r == Req
             functions == F!analyze_file(r.file).functions
             e == r.entry
             f == functions[e]
             node == r.file.functions[e]
             entry == heard[1].functions[e]
             found == Found(functions, f.qualified, "auto", "")
             hidden == "identifier" \in node.redacted
             Same(c) == /\ c.first = entry.first /\ c.last = entry.last
                        /\ c.signature = entry.signature \/ "signature" \in node.redacted
  <2>1. /\ Ans = FileAnswer(r) /\ FileTypeOK(r.file) /\ Listed(r, heard[1])
    BY RequestsAreTyped, Zenon DEF FilesInv, Answered
  <2> HIDE DEF r
  <2>2. /\ r.tool = "inspect_symbol" /\ r.mode = "auto" /\ r.hint = ""
        /\ ~r.file.outside /\ ~r.file.restricted
        /\ heard[1].functions = [i \in DOMAIN functions |-> Entry(functions[i])]
    BY <2>1, OutlineParts DEF Listed
  <2>3. e \in DOMAIN functions /\ entry = Entry(f) /\ r.symbol = entry.canonical
    BY <2>1, <2>2 DEF Listed
  <2>4. f = F!FunctionInfo(node, r.file.language) /\ IsFunctionNode(node)
    BY <2>1, <2>3, KeptFunctions, Zenon
  <2>5. \E i \in DOMAIN found : found[i] = f
    <3>1. functions \in Seq(Range(functions))
      BY <2>1, KeptFunctions
    <3>2. PICK T : F!extract_owner_chain(node, r.file.language) \in Seq(T)
      BY <2>4, OwnerChain
    <3>3. f.qualified = Append(F!extract_owner_chain(node, r.file.language), f.name)
      <4> HIDE DEF f, node
      <4> QED
        BY <2>4, QualifiedNames, Zenon
    <3> HIDE DEF functions
    <3> QED
      BY <2>3, <3>1, <3>2, <3>3, CanonicalIsFound
  <2>6. /\ entry.canonical = IF hidden THEN <<F!NoticeName>> ELSE f.qualified
        /\ entry.signature = f.signature \/ "signature" \in node.redacted
        /\ entry.first = f.first /\ entry.last = f.last /\ (entry.strip <=> f.strip)
    <3>1. f.redacted = node.redacted
      <4> HIDE DEF f, node
      <4>1. F!FunctionInfo(node, r.file.language).redacted = node.redacted
        BY DEF F!FunctionInfo
      <4> QED
        BY <2>4, <4>1
    <3>2. /\ Entry(f).canonical = IF "identifier" \in f.redacted THEN <<F!NoticeName>> ELSE f.qualified
          /\ Entry(f).signature = IF "signature" \in f.redacted THEN {F!NoticeName} ELSE f.signature
          /\ Entry(f).first = f.first /\ Entry(f).last = f.last /\ Entry(f).strip = f.strip
      <4> HIDE DEF f
      <4> QED
        BY DEF Entry, F!sanitize_file_outline
    <3> HIDE DEF entry, f, node
    <3> QED
      BY <2>3, <3>1, <3>2, Zenon
  <2>7. ASSUME NEW i \in DOMAIN functions
         PROVE  functions[i].name # F!NoticeName /\ functions[i].qualified # <<F!NoticeName>>
    <3> DEFINE g == functions[i]
               m == r.file.functions[i]
               owners == F!extract_owner_chain(m, r.file.language)
    <3>1. g = F!FunctionInfo(m, r.file.language) /\ IsFunctionNode(m)
      BY <2>1, KeptFunctions, Zenon
    <3> HIDE DEF g, m
    <3>2. g.name = m.name /\ m.name # F!NoticeName
      BY <3>1 DEF F!FunctionInfo, IsFunctionNode
    <3>3. PICK T : owners \in Seq(T)
      BY <3>1, OwnerChain
    <3>4. g.qualified = Append(owners, g.name)
      BY <3>1, QualifiedNames, Zenon
    <3> HIDE DEF owners
    <3>5. g.qualified # <<F!NoticeName>>
      <4> HIDE DEF g, m, owners
      <4>1. Append(owners, g.name) = <<F!NoticeName>> => g.name = F!NoticeName
        BY <3>3, OneName
      <4> QED
        BY <3>2, <3>4, <4>1, Zenon
    <3> QED
      BY <3>2, <3>5 DEF g
  <2>8. Same(Candidate(f))
    BY <2>6 DEF Candidate
  <2> HIDE DEF functions, f, entry, node, e
  <2>9. Ans = F!inspect_symbol(r.file, entry.canonical, "auto", r.all, "")
    BY <2>1, <2>2, <2>3, Zenon DEF FileAnswer
  <2>10. CASE hidden
    <3> DEFINE nothing == Found(functions, <<F!NoticeName>>, "auto", "")
    <3>1. nothing = <<>>
      <4>1. functions \in Seq(Range(functions))
        BY <2>1, KeptFunctions DEF functions
      <4> QED
        BY <2>7, <4>1, NoticeIsNotFound
    <3>2. Says(Ans, r.file, functions, nothing)
      BY <2>6, <2>9, <2>10, InspectParts DEF functions
    <3> HIDE DEF nothing
    <3>3. Ans.kind = "not found"
      BY <2>2, <3>1, <3>2, KindsOfInspect DEF Says
    <3> QED
      BY <2>10, <3>3 DEF OutlineLeadsToSymbol, node, e, r
  <2>11. ASSUME ~hidden PROVE Ans = Ambiguous(found) \/ Ans = Matched(found)
    <3>1. Says(Ans, r.file, functions, found)
      BY <2>6, <2>9, <2>11, InspectParts DEF functions
    <3> HIDE DEF found
    <3>2. found # <<>>
      BY <2>5, NothingFound
    <3> QED
      BY <2>2, <3>1, <3>2, Zenon DEF Says
  <2> HIDE DEF found, hidden
  <2>12. PICK i \in DOMAIN found : found[i] = f
    BY <2>5
  <2>13. CASE ~hidden /\ Ans = Ambiguous(found)
    <3>1. i \in DOMAIN Ans.candidates /\ Ans.candidates[i] = Candidate(f) /\ Ans.kind = "ambiguous"
      BY <2>12, <2>13, AmbiguousParts, KindsOfInspect
    <3>2. \E k \in DOMAIN Ans.candidates : Same(Ans.candidates[k])
      BY <2>8, <3>1, Zenon
    <3> HIDE DEF Same
    <3> QED
      BY <2>13, <3>1, <3>2 DEF OutlineLeadsToSymbol, Same, hidden, entry, node, e, r
  <2>14. CASE ~hidden /\ Ans = Matched(found)
    <3>1. /\ i \in DOMAIN Ans.matches /\ Ans.matches[i].symbol = Candidate(f) /\ Ans.kind = "ok"
          /\ Ans.matches[i].source = F!sanitize_function_source(F!SourceOf(f), <<>>).text
      BY <2>12, <2>14, MatchedParts, KindsOfInspect
    <3>2. ASSUME entry.strip, node.body = "block", NEW piece \in F!Pieces(Ans.matches[i].source)
          PROVE  piece.name # "body"
      <4>1. f.strip
        BY <2>6, <3>2
      <4>2. F!SourceOf(f) \in F!Text /\ \A p \in F!Pieces(F!SourceOf(f)) : p.name # "body"
        BY <2>4, <3>2, <4>1, SourceGiven
      <4>3. piece.name = F!NoticeName \/ piece \in {F!CommentRedacted} \cup F!Pieces(F!SourceOf(f))
        BY <3>1, <3>2, <4>2, FunctionSource
      <4> QED
        BY <4>2, <4>3, NoticesArePieces
    <3>3. Same(Ans.matches[i].symbol)
      BY <2>8, <3>1, Zenon
    <3>4. \E k \in DOMAIN Ans.matches :
            /\ Same(Ans.matches[k].symbol)
            /\ entry.strip /\ node.body = "block" =>
                 \A piece \in F!Pieces(Ans.matches[k].source) : piece.name # "body"
      BY <3>1, <3>2, <3>3, Zenon
    <3> HIDE DEF Same
    <3> QED
      BY <2>14, <3>1, <3>4 DEF OutlineLeadsToSymbol, Same, hidden, entry, node, e, r
  <2> QED
    BY <2>11, <2>13, <2>14, <2>10
<1>2. FilesInv /\ [Next]_vars => FilesInv'
  BY FilesNext
<1> QED
  BY FilesInit, <1>1, <1>2, PTL DEF Spec

(***************************************************************************)
(* The dependency graph.                                                   *)
(***************************************************************************)
\* The names that may be cut, which Order lists.
Listable == Range(Order)

\* The places of names tell them apart.
LEMMA RanksDiffer ==
    /\ \A x \in Listable : D!Rank[x] \in Nat
    /\ \A x, y \in Listable : D!Rank[x] = D!Rank[y] => x = y
<1> USE OrderAssumption DEF Listable
<1>1. \A x \in Range(Order) : \E i \in DOMAIN Order : Order[i] = x
  BY DEF Range
<1>2. D!Range(Order) = Range(Order)
  BY DEF Range, D!Range
<1>3. ASSUME NEW x \in Range(Order) PROVE D!Rank[x] \in DOMAIN Order /\ Order[D!Rank[x]] = x
  <2>1. D!Rank[x] = CHOOSE i \in DOMAIN Order : Order[i] = x
    BY <1>2 DEF D!Rank
  <2> QED
    BY <1>1, <2>1
<1>4. DOMAIN Order \subseteq Nat
  OBVIOUS
<1> QED
  BY <1>3, <1>4

\* A sequence has finitely many elements.
LEMMA RangeFinite ==
    ASSUME NEW seq, seq \in Seq(Range(seq))
    PROVE  IsFiniteSet(Range(seq))
<1> DEFINE f == [i \in 1 .. Len(seq) |-> seq[i]]
<1>1. Range(seq) = {seq[i] : i \in DOMAIN seq}
  BY DEF Range
<1>2. f \in Surjection(1 .. Len(seq), Range(seq))
  <2>1. f \in [1 .. Len(seq) -> Range(seq)]
    BY <1>1
  <2>2. \A x \in Range(seq) : \E i \in 1 .. Len(seq) : f[i] = x
    BY <1>1
  <2> HIDE DEF f
  <2> QED
    BY <2>1, <2>2 DEF Surjection
<1> QED
  BY <1>2, FS_Surjection, FS_Interval

\* The first n names are at most n of them, and all if there are no more.
LEMMA FirstNames ==
    ASSUME NEW S, S \subseteq Listable, NEW n \in Nat
    PROVE  /\ IsFiniteSet(S) /\ D!FirstOf(S, n) \subseteq S
           /\ IsFiniteSet(D!FirstOf(S, n)) /\ Cardinality(D!FirstOf(S, n)) <= n
           /\ Cardinality(S) <= n => D!FirstOf(S, n) = S
<1> DEFINE below == [x \in S |-> {y \in S : D!Rank[y] < D!Rank[x]}]
           T == {x \in S : Cardinality(below[x]) < n}
<1>1. IsFiniteSet(S) /\ Cardinality(S) \in Nat
  BY OrderAssumption, RangeFinite, FS_Subset, FS_CardinalityType DEF Listable
<1>2. D!FirstOf(S, n) = IF Cardinality(S) <= n THEN S ELSE T
  BY SameCardinality DEF D!FirstOf
<1>3. /\ below \in [S -> SUBSET S]
      /\ \A x \in S : x \notin below[x]
      /\ \A x, y \in S : x \in below[y] => below[x] \subseteq below[y]
      /\ \A x, y \in S : x = y \/ x \in below[y] \/ y \in below[x]
  BY RanksDiffer
<1> HIDE DEF below
<1>4. IsFiniteSet(T) /\ Cardinality(T) <= n
  <2> HIDE DEF T
  <2>1. T = {x \in S : Cardinality(below[x]) < n}
    BY DEF T
  <2> QED
    BY <1>1, <1>3, <2>1, FewBelow
<1> QED
  BY <1>1, <1>2, <1>4

LabelNames == {"external", "inbound", "internal", "restricted", "unresolved"}
EdgesAmong(names) == [source : names, target : names, label : LabelNames]

LEMMA LabelsAsTuple ==
    /\ DOMAIN D!Labels = 1 .. 5
    /\ D!Labels[1] = "external" /\ D!Labels[2] = "inbound" /\ D!Labels[3] = "internal"
    /\ D!Labels[4] = "restricted" /\ D!Labels[5] = "unresolved"
  BY DEF D!Labels

\* There are finitely many edges among listable names.
LEMMA EdgesFinite == IsFiniteSet(EdgesAmong(Listable))
<1> DEFINE E == EdgesAmong(Listable)
           ends == [e \in E |-> <<<<e.source, e.target>>, e.label>>]
<1>1. IsFiniteSet(Listable)
  BY OrderAssumption, RangeFinite DEF Listable
<1>2. IsFiniteSet(LabelNames)
  <2> DEFINE f == [i \in 1 .. 5 |-> D!Labels[i]]
  <2>1. f \in [1 .. 5 -> LabelNames]
    BY LabelsAsTuple DEF LabelNames
  <2>2. \A l \in LabelNames : \E i \in 1 .. 5 : f[i] = l
    BY LabelsAsTuple DEF LabelNames
  <2> HIDE DEF f
  <2>3. f \in Surjection(1 .. 5, LabelNames)
    BY <2>1, <2>2 DEF Surjection
  <2> HIDE DEF E, ends
  <2>4. IsFiniteSet(1 .. 5)
    <3>1. \A n \in Nat : IsFiniteSet(1 .. n)
      BY FS_Interval
    <3> QED
      BY <3>1
  <2> QED
    BY <2>3, <2>4, FS_Surjection, Zenon
<1>3. IsFiniteSet((Listable \X Listable) \X LabelNames)
  BY <1>1, <1>2, FS_Product
<1>4. ends \in [E -> (Listable \X Listable) \X LabelNames]
  BY DEF EdgesAmong
<1>5. ASSUME NEW e \in E, NEW f \in E, ends[e] = ends[f] PROVE e = f
  BY <1>5 DEF EdgesAmong
<1> HIDE DEF ends
<1>6. ends \in Injection(E, (Listable \X Listable) \X LabelNames)
  BY <1>4, <1>5 DEF Injection, IsInjective
<1> QED
  BY <1>3, <1>6, FS_Injection

\* Every edge of a table is among its nodes.
LEMMA EdgesOfTable ==
    ASSUME NEW deps, NEW mode
    PROVE  D!EdgesOf(deps, mode) \subseteq EdgesAmong(D!NodesOf(deps, mode))
<1> SUFFICES ASSUME NEW e \in D!EdgesOf(deps, mode)
             PROVE  e \in EdgesAmong(D!NodesOf(deps, mode))
  OBVIOUS
<1>1. \E s, t : \E l \in LabelNames : e = D!Edge(s, t, l)
  BY DEF D!EdgesOf, LabelNames
<1>2. PICK s, t : \E l \in LabelNames : e = [source |-> s, target |-> t, label |-> l]
  BY <1>1 DEF D!Edge
<1>3. e.source \in D!NodesOf(deps, mode) /\ e.target \in D!NodesOf(deps, mode)
  BY DEF D!NodesOf
<1> QED
  BY <1>2, <1>3 DEF EdgesAmong

Kept(nodes, edges, budget, kept) ==
    /\ kept.nodes \subseteq nodes /\ kept.edges \subseteq edges /\ kept.edges \subseteq EdgesAmong(kept.nodes)
    /\ kept.edges # {} \/ kept.reason = "response_bytes_limit" => kept.nodes = nodes
    /\ ~kept.truncated => kept.nodes = nodes /\ kept.edges = edges
    /\ kept.bytes <= budget \/ (kept.nodes = {} /\ kept.edges = {})

\* A number of pops that satisfies either condition, and no smaller one does.
LEMMA LeastPops ==
    ASSUME NEW total \in Nat, NEW S, S \subseteq 0 .. total, total \in S
    PROVE  D!Min(S) \in S
<1>1. S \subseteq Nat /\ S # {}
  OBVIOUS
<1>2. PICK k \in S : \A l \in S : ~(l < k)
  <2>1. \E k \in S : \A l \in S : <<l, k>> \notin OpToRel(<, Nat)
    BY <1>1, NatLessThanWellFounded, WFMin
  <2> QED
    BY <1>1, <2>1 DEF OpToRel
<1>3. \A l \in S : k <= l
  BY <1>1, <1>2
<1> QED
  BY <1>3 DEF D!Min

\* What the budget keeps is a graph, cut at its edges first.
LEMMA BudgetKeeps ==
    ASSUME NEW nodes, nodes \subseteq Listable, NEW edges, edges \subseteq EdgesAmong(nodes),
           NEW bytes, NEW budget
    PROVE  Kept(nodes, edges, budget, D!ensure_budget(nodes, edges, bytes, budget))
<1> DEFINE n == Cardinality(nodes)
           m == Cardinality(edges)
           FirstEdges(i) == {e \in edges : Cardinality({f \in edges : D!EdgeBefore(f, e)}) < i}
           NodesLeft(k) == IF k <= m THEN nodes ELSE D!FirstOf(nodes, n + m - k)
           EdgesLeft(k) == IF k < m THEN FirstEdges(m - k) ELSE {}
           Bytes(k) == D!GraphBytes(NodesLeft(k), EdgesLeft(k), bytes)
           whole == D!GraphBytes(nodes, edges, bytes)
           pops == {k \in 0 .. n + m : k = n + m \/ Bytes(k) <= budget}
           popped == D!Min(pops)
           all == [nodes |-> nodes, edges |-> edges, bytes |-> whole, truncated |-> FALSE, reason |-> "none"]
           some == [nodes |-> NodesLeft(popped), edges |-> EdgesLeft(popped), bytes |-> Bytes(popped),
                    truncated |-> TRUE,
                    reason |-> IF popped <= m /\ Bytes(popped) <= budget THEN "response_bytes_limit"
                               ELSE "response_nodes_trimmed"]
           kept == D!ensure_budget(nodes, edges, bytes, budget)
<1>1. n \in Nat /\ m \in Nat
  <2>1. edges \subseteq EdgesAmong(Listable)
    BY DEF EdgesAmong
  <2>2. IsFiniteSet(nodes) /\ IsFiniteSet(edges)
    BY <2>1, EdgesFinite, OrderAssumption, RangeFinite, FS_Subset DEF Listable
  <2> QED
    BY <2>2, FS_CardinalityType
<1>2. kept = IF whole <= budget THEN all ELSE some
  BY SameCardinality DEF D!ensure_budget
<1>3. ASSUME whole <= budget PROVE Kept(nodes, edges, budget, all)
  <2> HIDE DEF whole
  <2> QED
    BY <1>3 DEF Kept
<1> HIDE DEF n, m, Bytes, FirstEdges
<1>4. popped \in 0 .. n + m /\ (popped = n + m \/ Bytes(popped) <= budget)
  <2>1. n + m \in pops /\ pops \subseteq 0 .. n + m /\ n + m \in Nat
    BY <1>1
  <2>2. popped \in pops
    <3> HIDE DEF pops
    <3> QED
      BY <2>1, LeastPops
  <2> HIDE DEF popped
  <2> QED
    BY <2>2
<1> HIDE DEF popped, whole
<1>5. \A i : FirstEdges(i) \subseteq edges
  BY DEF FirstEdges
<1>6. NodesLeft(popped) \subseteq nodes /\ (popped = n + m => EdgesLeft(popped) = {} /\ NodesLeft(popped) = {})
  <2>1. ASSUME NEW i \in Nat
        PROVE  D!FirstOf(nodes, i) \subseteq nodes /\ (i = 0 => D!FirstOf(nodes, i) = {})
    <3>1. /\ D!FirstOf(nodes, i) \subseteq nodes /\ IsFiniteSet(D!FirstOf(nodes, i))
          /\ Cardinality(D!FirstOf(nodes, i)) <= i
      BY FirstNames
    <3>2. Cardinality(D!FirstOf(nodes, i)) \in Nat
      BY <3>1, FS_CardinalityType
    <3> QED
      BY <3>1, <3>2, FS_EmptySet
  <2>2. n = 0 => nodes = {}
    <3>1. IsFiniteSet(nodes)
      BY FirstNames
    <3> QED
      BY <3>1, FS_EmptySet DEF n
  <2>3. n + m - popped \in Nat
    BY <1>1, <1>4
  <2>4. CASE popped <= m
    BY <1>1, <2>2, <2>4
  <2>5. CASE ~(popped <= m)
    BY <1>1, <1>4, <2>1, <2>3, <2>5
  <2> QED
    BY <2>4, <2>5
<1>7. EdgesLeft(popped) \subseteq edges /\ (EdgesLeft(popped) # {} => NodesLeft(popped) = nodes)
  BY <1>1, <1>4, <1>5
<1>8. EdgesLeft(popped) \subseteq EdgesAmong(NodesLeft(popped))
  BY <1>7
<1>9. popped <= m => NodesLeft(popped) = nodes
  OBVIOUS
<1>10. Kept(nodes, edges, budget, some)
  <2> HIDE DEF NodesLeft, EdgesLeft
  <2> QED
    BY <1>4, <1>6, <1>7, <1>8, <1>9 DEF Kept
<1> HIDE DEF all, some, kept
<1> QED
  BY <1>2, <1>3, <1>10 DEF kept

\* What a function maps a finite set to is finite, and not larger.
LEMMA ImageFinite ==
    ASSUME NEW S, IsFiniteSet(S), NEW T, NEW f \in [S -> T], T = {f[x] : x \in S}
    PROVE  IsFiniteSet(T) /\ Cardinality(T) <= Cardinality(S)
<1>1. \A t \in T : \E x \in S : f[x] = t
  OBVIOUS
<1>2. f \in Surjection(S, T)
  BY <1>1 DEF Surjection
<1> QED
  BY <1>2, FS_Surjection

\* Names are replaced one by one.
Clean(name, secrets) == IF name \in secrets THEN D!RedactedName ELSE name
CleanEdge(e, secrets) == D!Edge(Clean(e.source, secrets), Clean(e.target, secrets), e.label)

\* What an answer shows of a graph.
ShownOf(kept, secrets, g) ==
    /\ g.nodes = {Clean(n, secrets) : n \in kept.nodes}
    /\ g.edges = {CleanEdge(e, secrets) : e \in kept.edges}
    /\ (g.truncated <=> kept.truncated) /\ g.bytes = kept.bytes /\ g.reason = kept.reason

Fits(g, nodes, edges, secrets, budget) ==
    /\ UNION {{e.source, e.target} : e \in g.edges} \subseteq g.nodes
    /\ g.nodes \cap secrets \subseteq {D!RedactedName}
    /\ g.edges # {} \/ g.reason = "response_bytes_limit" => g.nodes = {Clean(n, secrets) : n \in nodes}
    /\ ~g.truncated => /\ g.nodes = {Clean(n, secrets) : n \in nodes}
                       /\ g.edges = {CleanEdge(e, secrets) : e \in edges}
    /\ g.bytes <= budget \/ (g.nodes = {} /\ g.edges = {})

\* Redaction may merge nodes or edges: what is shown fits as well.
LEMMA ShownFits ==
    ASSUME NEW nodes, NEW edges, NEW budget, NEW secrets,
           NEW kept, Kept(nodes, edges, budget, kept), NEW g, ShownOf(kept, secrets, g)
    PROVE  Fits(g, nodes, edges, secrets, budget)
<1>1. ASSUME NEW e \in g.edges PROVE {e.source, e.target} \subseteq g.nodes
  <2>1. PICK f \in kept.edges : e = CleanEdge(f, secrets)
    BY DEF ShownOf
  <2>2. e.source = Clean(f.source, secrets) /\ e.target = Clean(f.target, secrets)
    BY <2>1 DEF CleanEdge, D!Edge
  <2>3. f.source \in kept.nodes /\ f.target \in kept.nodes
    BY DEF Kept, EdgesAmong
  <2> QED
    BY <2>2, <2>3 DEF ShownOf
<1>2. ASSUME NEW name \in g.nodes \cap secrets PROVE name = D!RedactedName
  BY DEF ShownOf, Clean
<1>3. g.edges # {} => kept.edges # {}
  BY DEF ShownOf
<1>4. kept.nodes = {} /\ kept.edges = {} => g.nodes = {} /\ g.edges = {}
  BY DEF ShownOf
<1>5. g.edges # {} \/ g.reason = "response_bytes_limit" => kept.nodes = nodes
  BY <1>3 DEF ShownOf, Kept
<1>6. g.bytes <= budget \/ (g.nodes = {} /\ g.edges = {})
  BY <1>4 DEF ShownOf, Kept
<1>7. ~g.truncated => kept.nodes = nodes /\ kept.edges = edges
  BY Zenon DEF ShownOf, Kept
<1>8. g.nodes = {Clean(n, secrets) : n \in kept.nodes} /\ g.edges = {CleanEdge(e, secrets) : e \in kept.edges}
  BY Zenon DEF ShownOf
<1> QED
  BY <1>1, <1>2, <1>5, <1>6, <1>7, <1>8 DEF Fits

\* The answer shows what the budget keeps of the graph of the table.
LEMMA GraphOfTable ==
    ASSUME NEW p, NEW args, NEW g \in D!get_dependencies_graph(p, args),
           NEW params, params = D!from_args(args), NEW deps, deps = D!Table(p, params)
    PROVE  ShownOf(D!ensure_budget(D!NodesOf(deps, params.mode), D!EdgesOf(deps, params.mode),
                                   params.bytes, params.budget), p.secrets, g)
<1> DEFINE kept == D!ensure_budget(D!NodesOf(deps, params.mode), D!EdgesOf(deps, params.mode), params.bytes, params.budget)
           shown == D!sanitize_dependency_graph(kept, p.secrets)
<1>1. g = [nodes |-> shown.nodes, edges |-> shown.edges, bytes |-> shown.bytes,
           truncated |-> shown.truncated, reason |-> shown.reason,
           cycles |-> D!detect_dependency_cycles(deps), summary |-> D!generate_summary(deps, params)]
  BY DEF D!get_dependencies_graph
<1>2. {"nodes", "edges", "bytes", "truncated", "reason"} = DOMAIN kept
  BY DEF D!ensure_budget
<1>3. /\ shown.nodes = {Clean(n, p.secrets) : n \in kept.nodes}
      /\ shown.edges = {CleanEdge(e, p.secrets) : e \in kept.edges}
      /\ shown.truncated = kept.truncated /\ shown.bytes = kept.bytes /\ shown.reason = kept.reason
  <2> HIDE DEF kept
  <2> QED
    BY <1>2 DEF D!sanitize_dependency_graph, Clean, CleanEdge
<1> HIDE DEF shown, kept
<1>4. /\ g.nodes = shown.nodes /\ g.edges = shown.edges /\ g.truncated = shown.truncated
      /\ g.bytes = shown.bytes /\ g.reason = shown.reason
  BY <1>1, Zenon
<1> QED
  BY <1>3, <1>4, Zenon DEF ShownOf, kept

GraphRequest(r) ==
    "get_dependencies_graph" \in DOMAIN Requests /\ r \in Requests["get_dependencies_graph"]
GraphInv ==
    tool = "get_dependencies_graph" =>
        /\ request # <<>> => GraphRequest(Req)
        /\ answer # <<>> => request # <<>> /\ Ans \in D!get_dependencies_graph(Req.project, Req.args)

LEMMA GraphInit == Init => GraphInv
  BY DEF Init, GraphInv

\* The answer is one to the request under way.
LEMMA GraphNext ==
    ASSUME GraphInv, [Next]_vars
    PROVE  GraphInv'
<1>1. CASE UNCHANGED <<tool, call>>
  BY <1>1 DEF GraphInv, call, Req, Ans, GraphRequest
<1>2. CASE Ask
  <2>1. PICK r \in Requests[tool] : request' = <<r>>
    BY <1>2 DEF Ask
  <2>2. UNCHANGED <<tool, answer>> /\ request = <<>> /\ tool \in DOMAIN Requests
    BY <1>2 DEF Ask
  <2>3. request'[1] = r
    BY <2>1
  <2> QED
    BY <2>1, <2>2, <2>3 DEF GraphInv, Req, GraphRequest
<1>3. CASE Answer
  <2>1. UNCHANGED <<tool, request>> /\ request # <<>>
    BY <1>3 DEF Answer
  <2>2. PICK a \in Respond(request[1]) : answer' = <<a>>
    BY <1>3 DEF Answer
  <2>3. answer'[1] = a
    BY <2>2
  <2>4. tool = "get_dependencies_graph" =>
          Respond(request[1]) = D!get_dependencies_graph(request[1].project, request[1].args)
    BY DEF Respond
  <2> QED
    BY <2>1, <2>2, <2>3, <2>4 DEF GraphInv, Req, Ans, GraphRequest
<1>4. CASE Return
  BY <1>4 DEF Return, GraphInv
<1>5. CASE NextPage \/ InspectListed
  BY <1>5 DEF NextPage, InspectListed, GraphInv
<1>7. CASE RefreshIndex \/ ChangeSettings \/ ObserveTree \/ Restart
  <2>1. UNCHANGED <<tool, call>>
    BY <1>7, Zenon DEF RefreshIndex, ChangeSettings, ObserveTree, Restart
  <2> QED
    BY <1>1, <2>1
<1>8. CASE \E c \in Callers : BeginPass(c) \/ LoadOverrides(c) \/ ApplyRules(c) \/ GiveResult(c)
  <2>1. UNCHANGED <<tool, call>>
    BY <1>8, Zenon DEF BeginPass, LoadOverrides, ApplyRules, GiveResult
  <2> QED
    BY <1>1, <2>1
<1>9. CASE UNCHANGED vars
  BY <1>1, <1>9 DEF vars
<1> QED
  BY <1>2, <1>3, <1>4, <1>5, <1>7, <1>8, <1>9 DEF Next

LEMMA ParamsOf ==
    ASSUME NEW r, GraphRequestOK(r), NEW params, params = D!from_args(r.args)
    PROVE  /\ params.mode = r.args.mode /\ params.budget = r.args.budget
           /\ params.direction = r.args.direction /\ params.depth = r.args.depth
  BY DEF GraphRequestOK, D!from_args

\* The whole graph as the property shows it.
LEMMA WholeShown ==
    ASSUME NEW nodes, NEW edges, NEW secrets
    PROVE  LET whole == D!sanitize_dependency_graph([nodes |-> nodes, edges |-> edges], secrets)
           IN /\ whole.nodes = {Clean(n, secrets) : n \in nodes}
              /\ whole.edges = {CleanEdge(e, secrets) : e \in edges}
  BY DEF D!sanitize_dependency_graph, Clean, CleanEdge

\* A graph that is cut to the response budget is still a graph: for every project, request
\* and size of its names, every edge ends at nodes the answer holds, no name is a secret,
\* edges go before nodes and neither unsaid, and what was measured is over the budget
\* only when nothing is left (ensure_budget, deps_graph/render.rs;
\* sanitize_dependency_graph, privacy_gateway.rs).
THEOREM GraphsFit == Spec => []GraphFitsBudget
<1>1. GraphInv => GraphFitsBudget
  <2> SUFFICES ASSUME GraphInv, Answered("get_dependencies_graph")
               PROVE  GraphFitsBudget
    BY Zenon DEF GraphFitsBudget
  <2> DEFINE r == Req
             params == D!from_args(r.args)
             deps == D!Table(r.project, params)
             nodes == D!NodesOf(deps, r.args.mode)
             edges == D!EdgesOf(deps, r.args.mode)
             secrets == r.project.secrets
             kept == D!ensure_budget(nodes, edges, params.bytes, params.budget)
             whole == D!sanitize_dependency_graph([nodes |-> nodes, edges |-> edges], secrets)
  <2>1. GraphRequestOK(r) /\ Ans \in D!get_dependencies_graph(r.project, r.args)
    BY GraphsAssumption DEF GraphInv, Answered, GraphRequest
  <2> HIDE DEF r
  <2>2. params.mode = r.args.mode /\ params.budget = r.args.budget
    BY <2>1, ParamsOf
  <2>3. ShownOf(kept, secrets, Ans)
    BY <2>1, <2>2, GraphOfTable
  <2>4. nodes \subseteq Listable
    BY <2>1, <2>2 DEF GraphRequestOK, Listable
  <2>5. edges \subseteq EdgesAmong(nodes)
    BY EdgesOfTable
  <2>6. whole.nodes = {Clean(n, secrets) : n \in nodes} /\ whole.edges = {CleanEdge(e, secrets) : e \in edges}
    BY WholeShown
  <2> HIDE DEF nodes, edges, params, secrets, whole
  <2>7. Kept(nodes, edges, params.budget, kept)
    BY <2>4, <2>5, BudgetKeeps
  <2> HIDE DEF kept
  <2>8. Fits(Ans, nodes, edges, secrets, r.args.budget)
    BY <2>2, <2>3, <2>7, ShownFits
  <2>9. /\ UNION {{e.source, e.target} : e \in Ans.edges} \subseteq Ans.nodes
        /\ Ans.nodes \cap secrets \subseteq {D!RedactedName}
        /\ Ans.edges # {} \/ Ans.reason = "response_bytes_limit" => Ans.nodes = whole.nodes
        /\ ~Ans.truncated => Ans.nodes = whole.nodes /\ Ans.edges = whole.edges
        /\ Ans.bytes <= r.args.budget \/ (Ans.nodes = {} /\ Ans.edges = {})
    BY <2>6, <2>8, Zenon DEF Fits
  <2> QED
    BY <2>9, Zenon DEF GraphFitsBudget, r, params, nodes, edges, secrets, whole
<1>2. GraphInv /\ [Next]_vars => GraphInv'
  BY GraphNext
<1> QED
  BY GraphInit, <1>1, <1>2, PTL DEF Spec

LinkKinds == {"internal", "restricted"}

\* The edges of a table that turn an import round, and those between files.
IsInbound(e, deps) ==
    \E key \in DOMAIN deps : \E dep \in deps[key].dependents : e = D!Edge(dep, key, "inbound")
IsLink(e, deps) ==
    \E key \in DOMAIN deps : \E kind \in LinkKinds : \E dep \in deps[key][kind] : e = D!Edge(key, dep, kind)

\* The edges of a table, told by their label.
LEMMA EdgesByLabel ==
    ASSUME NEW deps, NEW mode, NEW e
    PROVE  /\ e \in D!EdgesOf(deps, mode) /\ e.label = "inbound" <=> IsInbound(e, deps)
           /\ e \in D!EdgesOf(deps, mode) /\ e.label \in LinkKinds <=> IsLink(e, deps)
<1> DEFINE E == D!EdgesOf(deps, mode)
           NameOf(kind, dep) == IF kind = "external" /\ mode = "summary" THEN D!compact_external_namespace(dep) ELSE dep
           Kinds == {"internal", "restricted", "external", "unresolved"}
<1>1. e \in E <=> \/ IsInbound(e, deps)
                  \/ \E key \in DOMAIN deps : \E kind \in Kinds : \E dep \in deps[key][kind] :
                        e = D!Edge(key, NameOf(kind, dep), kind)
  <2>1. e \in E <=> \E key \in DOMAIN deps :
                \/ \E dep \in deps[key].dependents : e = D!Edge(dep, key, "inbound")
                \/ \E dep \in deps[key].internal : e = D!Edge(key, dep, "internal")
                \/ \E dep \in deps[key].restricted : e = D!Edge(key, dep, "restricted")
                \/ \E dep \in deps[key].external : e = D!Edge(key, NameOf("external", dep), "external")
                \/ \E dep \in deps[key].unresolved : e = D!Edge(key, dep, "unresolved")
    BY DEF D!EdgesOf
  <2>2. \A dep : \A kind \in Kinds \ {"external"} : NameOf(kind, dep) = dep
    OBVIOUS
  <2> HIDE DEF E, NameOf
  <2> QED
    BY <2>1, <2>2 DEF IsInbound
<1> HIDE DEF E
<1>2. \A s, t, l : D!Edge(s, t, l).label = l
  BY DEF D!Edge
<1>3. IsInbound(e, deps) => e.label = "inbound"
  BY <1>2, Zenon DEF IsInbound
<1>4. \A dep : \A kind \in LinkKinds : NameOf(kind, dep) = dep
  BY DEF LinkKinds
<1>5. IsLink(e, deps) => e \in E /\ e.label \in LinkKinds
  <2> SUFFICES ASSUME NEW key \in DOMAIN deps, NEW kind \in LinkKinds, NEW dep \in deps[key][kind],
                      e = D!Edge(key, dep, kind)
               PROVE  e \in E /\ e.label \in LinkKinds
    BY DEF IsLink
  <2>1. kind \in Kinds /\ NameOf(kind, dep) = dep /\ e.label = kind
    BY <1>2 DEF LinkKinds
  <2> HIDE DEF NameOf, Kinds
  <2> QED
    BY <1>1, <2>1
<1>6. e \in E /\ e.label # "inbound" => \E key \in DOMAIN deps : \E kind \in Kinds : \E dep \in deps[key][kind] :
                        e = D!Edge(key, NameOf(kind, dep), kind) /\ e.label = kind
  <2> HIDE DEF NameOf, Kinds
  <2>1. ASSUME NEW key, NEW kind, NEW dep, e = D!Edge(key, NameOf(kind, dep), kind)
        PROVE  e.label = kind
    BY <1>2, <2>1
  <2> QED
    BY <1>1, <1>3, <2>1, Zenon
<1>7. e \in E /\ e.label \in LinkKinds => IsLink(e, deps)
  <2> SUFFICES ASSUME e \in E, e.label \in LinkKinds
               PROVE  IsLink(e, deps)
    OBVIOUS
  <2>1. PICK key \in DOMAIN deps : \E kind \in Kinds : \E dep \in deps[key][kind] :
                        e = D!Edge(key, NameOf(kind, dep), kind) /\ e.label = kind
    BY <1>6 DEF LinkKinds
  <2>2. PICK kind \in Kinds : \E dep \in deps[key][kind] : e = D!Edge(key, NameOf(kind, dep), kind) /\ e.label = kind
    BY <2>1
  <2>3. PICK dep \in deps[key][kind] : e = D!Edge(key, NameOf(kind, dep), kind) /\ e.label = kind
    BY <2>2
  <2>4. NameOf(kind, dep) = dep
    BY <1>4, <2>3
  <2> HIDE DEF NameOf, Kinds
  <2> QED
    BY <2>3, <2>4, Zenon DEF IsLink
<1>8. e.label = "inbound" => ~IsLink(e, deps)
  BY <1>5 DEF LinkKinds
<1>9. e \in E /\ e.label = "inbound" => IsInbound(e, deps)
  <2> SUFFICES ASSUME e \in E, e.label = "inbound"
               PROVE  IsInbound(e, deps)
    OBVIOUS
  <2>1. \A key, dep : \A kind \in Kinds : e # D!Edge(key, dep, kind)
    BY <1>2
  <2> HIDE DEF NameOf, Kinds
  <2> QED
    BY <1>1, <2>1
<1> QED
  BY <1>1, <1>3, <1>5, <1>7, <1>9 DEF E

\* A table as it is built has no dependents.
IsTable(t) ==
    \A key \in DOMAIN t :
        /\ t[key].dependents = {}
        /\ {"internal", "restricted", "dependents"} \subseteq DOMAIN t[key]
        /\ t[key] = [field \in DOMAIN t[key] |-> t[key][field]]

LEMMA BuiltTable == ASSUME NEW p, NEW params PROVE IsTable(D!build_file_dependencies(p, params))
<1>1. ASSUME NEW files, NEW file
      PROVE  LET d == D!DepsOfFile(p, files, params, file) IN
             /\ d.dependents = {} /\ {"internal", "restricted", "dependents"} \subseteq DOMAIN d
             /\ d = [field \in DOMAIN d |-> d[field]]
  BY DEF D!DepsOfFile
<1> QED
  BY <1>1 DEF D!build_file_dependencies, IsTable

\* The edges from its files, turned round or not.
From(t, s, d) == s \in DOMAIN t /\ d \in t[s].internal \cup t[s].restricted

\* The edges of the table reversed, and merged with its reversal.
LEMMA Turned ==
    ASSUME NEW t, IsTable(t), NEW e
    PROVE  /\ ~IsInbound(e, t) /\ ~IsLink(e, D!reverse_dependencies(t))
           /\ IsInbound(e, D!reverse_dependencies(t)) <=> \E s, d : From(t, s, d) /\ e = D!Edge(s, d, "inbound")
           /\ IsInbound(e, D!merge_with_reverse_dependencies(t)) <=> \E s, d : From(t, s, d) /\ e = D!Edge(s, d, "inbound")
           /\ IsLink(e, D!merge_with_reverse_dependencies(t)) <=> IsLink(e, t)
<1> DEFINE r == D!reverse_dependencies(t)
           m == D!merge_with_reverse_dependencies(t)
           Sources(key) == {s \in DOMAIN t : key \in t[s].internal \cup t[s].restricted}
           Targets == UNION {t[s].internal \cup t[s].restricted : s \in DOMAIN t}
<1>1. /\ DOMAIN r = Targets
      /\ \A key \in Targets : r[key].dependents = Sources(key) /\ r[key].internal = {} /\ r[key].restricted = {}
  BY DEF D!reverse_dependencies, D!Within, D!NoDeps
<1>2. \A s, d : From(t, s, d) <=> d \in Targets /\ s \in Sources(d)
  BY DEF From
<1>3. /\ DOMAIN m = DOMAIN t \cup Targets
      /\ \A key \in DOMAIN t \cup Targets :
            /\ m[key].dependents = IF key \in Targets THEN Sources(key) ELSE {}
            /\ m[key].internal = IF key \in DOMAIN t THEN t[key].internal ELSE {}
            /\ m[key].restricted = IF key \in DOMAIN t THEN t[key].restricted ELSE {}
  <2> HIDE DEF r, Targets, Sources
  <2>1. m = [key \in DOMAIN t \cup DOMAIN r |->
              IF key \in DOMAIN r
              THEN [(IF key \in DOMAIN t THEN t[key] ELSE D!NoDeps) EXCEPT !.dependents = r[key].dependents] ELSE t[key]]
    BY DEF D!merge_with_reverse_dependencies, r
  <2> HIDE DEF m
  <2>2. ASSUME NEW d, {"internal", "restricted", "dependents"} \subseteq DOMAIN d, NEW ends
        PROVE  /\ [d EXCEPT !.dependents = ends].dependents = ends
               /\ [d EXCEPT !.dependents = ends].internal = d.internal
               /\ [d EXCEPT !.dependents = ends].restricted = d.restricted
    BY <2>2
  <2>3. /\ {"internal", "restricted", "dependents"} \subseteq DOMAIN D!NoDeps
        /\ D!NoDeps.internal = {} /\ D!NoDeps.restricted = {} /\ D!NoDeps.dependents = {}
    BY DEF D!NoDeps
  <2> QED
    BY <1>1, <2>1, <2>2, <2>3 DEF IsTable
<1> HIDE DEF r, m, Targets, Sources
<1>4. ~IsInbound(e, t)
  BY DEF IsInbound, IsTable
<1>5. ~IsLink(e, r)
  BY <1>1 DEF IsLink, LinkKinds
<1>6. IsInbound(e, r) <=> \E s, d : From(t, s, d) /\ e = D!Edge(s, d, "inbound")
  BY <1>1, <1>2 DEF IsInbound
<1>7. IsInbound(e, m) <=> \E s, d : From(t, s, d) /\ e = D!Edge(s, d, "inbound")
  BY <1>2, <1>3 DEF IsInbound
<1>8. IsLink(e, m) <=> IsLink(e, t)
  BY <1>3 DEF IsLink, LinkKinds
<1> QED
  BY <1>4, <1>5, <1>6, <1>7, <1>8 DEF r, m

\* The direction does not enter into the table that is built.
LEMMA SameTable ==
    ASSUME NEW p, NEW params, NEW other,
           other.scope = params.scope, other.maxNodes = params.maxNodes, other.maxEdges = params.maxEdges,
           other.external = params.external, other.unresolved = params.unresolved
    PROVE  D!build_file_dependencies(p, other) = D!build_file_dependencies(p, params)
<1>1. D!Scoped(p, other) = D!Scoped(p, params)
  BY DEF D!Scoped
<1>2. \A files, file : D!DepsOfFile(p, files, other, file) = D!DepsOfFile(p, files, params, file)
  BY DEF D!DepsOfFile
<1> QED
  BY <1>1, <1>2 DEF D!build_file_dependencies

LEMMA TurnedArgs ==
    ASSUME NEW r, GraphRequestOK(r), NEW params, params = D!from_args(r.args),
           NEW other, other = D!from_args([r.args EXCEPT !.direction = "outbound"])
    PROVE  /\ other.scope = params.scope /\ other.maxNodes = params.maxNodes /\ other.maxEdges = params.maxEdges
           /\ other.external = params.external /\ other.unresolved = params.unresolved
           /\ other.mode = params.mode /\ other.depth = params.depth /\ other.direction = "outbound"
  BY DEF GraphRequestOK, D!from_args

Shows(g, deps, mode, secrets) == g.edges = {CleanEdge(e, secrets) : e \in D!EdgesOf(deps, mode)}

\* An answer the budget leaves whole has every edge of its table.
LEMMA WholeGraph ==
    ASSUME NEW p, NEW args, NEW g \in D!get_dependencies_graph(p, args), ~g.truncated,
           NEW params, params = D!from_args(args), params.depth = <<>>
    PROVE  Shows(g, D!Directed(D!build_file_dependencies(p, params), params.direction), params.mode, p.secrets)
<1> DEFINE deps == D!Directed(D!build_file_dependencies(p, params), params.direction)
           nodes == D!NodesOf(deps, params.mode)
           edges == D!EdgesOf(deps, params.mode)
           kept == D!ensure_budget(nodes, edges, params.bytes, params.budget)
<1>1. D!Table(p, params) = deps
  BY DEF D!Table, D!apply_depth_limit, D!None
<1> HIDE DEF deps
<1>2. ShownOf(kept, p.secrets, g)
  BY <1>1, GraphOfTable
<1> HIDE DEF nodes, edges
<1>3. kept.truncated \/ kept.edges = edges
  <2>1. \/ kept.truncated
        \/ kept = [nodes |-> nodes, edges |-> edges, bytes |-> D!GraphBytes(nodes, edges, params.bytes),
                   truncated |-> FALSE, reason |-> "none"]
    BY DEF D!ensure_budget
  <2> HIDE DEF kept
  <2> QED
    BY <2>1
<1> HIDE DEF kept
<1>4. ~kept.truncated
  BY <1>2, Zenon DEF ShownOf
<1> QED
  BY <1>2, <1>3, <1>4 DEF ShownOf, Shows, edges, deps

LEMMA CleanEdgeParts ==
    ASSUME NEW e, NEW secrets
    PROVE  /\ CleanEdge(e, secrets).source = Clean(e.source, secrets)
           /\ CleanEdge(e, secrets).target = Clean(e.target, secrets)
           /\ CleanEdge(e, secrets).label = e.label
  BY DEF CleanEdge, D!Edge

\* The ends of an answer's edges that stand for the imports of t.
AreEnds(ends, t, secrets) ==
    \A x : x \in ends <=> \E s, d : From(t, s, d) /\ x = <<Clean(s, secrets), Clean(d, secrets)>>

LEMMA EndsOfInbound ==
    ASSUME NEW t, NEW deps, NEW mode, NEW secrets, NEW edges,
           edges = {CleanEdge(e, secrets) : e \in D!EdgesOf(deps, mode)},
           \A e : IsInbound(e, deps) <=> \E s, d : From(t, s, d) /\ e = D!Edge(s, d, "inbound")
    PROVE  AreEnds(Ends({e \in edges : e.label = "inbound"}), t, secrets)
<1> DEFINE inbound == {e \in edges : e.label = "inbound"}
           pair(s, d) == <<Clean(s, secrets), Clean(d, secrets)>>
           PairOf(e) == <<e.source, e.target>>
           shown(s, d) == CleanEdge(D!Edge(s, d, "inbound"), secrets)
<1>1. \A e : e \in inbound <=> \E f : IsInbound(f, deps) /\ e = CleanEdge(f, secrets)
  BY EdgesByLabel, CleanEdgeParts
<1>2. \A s, d : PairOf(shown(s, d)) = pair(s, d)
  BY DEF CleanEdge, D!Edge
<1>3. \A e : e \in inbound <=> \E s, d : From(t, s, d) /\ e = shown(s, d)
  BY <1>1
<1>4. \A x : x \in Ends(inbound) <=> \E e \in inbound : x = PairOf(e)
  BY DEF Ends
<1> HIDE DEF inbound, pair, PairOf, shown
<1>5. \A x : x \in Ends(inbound) <=> \E s, d : From(t, s, d) /\ x = pair(s, d)
  BY <1>2, <1>3, <1>4
<1> QED
  BY <1>5, Zenon DEF AreEnds, inbound, pair

\* The edges between files an answer shows.
LEMMA FileEdgesOf ==
    ASSUME NEW deps, NEW mode, NEW secrets, NEW g,
           g.edges = {CleanEdge(e, secrets) : e \in D!EdgesOf(deps, mode)}
    PROVE  \A e : e \in FileEdges(g) <=> \E f : IsLink(f, deps) /\ e = CleanEdge(f, secrets)
  BY EdgesByLabel, CleanEdgeParts DEF FileEdges, LinkKinds

LEMMA EndsOfLinks ==
    ASSUME NEW t, NEW mode, NEW secrets, NEW g,
           g.edges = {CleanEdge(e, secrets) : e \in D!EdgesOf(t, mode)}
    PROVE  AreEnds(Ends(FileEdges(g)), t, secrets)
<1> DEFINE links == FileEdges(g)
           pair(s, d) == <<Clean(s, secrets), Clean(d, secrets)>>
           PairOf(e) == <<e.source, e.target>>
           shown(s, d, l) == CleanEdge(D!Edge(s, d, l), secrets)
<1>1. \A e : e \in links <=> \E f : IsLink(f, t) /\ e = CleanEdge(f, secrets)
  BY FileEdgesOf
<1>2. \A s, d, l : PairOf(shown(s, d, l)) = pair(s, d)
  BY DEF CleanEdge, D!Edge
<1>3. \A e : e \in links <=> \E s, d : \E l \in LinkKinds : s \in DOMAIN t /\ d \in t[s][l] /\ e = shown(s, d, l)
  BY <1>1 DEF IsLink
<1>4. \A x : x \in Ends(links) <=> \E e \in links : x = PairOf(e)
  BY DEF Ends
<1>5. \A s, d : From(t, s, d) <=> \E l \in LinkKinds : s \in DOMAIN t /\ d \in t[s][l]
  BY DEF From, LinkKinds
<1> HIDE DEF links, pair, PairOf, shown
<1>6. \A x : x \in Ends(links) <=> \E s, d : From(t, s, d) /\ x = pair(s, d)
  BY <1>2, <1>3, <1>4, <1>5
<1> QED
  BY <1>6, Zenon DEF AreEnds, links, pair

\* Two sets of edges that stand for the same imports have the same ends.
LEMMA SameEnds ==
    ASSUME NEW t, NEW secrets, NEW A1, AreEnds(Ends(A1), t, secrets), NEW A2, AreEnds(Ends(A2), t, secrets)
    PROVE  Ends(A1) = Ends(A2)
<1>1. \A x : x \in Ends(A1) <=> x \in Ends(A2)
  BY Zenon DEF AreEnds
<1> QED
  BY <1>1

\* Inbound is outbound turned round (reverse_dependencies, deps_graph/builder.rs): for
\* every project, request and scope, the dependents of a file are those whose outbound
\* edges end at it, be it restricted or not, and asked for both directions the graph has
\* either kind of edge, unless a depth or the budget cuts a graph short.
THEOREM InboundTurned == Spec => []InboundIsTranspose
<1>1. GraphInv => InboundIsTranspose
  <2> DEFINE r == Req
             outArgs == [r.args EXCEPT !.direction = "outbound"]
  <2> SUFFICES ASSUME GraphInv, Answered("get_dependencies_graph"), r.args.depth = <<>>, ~Ans.truncated,
                      NEW out \in D!get_dependencies_graph(r.project, outArgs), ~out.truncated
               PROVE  /\ r.args.direction \in {"inbound", "both"} =>
                            Ends({e \in Ans.edges : e.label = "inbound"}) = Ends(FileEdges(out))
                      /\ r.args.direction \in {"outbound", "both"} => FileEdges(Ans) = FileEdges(out)
    BY Zenon DEF InboundIsTranspose
  <2> DEFINE params == D!from_args(r.args)
             other == D!from_args(outArgs)
             t == D!build_file_dependencies(r.project, params)
             deps == D!Directed(t, params.direction)
             secrets == r.project.secrets
             inbound == {e \in Ans.edges : e.label = "inbound"}
  <2>1. GraphRequestOK(r) /\ Ans \in D!get_dependencies_graph(r.project, r.args)
    BY GraphsAssumption DEF GraphInv, Answered, GraphRequest
  <2> HIDE DEF r
  <2>2. params.depth = <<>> /\ params.direction = r.args.direction
    BY <2>1, ParamsOf
  <2>3. /\ D!build_file_dependencies(r.project, other) = t
        /\ other.mode = params.mode /\ other.depth = <<>> /\ other.direction = "outbound"
    BY <2>1, <2>2, TurnedArgs, SameTable
  <2> HIDE DEF params, other, outArgs
  <2>4. Ans.edges = {CleanEdge(e, secrets) : e \in D!EdgesOf(deps, params.mode)}
    <3>1. Shows(Ans, deps, params.mode, secrets)
      BY <2>1, <2>2, WholeGraph DEF params
    <3> QED
      BY <3>1 DEF Shows
  <2>5. D!Directed(t, "outbound") = t
    BY DEF D!Directed
  <2>6. out.edges = {CleanEdge(e, secrets) : e \in D!EdgesOf(t, params.mode)}
    <3>1. Shows(out, t, params.mode, secrets)
      BY <2>3, <2>5, WholeGraph DEF other
    <3> QED
      BY <3>1 DEF Shows
  <2>7. IsTable(t)
    BY BuiltTable
  <2> HIDE DEF t, secrets, inbound
  <2>8. AreEnds(Ends(FileEdges(out)), t, secrets)
    BY <2>6, EndsOfLinks
  <2>9. ASSUME params.direction \in {"inbound", "both"} PROVE Ends(inbound) = Ends(FileEdges(out))
    <3>1. \A e : IsInbound(e, deps) <=> \E s, d : From(t, s, d) /\ e = D!Edge(s, d, "inbound")
      BY <2>7, <2>9, Turned DEF D!Directed
    <3> HIDE DEF deps
    <3>2. AreEnds(Ends(inbound), t, secrets)
      BY <2>4, <3>1, EndsOfInbound DEF inbound
    <3> QED
      BY <2>8, <3>2, SameEnds
  <2>10. ASSUME params.direction \in {"outbound", "both"} PROVE FileEdges(Ans) = FileEdges(out)
    <3>1. \A e : IsLink(e, deps) <=> IsLink(e, t)
      BY <2>7, <2>10, Turned DEF D!Directed
    <3> HIDE DEF deps
    <3>2. \A e : e \in FileEdges(Ans) <=> \E f : IsLink(f, deps) /\ e = CleanEdge(f, secrets)
      BY <2>4, FileEdgesOf
    <3>3. \A e : e \in FileEdges(out) <=> \E f : IsLink(f, t) /\ e = CleanEdge(f, secrets)
      BY <2>6, FileEdgesOf
    <3>4. \A e : e \in FileEdges(Ans) <=> e \in FileEdges(out)
      BY <3>1, <3>2, <3>3, Zenon
    <3> QED
      BY <3>4
  <2> QED
    BY <2>2, <2>9, <2>10 DEF inbound
<1>2. GraphInv /\ [Next]_vars => GraphInv'
  BY GraphNext
<1> QED
  BY GraphInit, <1>1, <1>2, PTL DEF Spec

(***************************************************************************)
(* Paths of imports.                                                       *)
(***************************************************************************)
\* One part of a sequence ends where the next one goes on.
LEMMA PartGrows ==
    ASSUME NEW S, NEW seq \in Seq(S), NEW a \in Nat \ {0}, NEW n \in Nat, a <= n, n <= Len(seq)
    PROVE  SubSeq(seq, a, n) = Append(SubSeq(seq, a, n - 1), seq[n])
<1> DEFINE s == SubSeq(seq, a, n)
           t == SubSeq(seq, a, n - 1)
<1>1. s = [i \in 1 .. n - a + 1 |-> seq[a + i - 1]] /\ s \in Seq(S) /\ Len(s) = n - a + 1
  OBVIOUS
<1>2. t = [i \in 1 .. n - 1 - a + 1 |-> seq[a + i - 1]] /\ t \in Seq(S) /\ Len(t) = n - 1 - a + 1
  OBVIOUS
<1>3. seq[n] \in S
  OBVIOUS
<1> HIDE DEF s, t
<1>4. Append(t, seq[n]) \in Seq(S) /\ Len(Append(t, seq[n])) = n - a + 1
  BY <1>2, <1>3
<1>5. ASSUME NEW i \in 1 .. n - a + 1 PROVE s[i] = Append(t, seq[n])[i]
  BY <1>1, <1>2, <1>3
<1> QED
  BY <1>1, <1>4, <1>5 DEF s, t

LEMMA FrontOfPart ==
    ASSUME NEW S, NEW seq \in Seq(S), NEW m \in 1 .. Len(seq)
    PROVE  D!Front(SubSeq(seq, 1, m)) = SubSeq(seq, 1, m - 1) /\ Len(SubSeq(seq, 1, m)) = m
<1> DEFINE s == SubSeq(seq, 1, m)
<1>1. s = [i \in 1 .. m |-> seq[i]] /\ s \in Seq(S) /\ Len(s) = m
  OBVIOUS
<1>2. SubSeq(seq, 1, m - 1) = [i \in 1 .. m - 1 |-> seq[i]]
  OBVIOUS
<1> HIDE DEF s
<1>3. SubSeq(s, 1, m - 1) = [i \in 1 .. m - 1 |-> s[i]]
  BY <1>1
<1>4. [i \in 1 .. m - 1 |-> s[i]] = [i \in 1 .. m - 1 |-> seq[i]]
  BY <1>1
<1>5. D!Front(s) = SubSeq(s, 1, m - 1)
  BY <1>1 DEF D!Front
<1> QED
  BY <1>1, <1>2, <1>3, <1>4, <1>5 DEF s

IsJoined(c, a, b, S) ==
    /\ c \in Seq(S) /\ Len(c) = Len(a) + Len(b)
    /\ \A i \in 1 .. Len(a) : c[i] = a[i]
    /\ \A i \in 1 .. Len(b) : c[Len(a) + i] = b[i]
LEMMA JoinParts ==
    ASSUME NEW S, NEW a \in Seq(S), NEW b \in Seq(S)
    PROVE  IsJoined(a \o b, a, b, S)
  BY DEF IsJoined

LEMMA JoinAppends ==
    ASSUME NEW S, NEW a \in Seq(S), NEW b \in Seq(S), NEW e \in S
    PROVE  a \o Append(b, e) = Append(a \o b, e)
  OBVIOUS

LEMMA JoinNothing ==
    ASSUME NEW S, NEW a \in Seq(S)
    PROVE  a \o <<>> = a
  OBVIOUS

LEMMA WalkType ==
    ASSUME NEW S, NEW dir \in Seq(S), NEW name \in S
    PROVE  D!Walk(dir, name) \in Seq(S)
<1>1. CASE name # D!ParentDir
  BY <1>1 DEF D!Walk
<1>2. CASE name = D!ParentDir /\ dir = <<>>
  BY <1>2, Zenon DEF D!Walk
<1>3. CASE name = D!ParentDir /\ dir # <<>>
  <2>1. D!Walk(dir, name) = SubSeq(dir, 1, Len(dir) - 1)
    BY <1>3, Zenon DEF D!Walk, D!Front
  <2>2. Len(dir) \in Nat /\ Len(dir) - 1 <= Len(dir)
    OBVIOUS
  <2>3. SubSeq(dir, 1, Len(dir) - 1) \in Seq(S)
    BY <2>2
  <2> QED
    BY <2>1, <2>3, Zenon
<1> QED
  BY <1>1, <1>2, <1>3, Zenon

\* The directories on the way.
Walks(w, path, S) ==
    /\ \A n \in 0 .. Len(path) : w[n] \in Seq(S)
    /\ w[0] = <<>>
    /\ \A n \in 1 .. Len(path) : w[n] = D!Walk(w[n - 1], path[n])
IsWay(way, path, S) == \E w : Walks(w, path, S) /\ way = w[Len(path)]

LEMMA Normalised ==
    ASSUME NEW S, NEW path \in Seq(S)
    PROVE  IsWay(D!normalise_path(path), path, S)
<1> DEFINE N == Len(path)
           step == [n \in 1 .. N |-> [dir \in Seq(S) |-> D!Walk(dir, path[n])]]
           Body(g) == [n \in 0 .. N |-> IF n = 0 THEN <<>> ELSE D!Walk(g[n - 1], path[n])]
           w == CHOOSE g : g = Body(g)
<1>1. N \in Nat /\ \A n \in 1 .. N : path[n] \in S
  OBVIOUS
<1>2. D!normalise_path(path) = w[Len(path)]
  BY Zenon DEF D!normalise_path
<1>3. step \in [1 .. N -> [Seq(S) -> Seq(S)]]
  BY <1>1, WalkType
<1>4. <<>> \in Seq(S)
  OBVIOUS
<1> HIDE DEF N, step, Body, w
<1>5. PICK f : Follows(f, N, Seq(S), <<>>, step)
  BY <1>1, <1>3, <1>4, RecursionExists
<1>6. ASSUME NEW n \in 1 .. N PROVE f[n] = D!Walk(f[n - 1], path[n])
  <2>1. n - 1 \in 0 .. N
    BY <1>1
  <2>2. f[n - 1] \in Seq(S) /\ f[n] = step[n][f[n - 1]]
    BY <1>5, <2>1 DEF Follows
  <2> QED
    BY <2>2 DEF step
<1>7. f = Body(f)
  <2>1. \A n \in 0 .. N : n = 0 \/ n \in 1 .. N
    BY <1>1
  <2>2. \A n \in 0 .. N : f[n] = IF n = 0 THEN <<>> ELSE D!Walk(f[n - 1], path[n])
    BY <1>5, <1>6, <2>1, Zenon DEF Follows
  <2> QED
    BY <1>5, <2>2, Zenon DEF Follows, Body
<1>8. w = Body(w)
  BY <1>7, Zenon DEF w
<1>9. w[0] = <<>> /\ \A n \in 1 .. N : w[n] = D!Walk(w[n - 1], path[n])
  <2>1. 0 \in 0 .. N /\ \A n \in 1 .. N : n \in 0 .. N /\ n # 0
    BY <1>1
  <2>2. Body(w)[0] = <<>> /\ \A n \in 1 .. N : Body(w)[n] = D!Walk(w[n - 1], path[n])
    BY <2>1, Zenon DEF Body
  <2> QED
    BY <1>8, <2>2, Zenon
<1>10. \A n \in 0 .. N : w[n] \in Seq(S)
  <2> DEFINE Right == {n \in 0 .. N : w[n] \in Seq(S)}
  <2>1. 0 \in Right
    <3>1. 0 \in 0 .. N
      BY <1>1
    <3>2. w[0] \in Seq(S)
      BY <1>4, <1>9, Zenon
    <3> QED
      BY <3>1, <3>2
  <2>2. ASSUME NEW n \in 1 .. N, n - 1 \in Right PROVE n \in Right
    <3>1. w[n - 1] \in Seq(S) /\ n \in 0 .. N
      BY <1>1, <2>2
    <3> QED
      BY <1>1, <1>9, <3>1, WalkType
  <2> HIDE DEF Right
  <2>3. 0 .. N \subseteq Right
    BY <1>1, <2>1, <2>2, Stepwise
  <2> QED
    BY <2>3 DEF Right
<1>11. Walks(w, path, S)
  BY <1>9, <1>10, Zenon DEF Walks, N
<1> QED
  BY <1>2, <1>11, Zenon DEF IsWay

\* A path that does not end above ends in its last name.
LEMMA NameIsKept ==
    ASSUME NEW S, NEW path \in Seq(S), path # <<>>, path[Len(path)] # D!ParentDir,
           NEW way, way = D!normalise_path(path)
    PROVE  way \in Seq(S) /\ Len(way) > 0 /\ way[Len(way)] = path[Len(path)]
<1> DEFINE N == Len(path)
<1>1. N \in Nat /\ N \in 1 .. N /\ N - 1 \in 0 .. N /\ path[N] \in S
  OBVIOUS
<1>2. PICK w : Walks(w, path, S) /\ way = w[N]
  BY Normalised, Zenon DEF IsWay
<1>3. w[N - 1] \in Seq(S) /\ w[N] = D!Walk(w[N - 1], path[N])
  BY <1>1, <1>2, Zenon DEF Walks
<1>4. w[N] = Append(w[N - 1], path[N])
  BY <1>3, Zenon DEF D!Walk
<1> HIDE DEF N
<1>5. way = Append(w[N - 1], path[N])
  BY <1>2, <1>4, Zenon
<1>6. Len(way) = Len(w[N - 1]) + 1 /\ way \in Seq(S) /\ way[Len(w[N - 1]) + 1] = path[N]
  BY <1>1, <1>3, <1>5
<1> QED
  BY <1>3, <1>6 DEF N

\* From a directory, the names above it first.
Climbs(names, ups) ==
    /\ \A i \in 1 .. ups : names[i] = D!ParentDir
    /\ \A i \in ups + 1 .. Len(names) : names[i] # D!ParentDir

LEMMA ClimbsFirst ==
    ASSUME NEW S, NEW dir \in Seq(S), \A i \in DOMAIN dir : dir[i] # D!ParentDir,
           NEW names \in Seq(S), NEW ups \in 0 .. Len(names), Climbs(names, ups)
    PROVE  D!normalise_path(dir \o names)
              = SubSeq(dir, 1, Len(dir) - ups) \o SubSeq(names, ups + 1, Len(names))
<1> DEFINE path == dir \o names
           J == Len(dir)
           K == Len(names)
           above == SubSeq(dir, 1, J - ups)
<1>1. /\ J \in Nat /\ K \in Nat /\ ups \in Nat /\ ups <= K
      /\ path \in Seq(S) /\ Len(path) = J + K
      /\ \A i \in 1 .. J : path[i] = dir[i] /\ path[i] \in S
      /\ \A i \in 1 .. K : path[J + i] = names[i] /\ names[i] \in S
  OBVIOUS
<1>2. above \in Seq(S)
  OBVIOUS
<1> HIDE DEF path
<1>3. PICK w : Walks(w, path, S) /\ D!normalise_path(path) = w[J + K]
  BY <1>1, Normalised, Zenon DEF IsWay
<1>4. /\ \A n \in 0 .. J + K : w[n] \in Seq(S)
      /\ w[0] = <<>>
      /\ \A n \in 1 .. J + K : w[n] = D!Walk(w[n - 1], path[n])
  BY <1>1, <1>3, Zenon DEF Walks
<1>5. ASSUME NEW n \in 0 .. J PROVE w[n] = SubSeq(dir, 1, n)
  <2> DEFINE Right == {m \in 0 .. J : w[m] = SubSeq(dir, 1, m)}
  <2>1. 0 \in Right
    <3>1. SubSeq(dir, 1, 0) = <<>>
      OBVIOUS
    <3>2. w[0] = SubSeq(dir, 1, 0)
      BY <1>4, <3>1, Zenon
    <3>3. 0 \in 0 .. J
      BY <1>1
    <3> QED
      BY <3>2, <3>3
  <2>2. ASSUME NEW m \in 1 .. J, m - 1 \in Right PROVE m \in Right
    <3>1. m \in 1 .. J + K /\ m \in 0 .. J /\ m \in DOMAIN dir /\ w[m - 1] = SubSeq(dir, 1, m - 1)
      BY <1>1, <2>2
    <3>2. w[m] = D!Walk(w[m - 1], path[m]) /\ path[m] = dir[m] /\ dir[m] # D!ParentDir
      BY <1>1, <1>4, <3>1, Zenon
    <3>3. w[m] = Append(SubSeq(dir, 1, m - 1), dir[m])
      BY <3>1, <3>2, Zenon DEF D!Walk
    <3>4. SubSeq(dir, 1, m) = Append(SubSeq(dir, 1, m - 1), dir[m])
      BY <1>1, PartGrows
    <3>5. w[m] = SubSeq(dir, 1, m)
      BY <3>3, <3>4, Zenon
    <3> QED
      BY <3>1, <3>5
  <2> HIDE DEF Right
  <2>3. 0 .. J \subseteq Right
    BY <1>1, <2>1, <2>2, Stepwise
  <2> QED
    BY <2>3 DEF Right
<1>6. ASSUME NEW k \in 0 .. ups PROVE w[J + k] = SubSeq(dir, 1, J - k)
  <2> DEFINE Right == {m \in 0 .. ups : w[J + m] = SubSeq(dir, 1, J - m)}
  <2>1. 0 \in Right
    <3>1. J \in 0 .. J /\ J + 0 = J /\ J - 0 = J /\ 0 \in 0 .. ups
      BY <1>1
    <3>2. w[J + 0] = SubSeq(dir, 1, J - 0)
      BY <1>5, <3>1, Zenon
    <3> QED
      BY <3>1, <3>2
  <2>2. ASSUME NEW m \in 1 .. ups, m - 1 \in Right PROVE m \in Right
    <3>1. /\ J + m \in 1 .. J + K /\ m \in 0 .. ups /\ m \in 1 .. K /\ (J + m) - 1 = J + (m - 1)
          /\ w[J + (m - 1)] = SubSeq(dir, 1, J - (m - 1))
      BY <1>1, <2>2
    <3>2. w[J + m] = D!Walk(w[(J + m) - 1], path[J + m]) /\ path[J + m] = D!ParentDir
      <4>1. names[m] = D!ParentDir
        BY Zenon DEF Climbs
      <4> QED
        BY <1>1, <1>4, <3>1, <4>1, Zenon
    <3> DEFINE before == SubSeq(dir, 1, J - (m - 1))
    <3>3. w[J + m] = IF before = <<>> THEN before ELSE D!Front(before)
      BY <3>1, <3>2, Zenon DEF D!Walk
    <3>4. CASE J - (m - 1) >= 1
      <4>1. J - (m - 1) \in 1 .. Len(dir) /\ J - (m - 1) - 1 = J - m
        BY <1>1, <3>4
      <4>2. D!Front(before) = SubSeq(dir, 1, J - m) /\ Len(before) = J - (m - 1)
        BY <4>1, FrontOfPart
      <4>3. Len(<<>>) = 0
        OBVIOUS
      <4>4. Len(before) # 0
        BY <3>4, <4>2
      <4>5. before # <<>>
        BY <4>3, <4>4, Zenon
      <4>6. w[J + m] = SubSeq(dir, 1, J - m)
        BY <3>3, <4>2, <4>5, Zenon
      <4> QED
        BY <3>1, <4>6
    <3>5. CASE J - (m - 1) < 1
      <4>1. before = <<>> /\ SubSeq(dir, 1, J - m) = <<>>
        BY <1>1, <3>5
      <4>2. w[J + m] = SubSeq(dir, 1, J - m)
        BY <3>3, <4>1, Zenon
      <4> QED
        BY <3>1, <4>2
    <3> QED
      BY <1>1, <3>4, <3>5
  <2> HIDE DEF Right
  <2>3. 0 .. ups \subseteq Right
    BY <1>1, <2>1, <2>2, Stepwise
  <2> QED
    BY <2>3 DEF Right
<1> HIDE DEF above
<1>7. ASSUME NEW k \in 0 .. K - ups PROVE w[J + ups + k] = above \o SubSeq(names, ups + 1, ups + k)
  <2> DEFINE Right == {m \in 0 .. K - ups : w[J + ups + m] = above \o SubSeq(names, ups + 1, ups + m)}
  <2>1. 0 \in Right
    <3>1. ups \in 0 .. ups /\ J + ups + 0 = J + ups /\ 0 \in 0 .. K - ups
      BY <1>1
    <3>2. SubSeq(names, ups + 1, ups + 0) = <<>>
      BY <1>1
    <3>3. w[J + ups] = above
      BY <1>6, <3>1, Zenon DEF above
    <3>4. above \o <<>> = above
      BY <1>2, JoinNothing
    <3>5. w[J + ups + 0] = above \o SubSeq(names, ups + 1, ups + 0)
      BY <3>1, <3>2, <3>3, <3>4, Zenon
    <3> QED
      BY <3>1, <3>5
  <2>2. ASSUME NEW m \in 1 .. K - ups, m - 1 \in Right PROVE m \in Right
    <3> DEFINE before == SubSeq(names, ups + 1, ups + (m - 1))
    <3>1. /\ J + ups + m \in 1 .. J + K /\ m \in 0 .. K - ups /\ ups + m \in 1 .. K /\ ups + m \in ups + 1 .. K
          /\ J + ups + m = J + (ups + m) /\ (J + ups + m) - 1 = J + ups + (m - 1)
      BY <1>1
    <3>2. w[J + ups + (m - 1)] = above \o before
      BY <2>2
    <3>3. /\ w[J + ups + m] = D!Walk(w[(J + ups + m) - 1], path[J + ups + m])
          /\ path[J + ups + m] = names[ups + m] /\ names[ups + m] # D!ParentDir /\ names[ups + m] \in S
      BY <1>1, <1>4, <3>1, Zenon DEF Climbs
    <3>4. w[J + ups + m] = Append(above \o before, names[ups + m])
      BY <3>1, <3>2, <3>3, Zenon DEF D!Walk
    <3>5. SubSeq(names, ups + 1, ups + m) = Append(before, names[ups + m])
      <4>1. ups + 1 \in Nat \ {0} /\ ups + m \in Nat /\ ups + 1 <= ups + m /\ ups + m <= Len(names)
            /\ (ups + m) - 1 = ups + (m - 1)
        BY <1>1
      <4>2. SubSeq(names, ups + 1, ups + m) = Append(SubSeq(names, ups + 1, (ups + m) - 1), names[ups + m])
        BY <4>1, PartGrows
      <4> QED
        BY <4>1, <4>2, Zenon
    <3>6. before \in Seq(S)
      BY <1>1
    <3> HIDE DEF before
    <3>7. above \o Append(before, names[ups + m]) = Append(above \o before, names[ups + m])
      <4> DEFINE e == names[ups + m]
      <4>1. e \in S
        BY <3>3, Zenon
      <4> HIDE DEF e
      <4>2. above \o Append(before, e) = Append(above \o before, e)
        BY <1>2, <3>6, <4>1, JoinAppends
      <4> QED
        BY <4>2, Zenon DEF e
    <3>8. w[J + ups + m] = above \o SubSeq(names, ups + 1, ups + m)
      BY <3>4, <3>5, <3>7, Zenon
    <3> QED
      BY <3>1, <3>8
  <2> HIDE DEF Right
  <2>3. K - ups \in Nat
    BY <1>1
  <2>4. 0 .. K - ups \subseteq Right
    BY <2>1, <2>2, <2>3, Stepwise
  <2> QED
    BY <2>4 DEF Right
<1>8. K - ups \in 0 .. K - ups /\ J + ups + (K - ups) = J + K /\ ups + (K - ups) = K
  BY <1>1
<1> QED
  BY <1>3, <1>7, <1>8, Zenon DEF above, path

\* The pieces of a name, with those that resolution adds.
Extensions == {"rs", "ts", "tsx", "js", "py", "java"}
Pieces == STRING \cup Extensions
LongNames == Seq(Pieces) \ {<<>>}

LEMMA PathsAreLong ==
    ASSUME NEW path \in Seq(PathNames)
    PROVE  path \in Seq(LongNames)
<1>1. STRING \subseteq Pieces
  BY DEF Pieces
<1>2. \A name \in Seq(STRING) : name \in Seq(Pieces)
  BY <1>1, SeqGrows
<1>3. PathNames \subseteq LongNames
  BY <1>2 DEF PathNames, LongNames
<1> QED
  BY <1>3, SeqGrows

\* The path of a file, where no name leads above.
IsFilePath(path) == path \in Seq(LongNames) /\ Len(path) > 0 /\ \A i \in DOMAIN path : path[i] # D!ParentDir

\* The path that an import names is the one it is resolved to.
LEMMA NamedIsResolved ==
    ASSUME NEW from, IsFilePath(from), NEW imp, imp.names \in Seq(LongNames), IsFilePath(Named(from, imp))
    PROVE  D!normalise_path(D!Parent(from) \o imp.names) = Named(from, imp)
<1> DEFINE names == imp.names
           K == Len(names)
           Ups == {i \in DOMAIN names : names[i] = D!ParentDir}
           ups == Cardinality(Ups)
           J == Len(from)
           dir == SubSeq(from, 1, J - 1)
           rest == SubSeq(names, ups + 1, K)
           above == SubSeq(from, 1, J - 1 - ups)
<1>1. /\ J \in Nat /\ J > 0 /\ K \in Nat /\ DOMAIN names = 1 .. K /\ names \in Seq(LongNames)
      /\ from \in Seq(LongNames) /\ \A i \in 1 .. J : from[i] # D!ParentDir
  BY DEF IsFilePath
<1>2. Named(from, imp) = above \o rest
  BY Zenon DEF Named
<1>3. D!Parent(from) = dir
  BY Zenon DEF D!Parent, D!Front
<1> HIDE DEF names
<1>4. Ups \subseteq 1 .. K /\ IsFiniteSet(1 .. K) /\ Cardinality(1 .. K) = K
  <2>1. IsFiniteSet(1 .. K) /\ Cardinality(1 .. K) = K
    BY <1>1, Intervals
  <2> QED
    BY <1>1, <2>1
<1> HIDE DEF Ups
<1>5. IsFiniteSet(Ups) /\ ups \in Nat /\ ups <= K
  <2>1. IsFiniteSet(Ups) /\ Cardinality(Ups) <= Cardinality(1 .. K)
    BY <1>4, FS_Subset
  <2>2. Cardinality(Ups) \in Nat
    BY <2>1, FS_CardinalityType
  <2> QED
    BY <1>4, <2>1, <2>2
<1> HIDE DEF ups
<1>6. /\ dir \in Seq(LongNames) /\ Len(dir) = J - 1 /\ \A i \in 1 .. J - 1 : dir[i] = from[i]
      /\ SubSeq(dir, 1, J - 1 - ups) = above
  <2>1. dir = [i \in 1 .. J - 1 |-> from[i]] /\ dir \in Seq(LongNames) /\ Len(dir) = J - 1
    <3>1. /\ 1 \in Nat \ {0} /\ J - 1 \in Nat /\ 1 <= (J - 1) + 1 /\ J - 1 <= Len(from) /\ (J - 1) - 1 + 1 = J - 1
      BY <1>1
    <3>2. dir \in Seq(LongNames) /\ Len(dir) = (J - 1) - 1 + 1
      BY <1>1, <3>1, SubSeqParts
    <3>3. dir = [i \in 1 .. J - 1 |-> from[i]]
      BY <1>1
    <3> QED
      BY <3>1, <3>2, <3>3, Zenon
  <2>2. above = [i \in 1 .. J - 1 - ups |-> from[i]]
    BY <1>1, <1>5
  <2> HIDE DEF dir
  <2>3. SubSeq(dir, 1, J - 1 - ups) = [i \in 1 .. J - 1 - ups |-> dir[i]]
    BY <1>1, <1>5, <2>1
  <2>4. [i \in 1 .. J - 1 - ups |-> dir[i]] = [i \in 1 .. J - 1 - ups |-> from[i]]
    BY <1>1, <1>5, <2>1
  <2> QED
    BY <2>1, <2>2, <2>3, <2>4
<1>7. ASSUME NEW i \in ups + 1 .. K PROVE names[i] # D!ParentDir
  <2>1. above \in Seq(LongNames) /\ rest \in Seq(LongNames) /\ Len(rest) = K - ups /\ rest[i - ups] = names[i]
    <3>1. above \in Seq(LongNames)
      <4>1. J - 1 - ups \in Int /\ J - 1 - ups <= J
        BY <1>1, <1>5
      <4> HIDE DEF J
      <4> QED
        BY <1>1, <4>1 DEF J
    <3>2. /\ ups + 1 \in Nat \ {0} /\ ups + 1 <= K + 1 /\ K <= Len(names) /\ K - (ups + 1) + 1 = K - ups
          /\ i - ups \in 1 .. K - (ups + 1) + 1 /\ (ups + 1) + (i - ups) - 1 = i
      BY <1>1, <1>5
    <3>3. /\ rest \in Seq(LongNames) /\ Len(rest) = K - (ups + 1) + 1
          /\ \A j \in 1 .. K - (ups + 1) + 1 : rest[j] = names[(ups + 1) + j - 1]
      BY <1>1, <3>2, SubSeqParts
    <3> QED
      BY <3>1, <3>2, <3>3, Zenon
  <2> HIDE DEF above, rest
  <2>2. /\ Len(above) \in Nat /\ i - ups \in 1 .. Len(rest)
        /\ Len(above) + (i - ups) \in DOMAIN (above \o rest)
        /\ (above \o rest)[Len(above) + (i - ups)] = rest[i - ups]
    BY <1>1, <1>5, <2>1
  <2>3. \A j \in DOMAIN (above \o rest) : (above \o rest)[j] # D!ParentDir
    BY <1>2, Zenon DEF IsFilePath
  <2> QED
    BY <2>1, <2>2, <2>3, Zenon
<1>8. Ups = 1 .. ups
  <2>1. Ups \in SUBSET (1 .. ups)
    <3>1. \A i \in Ups : i \in 1 .. K /\ names[i] = D!ParentDir
      BY <1>1 DEF Ups
    <3>2. \A i \in Ups : i \notin ups + 1 .. K
      BY <1>7, <3>1, Zenon
    <3> QED
      BY <1>1, <1>5, <3>1, <3>2
  <2>2. IsFiniteSet(1 .. ups) /\ Cardinality(1 .. ups) = ups
    BY <1>5, Intervals
  <2>3. Cardinality(Ups) = Cardinality(1 .. ups) => Ups = 1 .. ups
    BY <2>1, <2>2, FS_Subset, Zenon
  <2> QED
    BY <2>2, <2>3, Zenon DEF ups
<1>9. Climbs(names, ups)
  <2>1. \A i \in 1 .. ups : names[i] = D!ParentDir
    BY <1>8 DEF Ups
  <2> QED
    BY <1>7, <2>1, Zenon DEF Climbs, K
<1>10. \A i \in DOMAIN dir : dir[i] # D!ParentDir
  BY <1>1, <1>6
<1> HIDE DEF dir, above, rest
<1>11. D!normalise_path(dir \o names) = SubSeq(dir, 1, Len(dir) - ups) \o rest
  <2>1. ups \in 0 .. Len(names)
    BY <1>5
  <2> QED
    BY <1>1, <1>6, <1>9, <1>10, <2>1, ClimbsFirst DEF rest
<1> QED
  BY <1>2, <1>3, <1>6, <1>11, Zenon DEF names

\* The first element of a sequence that is in a set, or the one given for none.
IsFirst(x, S, seq, else) ==
    \/ x = else /\ \A i \in DOMAIN seq : seq[i] \notin S
    \/ \E i \in DOMAIN seq : x = seq[i] /\ x \in S /\ \A j \in 1 .. i - 1 : seq[j] \notin S

LEMMA FirstIs ==
    ASSUME NEW T, NEW seq \in Seq(T), NEW S, NEW else
    PROVE  IsFirst(D!First(S, seq, else), S, seq, else)
<1> DEFINE hits == {i \in DOMAIN seq : seq[i] \in S}
           x == D!First(S, seq, else)
<1>1. x = IF hits = {} THEN else ELSE seq[D!Min(hits)]
  BY Zenon DEF D!First
<1>2. hits \in SUBSET Nat /\ DOMAIN seq = 1 .. Len(seq) /\ Len(seq) \in Nat
  OBVIOUS
<1>3. CASE hits = {}
  BY <1>1, <1>3 DEF IsFirst
<1>4. CASE hits # {}
  <2>1. \E first \in hits : \A i \in hits : first <= i
    BY <1>2, <1>4, FirstPlace
  <2>2. D!Min(hits) \in hits /\ \A i \in hits : D!Min(hits) <= i
    BY <2>1, Zenon DEF D!Min
  <2> DEFINE m == D!Min(hits)
  <2>3. x = seq[m]
    BY <1>1, <1>4, Zenon
  <2>4. m \in DOMAIN seq /\ seq[m] \in S
    BY <2>2
  <2>5. ASSUME NEW j \in 1 .. m - 1, seq[j] \in S PROVE FALSE
    <3> HIDE DEF m
    <3>1. j \in DOMAIN seq /\ ~(m <= j)
      BY <1>2, <2>4
    <3>2. j \in hits
      BY <2>5, <3>1
    <3> QED
      BY <2>2, <3>1, <3>2 DEF m
  <2> HIDE DEF x, m
  <2> QED
    BY <2>3, <2>4, <2>5, Zenon DEF IsFirst, x
<1> QED
  BY <1>3, <1>4

(***************************************************************************)
(* What an import is resolved to.                                          *)
(***************************************************************************)
LEMMA SameRange == \A f : D!Range(f) = Range(f)
  BY DEF D!Range, Range

LEMMA ResolvedParts == \A kind, target : /\ D!Resolved(kind, target).kind = kind
                                         /\ D!Resolved(kind, target).target = target
  BY DEF D!Resolved

AllFiles(files) == Range(files.allowed) \cup Range(files.restricted)
IsListing(files) ==
    /\ files.allowed \in Seq(Range(files.allowed)) /\ files.restricted \in Seq(Range(files.restricted))
    /\ \A f \in AllFiles(files) : IsFilePath(f)

EndsAs(names, target) ==
    names = <<>> \/ names[Len(names)] = D!ParentDir \/ names[Len(names)][1] = target[Len(target)][1]
LeadsTo(r, files, imp) ==
    /\ r.target \in AllFiles(files)
    /\ r.kind = "internal" => r.target \in Range(files.allowed)
    /\ r.kind = "restricted" => r.target \in Range(files.restricted)
    /\ imp.style = "scoped" \/ EndsAs(imp.names, r.target)

LEMMA Classified ==
    ASSUME NEW files, NEW path, NEW r, r = D!classify_project_path(files, path)
    PROVE  \/ r = D!Resolved("internal", path) /\ path \in Range(files.allowed)
           \/ r = D!Resolved("restricted", path) /\ path \in Range(files.restricted)
           \/ r = D!None /\ path \notin AllFiles(files)
  BY SameRange DEF D!classify_project_path, AllFiles

LEMMA ClassifiedLeads ==
    ASSUME NEW files, NEW path \in AllFiles(files), NEW imp, imp.style = "scoped" \/ EndsAs(imp.names, path)
    PROVE  LeadsTo(D!classify_project_path(files, path), files, imp)
<1> DEFINE r == D!classify_project_path(files, path)
<1>1. \/ r = D!Resolved("internal", path) /\ path \in Range(files.allowed)
      \/ r = D!Resolved("restricted", path) /\ path \in Range(files.restricted)
  BY Classified, Zenon
<1> HIDE DEF r
<1>2. ASSUME r = D!Resolved("internal", path), path \in Range(files.allowed) PROVE LeadsTo(r, files, imp)
  <2>1. r.kind = "internal" /\ r.target = path
    BY <1>2, ResolvedParts, Zenon
  <2> QED
    BY <1>2, <2>1 DEF LeadsTo
<1>3. ASSUME r = D!Resolved("restricted", path), path \in Range(files.restricted) PROVE LeadsTo(r, files, imp)
  <2>1. r.kind = "restricted" /\ r.target = path
    BY <1>3, ResolvedParts, Zenon
  <2> QED
    BY <1>3, <2>1 DEF LeadsTo
<1> QED
  BY <1>1, <1>2, <1>3 DEF r

LEMMA ExtensionKeepsName ==
    ASSUME NEW path \in Seq(LongNames), path # <<>>, path[Len(path)] # D!ParentDir, NEW ext \in Extensions,
           NEW out, out = D!with_extension(path, ext)
    PROVE  /\ out \in Seq(LongNames) /\ Len(out) = Len(path)
           /\ out[Len(out)] # D!ParentDir /\ out[Len(out)][1] = path[Len(path)][1]
<1> DEFINE N == Len(path)
           name == path[N]
           base == IF Len(name) > 1 THEN D!Front(name) ELSE name
           new == Append(base, ext)
           dir == SubSeq(path, 1, N - 1)
<1>1. N \in Nat \ {0} /\ name \in LongNames
  OBVIOUS
<1>2. out = Append(dir, new)
  BY Zenon DEF D!with_extension, D!Last, D!Front
<1>3. name \in Seq(Pieces) /\ Len(name) > 0
  BY <1>1 DEF LongNames
<1> HIDE DEF name
<1>4. base \in Seq(Pieces) /\ Len(base) > 0 /\ base[1] = name[1]
  <2>1. CASE Len(name) > 1
    <3>1. base = SubSeq(name, 1, Len(name) - 1)
      BY <2>1, Zenon DEF D!Front
    <3> QED
      BY <1>3, <2>1, <3>1
  <2>2. CASE ~(Len(name) > 1)
    BY <1>3, <2>2
  <2> QED
    BY <2>1, <2>2
<1> HIDE DEF base
<1>5. new \in Seq(Pieces) /\ Len(new) > 1 /\ new[1] = name[1]
  <2>1. ext \in Pieces
    BY DEF Pieces
  <2> HIDE DEF new
  <2>2. /\ new \in Seq(Pieces) /\ Len(new) = Len(base) + 1
        /\ \A i \in 1 .. Len(base) : new[i] = base[i]
    BY <1>4, <2>1, AppendParts DEF new
  <2> QED
    BY <1>4, <2>2
<1> HIDE DEF new
<1>6. new \in LongNames /\ new # D!ParentDir
  <2>1. Len(<<>>) = 0 /\ Len(D!ParentDir) = 1
    BY DEF D!ParentDir
  <2>2. Len(new) # 0 /\ Len(new) # 1
    <3> DEFINE n == Len(new)
    <3>1. n \in Nat /\ n > 1
      BY <1>5
    <3> HIDE DEF n
    <3>2. n # 0 /\ n # 1
      BY <3>1
    <3> QED
      BY <3>2 DEF n
  <2>3. new # <<>> /\ new # D!ParentDir
    BY <2>1, <2>2, Zenon
  <2> QED
    BY <1>5, <2>3, Zenon DEF LongNames
<1>7. dir \in Seq(LongNames) /\ Len(dir) = N - 1
  <2>1. 1 \in Nat \ {0} /\ N - 1 \in Nat /\ 1 <= (N - 1) + 1 /\ N - 1 <= Len(path) /\ (N - 1) - 1 + 1 = N - 1
    BY <1>1
  <2>2. dir \in Seq(LongNames) /\ Len(dir) = (N - 1) - 1 + 1
    BY <2>1, SubSeqParts
  <2> QED
    BY <2>1, <2>2, Zenon
<1> HIDE DEF dir
<1>8. out \in Seq(LongNames) /\ Len(out) = N /\ out[N] = new
  BY <1>1, <1>2, <1>6, <1>7
<1> QED
  BY <1>5, <1>6, <1>8 DEF name

\* What the last name of an import becomes, with an extension or without.
LEMMA TriedEndsAs ==
    ASSUME NEW dir \in Seq(LongNames), NEW names \in Seq(LongNames), NEW ext \in Extensions, NEW x,
           x \in {D!normalise_path(dir \o names), D!normalise_path(D!with_extension(dir \o names, ext))}
    PROVE  EndsAs(names, x)
<1> DEFINE path == dir \o names
           out == D!with_extension(path, ext)
<1> SUFFICES ASSUME names # <<>>, names[Len(names)] # D!ParentDir
             PROVE  names[Len(names)][1] = x[Len(x)][1]
  BY Zenon DEF EndsAs
<1>1. path \in Seq(LongNames) /\ Len(path) > 0 /\ path[Len(path)] = names[Len(names)]
  OBVIOUS
<1> HIDE DEF path
<1>2. path # <<>>
  BY <1>1
<1>3. CASE x = D!normalise_path(path)
  <2>1. x[Len(x)] = path[Len(path)]
    BY <1>1, <1>2, <1>3, NameIsKept
  <2> QED
    BY <1>1, <2>1, Zenon
<1>4. CASE x = D!normalise_path(out)
  <2>1. /\ out \in Seq(LongNames) /\ Len(out) = Len(path)
        /\ out[Len(out)] # D!ParentDir /\ out[Len(out)][1] = path[Len(path)][1]
    BY <1>1, <1>2, ExtensionKeepsName
  <2> HIDE DEF out
  <2>2. out # <<>>
    BY <1>1, <2>1
  <2>3. x[Len(x)] = out[Len(out)]
    BY <1>4, <2>1, <2>2, NameIsKept
  <2> QED
    BY <1>1, <2>1, <2>3, Zenon
<1> QED
  BY <1>3, <1>4 DEF path

LEMMA FilesAreNotNone == ASSUME NEW f, IsFilePath(f) PROVE f # D!None
<1>1. Len(<<>>) = 0
  OBVIOUS
<1> QED
  BY <1>1 DEF IsFilePath, D!None

\* The paths that are tried for a relative import, in their order.
Tried(seq, joined) ==
    /\ seq \in Seq(Range(seq)) /\ 1 \in DOMAIN seq /\ seq[1] = D!normalise_path(joined)
    /\ \A i \in DOMAIN seq : \E ext \in Extensions :
          seq[i] \in {D!normalise_path(joined), D!normalise_path(D!with_extension(joined, ext))}

LEMMA RelativeTries ==
    ASSUME NEW files, NEW imp, NEW from
    PROVE  \E seq, target : /\ Tried(seq, D!Parent(from) \o imp.names)
                            /\ IsFirst(target, AllFiles(files), seq, D!None)
                            /\ D!resolve_relative_import_path(files, imp, from) =
                                  IF target = D!None THEN D!Resolved("unresolved", D!Text(imp))
                                  ELSE D!classify_project_path(files, target)
<1> DEFINE joined == D!Parent(from) \o imp.names
           exts == <<"rs", "ts", "tsx", "js", "py", "java">>
           others == [i \in 1 .. 6 |-> D!normalise_path(D!with_extension(joined, exts[i]))]
           seq == <<D!normalise_path(joined)>> \o others
           S == D!Range(files.allowed) \cup D!Range(files.restricted)
           target == D!First(S, seq, D!None)
<1>1. D!resolve_relative_import_path(files, imp, from) =
         IF target = D!None THEN D!Resolved("unresolved", D!Text(imp)) ELSE D!classify_project_path(files, target)
  BY Zenon DEF D!resolve_relative_import_path
<1>2. \A i \in 1 .. 6 : exts[i] \in Extensions
  BY DEF Extensions
<1> HIDE DEF joined, exts
<1>3. /\ DOMAIN seq = 1 .. 7 /\ seq = [i \in 1 .. 7 |-> seq[i]] /\ seq[1] = D!normalise_path(joined)
      /\ \A i \in 2 .. 7 : seq[i] = D!normalise_path(D!with_extension(joined, exts[i - 1]))
  <2> DEFINE one == <<D!normalise_path(joined)>>
             T == {D!normalise_path(joined)} \cup {others[i] : i \in 1 .. 6}
  <2>1. one \in Seq(T) /\ Len(one) = 1 /\ one[1] = D!normalise_path(joined)
    OBVIOUS
  <2>2. others \in Seq(T) /\ Len(others) = 6
    OBVIOUS
  <2>3. \A i \in 1 .. 6 : others[i] = D!normalise_path(D!with_extension(joined, exts[i]))
    BY Zenon
  <2> HIDE DEF one, others, T
  <2>4. /\ one \o others \in Seq(T) /\ Len(one \o others) = 7 /\ (one \o others)[1] = one[1]
        /\ \A i \in 2 .. 7 : (one \o others)[i] = others[i - 1]
    <3>0. one \in Seq(T) /\ others \in Seq(T)
      BY <2>1, <2>2, Zenon
    <3> DEFINE both == one \o others
    <3>1. IsJoined(both, one, others, T)
      BY <3>0, JoinParts, Zenon
    <3>2. \A i \in 2 .. 7 : i - 1 \in 1 .. 6 /\ 1 + (i - 1) = i
      OBVIOUS
    <3> HIDE DEF both
    <3>3. both \in Seq(T) /\ Len(both) = 7 /\ both[1] = one[1] /\ \A i \in 2 .. 7 : both[i] = others[i - 1]
      BY <2>1, <2>2, <3>1, <3>2 DEF IsJoined
    <3> QED
      BY <3>3 DEF both
  <2>5. seq = one \o others
    BY Zenon DEF one
  <2> HIDE DEF seq
  <2>6. \A i \in 2 .. 7 : i - 1 \in 1 .. 6
    OBVIOUS
  <2>7. seq[1] = D!normalise_path(joined)
    BY <2>1, <2>4, <2>5, Zenon
  <2>8. \A i \in 2 .. 7 : seq[i] = D!normalise_path(D!with_extension(joined, exts[i - 1]))
    BY <2>3, <2>4, <2>5, <2>6, Zenon
  <2>9. seq \in Seq(T) /\ Len(seq) = 7
    BY <2>4, <2>5, Zenon
  <2>10. DOMAIN seq = 1 .. 7 /\ seq = [i \in 1 .. 7 |-> seq[i]]
    BY <2>9
  <2> QED
    BY <2>7, <2>8, <2>10, Zenon
<1> HIDE DEF seq
<1>4. Tried(seq, joined)
  <2>1. seq \in Seq(Range(seq))
    BY <1>3 DEF Range
  <2>2. ASSUME NEW i \in DOMAIN seq
        PROVE  \E ext \in Extensions :
                  seq[i] \in {D!normalise_path(joined), D!normalise_path(D!with_extension(joined, ext))}
    <3>1. CASE i = 1
      <4>1. exts[1] \in Extensions
        BY <1>2
      <4> QED
        BY <1>3, <3>1, <4>1
    <3>2. CASE i \in 2 .. 7
      <4>1. i - 1 \in 1 .. 6
        BY <3>2
      <4> QED
        BY <1>2, <1>3, <3>2, <4>1
    <3> QED
      BY <1>3, <3>1, <3>2
  <2> QED
    BY <1>3, <2>1, <2>2 DEF Tried
<1>5. S = AllFiles(files)
  BY SameRange, Zenon DEF AllFiles
<1>6. IsFirst(target, AllFiles(files), seq, D!None)
  <2>1. IsFirst(D!First(S, seq, D!None), S, seq, D!None)
    BY <1>4, FirstIs DEF Tried
  <2> QED
    BY <1>5, <2>1, Zenon
<1> HIDE DEF target
<1> QED
  BY <1>1, <1>4, <1>6, Zenon DEF joined

LEMMA RelativeLeads ==
    ASSUME NEW files, IsListing(files), NEW imp, imp.names \in Seq(LongNames), NEW from, IsFilePath(from),
           NEW r, r = D!resolve_relative_import_path(files, imp, from), r.kind \in LinkKinds
    PROVE  LeadsTo(r, files, imp)
<1> DEFINE joined == D!Parent(from) \o imp.names
<1>1. PICK seq, target : /\ Tried(seq, joined) /\ IsFirst(target, AllFiles(files), seq, D!None)
                         /\ r = IF target = D!None THEN D!Resolved("unresolved", D!Text(imp))
                                ELSE D!classify_project_path(files, target)
  BY RelativeTries, Zenon
<1>2. target # D!None
  <2>1. ASSUME target = D!None PROVE FALSE
    <3>1. r.kind = "unresolved"
      BY <1>1, <2>1, ResolvedParts, Zenon
    <3> QED
      BY <3>1 DEF LinkKinds
  <2> QED
    BY <2>1
<1>3. PICK i \in DOMAIN seq : target = seq[i] /\ target \in AllFiles(files)
  BY <1>1, <1>2, Zenon DEF IsFirst
<1>4. D!Parent(from) \in Seq(LongNames)
  <2>1. from \in Seq(LongNames) /\ Len(from) > 0
    BY DEF IsFilePath
  <2>2. D!Parent(from) = SubSeq(from, 1, Len(from) - 1)
    BY Zenon DEF D!Parent, D!Front
  <2> QED
    BY <2>1, <2>2
<1>5. EndsAs(imp.names, target)
  <2>1. PICK ext \in Extensions :
           target \in {D!normalise_path(joined), D!normalise_path(D!with_extension(joined, ext))}
    BY <1>1, <1>3, Zenon DEF Tried
  <2> QED
    BY <1>4, <2>1, TriedEndsAs
<1>6. r = D!classify_project_path(files, target)
  BY <1>1, <1>2, Zenon
<1> QED
  BY <1>3, <1>5, <1>6, ClassifiedLeads

\* A name loses no first piece.
LEMMA TrimmedKeeps ==
    ASSUME NEW name \in LongNames, NEW ext
    PROVE  D!Trimmed(name, ext) \in LongNames /\ D!Trimmed(name, ext)[1] = name[1]
<1> DEFINE S == {1} \cup {i \in DOMAIN name : name[i] # ext}
           m == D!Max(S)
<1>1. name \in Seq(Pieces) /\ name # <<>>
  BY DEF LongNames
<1>2. Len(name) \in Nat /\ Len(name) >= 1 /\ DOMAIN name = 1 .. Len(name)
  BY <1>1
<1>3. D!Trimmed(name, ext) = SubSeq(name, 1, m)
  BY Zenon DEF D!Trimmed
<1>4. S \in SUBSET (1 .. Len(name)) /\ S # {}
  BY <1>2
<1> HIDE DEF S
<1>5. \E last \in S : \A i \in S : last >= i
  BY <1>2, <1>4, LastPlace
<1>6. m \in S
  BY <1>5, Zenon DEF D!Max
<1> HIDE DEF m
<1>7. m \in Nat /\ 1 <= m /\ m <= Len(name) /\ m - 1 + 1 = m
  BY <1>2, <1>4, <1>6
<1>8. /\ SubSeq(name, 1, m) \in Seq(Pieces) /\ Len(SubSeq(name, 1, m)) = m
      /\ SubSeq(name, 1, m)[1] = name[1]
  BY <1>1, <1>7
<1> DEFINE out == SubSeq(name, 1, m)
<1>9. out # <<>>
  <2>1. Len(<<>>) = 0
    OBVIOUS
  <2>2. Len(out) # 0
    BY <1>7, <1>8
  <2> QED
    BY <2>1, <2>2, Zenon
<1> QED
  BY <1>3, <1>8, <1>9, Zenon DEF LongNames

\* Nor does the name at the end of a path.
LEMMA StemKeeps ==
    ASSUME NEW path \in Seq(LongNames), Len(path) > 0, NEW stem, stem = D!Stem(path)
    PROVE  stem \in Seq(LongNames) /\ Len(stem) = Len(path) /\ stem[Len(path)][1] = path[Len(path)][1]
<1> DEFINE name == path[Len(path)]
           java == D!Trimmed(D!Trimmed(D!Trimmed(name, "rs"), "py"), "java")
           new == D!Trimmed(D!Trimmed(D!Trimmed(java, "tsx"), "ts"), "js")
           dir == SubSeq(path, 1, Len(path) - 1)
<1>1. name \in LongNames /\ Len(path) \in Nat
  OBVIOUS
<1>2. stem = Append(dir, new)
  BY Zenon DEF D!Stem, D!Last, D!Front
<1> HIDE DEF name
<1>3. new \in LongNames /\ new[1] = name[1]
  <2>1. \A n \in LongNames : \A ext : D!Trimmed(n, ext) \in LongNames /\ D!Trimmed(n, ext)[1] = n[1]
    BY TrimmedKeeps
  <2>2. D!Trimmed(name, "rs") \in LongNames /\ D!Trimmed(name, "rs")[1] = name[1]
    <3>1. name \in LongNames
      BY <1>1
    <3> QED
      BY <3>1, TrimmedKeeps
  <2>3. D!Trimmed(D!Trimmed(name, "rs"), "py") \in LongNames /\ D!Trimmed(D!Trimmed(name, "rs"), "py")[1] = name[1]
    BY <2>1, <2>2, Zenon
  <2>4. java \in LongNames /\ java[1] = name[1]
    BY <2>1, <2>3, Zenon
  <2> HIDE DEF java
  <2>5. D!Trimmed(java, "tsx") \in LongNames /\ D!Trimmed(java, "tsx")[1] = name[1]
    BY <2>1, <2>4, Zenon
  <2>6. D!Trimmed(D!Trimmed(java, "tsx"), "ts") \in LongNames /\ D!Trimmed(D!Trimmed(java, "tsx"), "ts")[1] = name[1]
    BY <2>1, <2>5, Zenon
  <2> QED
    BY <2>1, <2>6, Zenon
<1> HIDE DEF new
<1>4. dir \in Seq(LongNames) /\ Len(dir) = Len(path) - 1
  <2>1. Len(path) - 1 \in 0 .. Len(path)
    BY <1>1
  <2> QED
    BY <2>1, Cuts
<1> HIDE DEF dir
<1>5. /\ stem \in Seq(LongNames) /\ Len(stem) = Len(path) - 1 + 1
      /\ stem[Len(path) - 1 + 1] = new
  BY <1>2, <1>3, <1>4, AppendParts
<1>6. Len(path) - 1 + 1 = Len(path)
  BY <1>1
<1> QED
  BY <1>3, <1>5, <1>6, Zenon DEF name

\* A suffix ends alike.
LEMMA SuffixEnds ==
    ASSUME NEW T, NEW s \in Seq(T), Len(s) > 0, NEW t \in Seq(T), D!IsSuffix(s, t)
    PROVE  Len(t) > 0 /\ s[Len(s)] = t[Len(t)]
<1> DEFINE rs == D!Reverse(s)
           rt == D!Reverse(t)
<1>1. rs = [i \in 1 .. Len(s) |-> s[Len(s) - i + 1]] /\ rt = [i \in 1 .. Len(t) |-> t[Len(t) - i + 1]]
  BY DEF D!Reverse
<1>2. Len(s) \in Nat /\ Len(t) \in Nat
  OBVIOUS
<1>3. Len(rs) <= Len(rt) /\ SubSeq(rs, 1, Len(rs)) = SubSeq(rt, 1, Len(rs))
  BY DEF D!IsSuffix, D!IsPrefix
<1>4. rs \in Seq(T) /\ Len(rs) = Len(s) /\ rs[1] = s[Len(s)]
  BY <1>1, <1>2
<1>5. rt \in Seq(T) /\ Len(rt) = Len(t)
  BY <1>1, <1>2
<1> HIDE DEF rs, rt
<1>6. Len(t) > 0
  BY <1>2, <1>3, <1>4, <1>5
<1>7. rt[1] = t[Len(t)]
  BY <1>1, <1>2, <1>6
<1> DEFINE n == Len(rs)
<1>8. n \in Nat /\ 1 <= n /\ n <= Len(rs) /\ n <= Len(rt) /\ 1 \in 1 .. n - 1 + 1 /\ 1 + 1 - 1 = 1 /\ 1 \in Nat \ {0}
      /\ 1 <= n + 1
  BY <1>2, <1>3, <1>4
<1> HIDE DEF n
<1>9. SubSeq(rs, 1, n)[1] = rs[1] /\ SubSeq(rt, 1, n)[1] = rt[1]
  BY <1>4, <1>5, <1>8, SubSeqParts
<1>10. SubSeq(rs, 1, n) = SubSeq(rt, 1, n)
  BY <1>3 DEF n
<1> QED
  BY <1>4, <1>6, <1>7, <1>9, <1>10, Zenon

\* The rest of a sequence from one of its places.
LEMMA EndsParts ==
    ASSUME NEW T, NEW seq \in Seq(T), NEW m \in 1 .. Len(seq)
    PROVE  LET out == SubSeq(seq, m, Len(seq))
           IN out \in Seq(T) /\ Len(out) > 0 /\ out[Len(out)] = seq[Len(seq)]
<1>1. m \in Nat \ {0} /\ Len(seq) \in Nat /\ m <= Len(seq)
  OBVIOUS
<1> DEFINE out == SubSeq(seq, m, Len(seq))
<1>2. out = [i \in 1 .. Len(seq) - m + 1 |-> seq[m + i - 1]]
  BY <1>1
<1>3. out \in Seq(T) /\ Len(out) = Len(seq) - m + 1
  BY <1>1, <1>2
<1>4. out[Len(seq) - m + 1] = seq[Len(seq)]
  BY <1>1, <1>2
<1> QED
  BY <1>1, <1>3, <1>4

\* What is left of a reference ends in its last name.
LEMMA InternalKeeps ==
    ASSUME NEW names \in Seq(LongNames), names # <<>>, NEW out, out = D!normalise_internal_reference(names)
    PROVE  out \in Seq(LongNames) /\ Len(out) > 0 /\ out[Len(out)] = names[Len(names)]
<1> DEFINE local == IF Len(names) > 1 /\ names[1] \in {<<"crate">>, <<"self">>} THEN Tail(names) ELSE names
           own == {n \in DOMAIN local : n = Len(local) \/ local[n] # <<"super">>}
           m == D!Min(own)
<1>1. out = SubSeq(local, m, Len(local))
  BY Zenon DEF D!normalise_internal_reference
<1>2. Len(names) \in Nat /\ Len(names) > 0
  OBVIOUS
<1>3. local \in Seq(LongNames) /\ Len(local) > 0 /\ local[Len(local)] = names[Len(names)]
  <2>1. CASE local = names
    BY <1>2, <2>1, Zenon
  <2>2. CASE local = Tail(names) /\ Len(names) > 1
    <3>1. Tail(names) \in Seq(LongNames) /\ Len(Tail(names)) = Len(names) - 1
          /\ Tail(names)[Len(names) - 1] = names[Len(names)]
      BY <2>2
    <3> HIDE DEF local
    <3>2. Len(names) - 1 > 0
      BY <1>2, <2>2
    <3> QED
      BY <2>2, <3>1, <3>2, Zenon
  <2> QED
    BY <2>1, <2>2, Zenon
<1> HIDE DEF local
<1>4. own \in SUBSET Nat /\ Len(local) \in own /\ own \subseteq 1 .. Len(local)
  BY <1>3
<1> HIDE DEF own
<1>5. \E first \in own : \A i \in own : first <= i
  BY <1>4, FirstPlace
<1>6. m \in own
  BY <1>5, Zenon DEF D!Min
<1> HIDE DEF m
<1>7. m \in 1 .. Len(local)
  BY <1>4, <1>6
<1>8. out \in Seq(LongNames) /\ Len(out) > 0 /\ out[Len(out)] = local[Len(local)]
  BY <1>1, <1>3, <1>7, EndsParts
<1> QED
  BY <1>3, <1>8, Zenon

\* A file that is found for a reference has its last name.
LEMMA MatchingEnds ==
    ASSUME NEW names \in Seq(LongNames), Len(names) > 0, NEW files, files \in Seq(Range(files)),
           \A f \in Range(files) : IsFilePath(f),
           NEW found, found = D!find_matching_file(names, files), found # D!None
    PROVE  found \in Range(files) /\ names[Len(names)][1] = found[Len(found)][1]
<1> DEFINE S == {f \in Range(files) : D!IsSuffix(names, D!Stem(f))}
<1>1. found = D!First(S, files, D!None)
  BY SameRange, Zenon DEF D!find_matching_file
<1> HIDE DEF S
<1>2. IsFirst(found, S, files, D!None)
  BY <1>1, FirstIs
<1>3. found \in S
  BY <1>2, Zenon DEF IsFirst
<1>4. found \in Range(files) /\ D!IsSuffix(names, D!Stem(found))
  BY <1>3 DEF S
<1>5. found \in Seq(LongNames) /\ Len(found) > 0
  BY <1>4 DEF IsFilePath
<1> DEFINE stem == D!Stem(found)
<1>6. stem \in Seq(LongNames) /\ Len(stem) = Len(found) /\ stem[Len(found)][1] = found[Len(found)][1]
  BY <1>5, StemKeeps
<1> HIDE DEF stem
<1>7. names[Len(names)] = stem[Len(stem)]
  BY <1>4, <1>6, SuffixEnds DEF stem
<1> QED
  BY <1>4, <1>6, <1>7, Zenon

LEMMA NonRelativeLeads ==
    ASSUME NEW files, IsListing(files), NEW imp, imp.names \in Seq(LongNames), imp.names # <<>>,
           NEW r, r = D!resolve_non_relative_import_path(files, imp), r.kind \in LinkKinds
    PROVE  LeadsTo(r, files, imp)
<1> DEFINE names == D!normalise_internal_reference(imp.names)
           local == D!find_matching_file(names, files.allowed)
           hidden == D!find_matching_file(names, files.restricted)
<1>1. r = IF local # D!None THEN D!Resolved("internal", local)
          ELSE IF hidden # D!None THEN D!Resolved("restricted", hidden)
          ELSE D!Resolved("unresolved", D!Text(imp))
  BY Zenon DEF D!resolve_non_relative_import_path
<1>2. names \in Seq(LongNames) /\ Len(names) > 0 /\ names[Len(names)] = imp.names[Len(imp.names)]
  BY InternalKeeps
<1> HIDE DEF names
<1>3. \A f \in Range(files.allowed) \cup Range(files.restricted) : IsFilePath(f)
  BY DEF IsListing, AllFiles
<1>4. ASSUME local # D!None PROVE local \in Range(files.allowed) /\ EndsAs(imp.names, local)
  <2>1. files.allowed \in Seq(Range(files.allowed)) /\ \A f \in Range(files.allowed) : IsFilePath(f)
    BY <1>3 DEF IsListing
  <2>2. local \in Range(files.allowed) /\ names[Len(names)][1] = local[Len(local)][1]
    BY <1>2, <1>4, <2>1, MatchingEnds
  <2> QED
    BY <1>2, <2>2, Zenon DEF EndsAs
<1>5. ASSUME hidden # D!None PROVE hidden \in Range(files.restricted) /\ EndsAs(imp.names, hidden)
  <2>1. files.restricted \in Seq(Range(files.restricted)) /\ \A f \in Range(files.restricted) : IsFilePath(f)
    BY <1>3 DEF IsListing
  <2>2. hidden \in Range(files.restricted) /\ names[Len(names)][1] = hidden[Len(hidden)][1]
    BY <1>2, <1>5, <2>1, MatchingEnds
  <2> QED
    BY <1>2, <2>2, Zenon DEF EndsAs
<1> HIDE DEF local, hidden
<1>6. CASE local # D!None
  <2>1. r.kind = "internal" /\ r.target = local
    BY <1>1, <1>6, ResolvedParts, Zenon
  <2> QED
    BY <1>4, <1>6, <2>1 DEF LeadsTo, AllFiles
<1>7. CASE local = D!None /\ hidden # D!None
  <2>1. r.kind = "restricted" /\ r.target = hidden
    BY <1>1, <1>7, ResolvedParts, Zenon
  <2> QED
    BY <1>5, <1>7, <2>1 DEF LeadsTo, AllFiles
<1>8. CASE local = D!None /\ hidden = D!None
  <2>1. r.kind = "unresolved"
    BY <1>1, <1>8, ResolvedParts, Zenon
  <2> QED
    BY <2>1 DEF LinkKinds
<1> QED
  BY <1>6, <1>7, <1>8, Zenon

\* An alias leads to any file.
LEMMA AliasLeads ==
    ASSUME NEW p, NEW files, NEW imp, NEW from,
           NEW r, r = D!resolve_ts_alias_import(p, files, imp, from), r # D!None, r.kind \in LinkKinds
    PROVE  LeadsTo(r, files, imp)
<1> DEFINE target == D!resolve_ts_path_alias(p, imp, from)
           found == D!classify_project_path(files, target)
<1>1. target # D!None /\ r = IF found # D!None THEN found ELSE D!Resolved("unresolved", D!Text(imp))
  BY Zenon DEF D!resolve_ts_alias_import
<1>2. imp.style = "scoped"
  BY <1>1, Zenon DEF D!resolve_ts_path_alias
<1> HIDE DEF target
<1>3. r = found /\ found # D!None
  <2>1. ASSUME r = D!Resolved("unresolved", D!Text(imp)) PROVE FALSE
    <3>1. r.kind = "unresolved"
      BY <2>1, ResolvedParts, Zenon
    <3> QED
      BY <3>1 DEF LinkKinds
  <2> QED
    BY <1>1, <2>1, Zenon
<1>4. target \in AllFiles(files)
  <2>1. \/ found = D!Resolved("internal", target) /\ target \in Range(files.allowed)
        \/ found = D!Resolved("restricted", target) /\ target \in Range(files.restricted)
        \/ found = D!None /\ target \notin AllFiles(files)
    BY Classified, Zenon
  <2> QED
    BY <1>3, <2>1 DEF AllFiles
<1> QED
  BY <1>2, <1>3, <1>4, ClassifiedLeads, Zenon

\* An import that is resolved to a file leads to it.
LEMMA ImportLeads ==
    ASSUME NEW p, NEW files, IsListing(files), NEW imp, imp.names \in Seq(LongNames),
           imp.style # "relative" => imp.names # <<>>, NEW from, IsFilePath(from),
           NEW r, r = D!resolve_import_path(p, files, imp, from), r.kind \in LinkKinds
    PROVE  LeadsTo(r, files, imp)
<1> DEFINE alias == D!resolve_ts_alias_import(p, files, imp, from)
<1>1. r = IF alias # D!None THEN alias
          ELSE IF D!ImportKind(imp) = "external" THEN D!Resolved("external", D!Text(imp))
          ELSE IF imp.style = "relative" THEN D!resolve_relative_import_path(files, imp, from)
          ELSE D!resolve_non_relative_import_path(files, imp)
  BY Zenon DEF D!resolve_import_path
<1>2. CASE alias # D!None
  <2>1. r = alias
    BY <1>1, <1>2, Zenon
  <2> QED
    BY <1>2, <2>1, AliasLeads
<1> HIDE DEF alias
<1>3. CASE alias = D!None /\ D!ImportKind(imp) = "external"
  <2>1. r.kind = "external"
    BY <1>1, <1>3, ResolvedParts, Zenon
  <2> QED
    BY <2>1 DEF LinkKinds
<1>4. CASE alias = D!None /\ D!ImportKind(imp) # "external" /\ imp.style = "relative"
  <2>1. r = D!resolve_relative_import_path(files, imp, from)
    BY <1>1, <1>4, Zenon
  <2> QED
    BY <2>1, RelativeLeads
<1>5. CASE alias = D!None /\ D!ImportKind(imp) # "external" /\ imp.style # "relative"
  <2>1. r = D!resolve_non_relative_import_path(files, imp) /\ imp.names # <<>>
    BY <1>1, <1>5, Zenon
  <2> QED
    BY <2>1, NonRelativeLeads
<1> QED
  BY <1>2, <1>3, <1>4, <1>5, Zenon

\* A relative import that names a file is resolved to it.
LEMMA RelativeFinds ==
    ASSUME NEW p, NEW files, IsListing(files), NEW imp, imp.names \in Seq(LongNames), imp.style = "relative",
           NEW from, IsFilePath(from), Named(from, imp) \in AllFiles(files)
    PROVE  LET r == D!resolve_import_path(p, files, imp, from)
           IN r.kind \in LinkKinds /\ r.target = Named(from, imp)
<1> DEFINE joined == D!Parent(from) \o imp.names
           r == D!resolve_import_path(p, files, imp, from)
           path == Named(from, imp)
<1>1. r = D!resolve_relative_import_path(files, imp, from)
  <2>1. D!resolve_ts_alias_import(p, files, imp, from) = D!None
    BY Zenon DEF D!resolve_ts_alias_import
  <2>2. D!ImportKind(imp) = "internal" /\ "internal" # "external"
    BY DEF D!ImportKind
  <2> QED
    BY <2>1, <2>2, Zenon DEF D!resolve_import_path
<1>2. IsFilePath(path)
  BY DEF IsListing
<1>3. D!normalise_path(joined) = path
  BY <1>2, NamedIsResolved
<1>4. PICK seq, target : /\ Tried(seq, joined) /\ IsFirst(target, AllFiles(files), seq, D!None)
                         /\ r = IF target = D!None THEN D!Resolved("unresolved", D!Text(imp))
                                ELSE D!classify_project_path(files, target)
  BY <1>1, RelativeTries, Zenon
<1> HIDE DEF joined, r, path
<1>5. seq \in Seq(Range(seq)) /\ 1 \in DOMAIN seq /\ seq[1] = path
  BY <1>3, <1>4, Zenon DEF Tried
<1>6. target = path
  <2>1. PICK i \in DOMAIN seq : target = seq[i] /\ \A j \in 1 .. i - 1 : seq[j] \notin AllFiles(files)
    BY <1>4, <1>5, Zenon DEF IsFirst, path
  <2>2. CASE i = 1
    BY <1>5, <2>1, <2>2, Zenon
  <2>3. CASE i # 1
    <3>1. 1 \in 1 .. i - 1
      BY <1>5, <2>3
    <3> QED
      BY <1>5, <2>1, <3>1, Zenon DEF path
  <2> QED
    BY <2>2, <2>3
<1>7. r = D!classify_project_path(files, path)
  <2>1. path # D!None
    BY <1>2, FilesAreNotNone
  <2> QED
    BY <1>4, <1>6, <2>1, Zenon
<1>8. \/ r = D!Resolved("internal", path) /\ path \in Range(files.allowed)
      \/ r = D!Resolved("restricted", path) /\ path \in Range(files.restricted)
      \/ r = D!None /\ path \notin AllFiles(files)
  BY <1>7, Classified
<1>9. r.kind \in LinkKinds /\ r.target = path
  <2>1. path \in AllFiles(files)
    BY Zenon DEF path
  <2>2. r = D!Resolved("internal", path) \/ r = D!Resolved("restricted", path)
    BY <1>8, <2>1, Zenon
  <2>3. ASSUME NEW kind \in LinkKinds, r = D!Resolved(kind, path) PROVE r.kind \in LinkKinds /\ r.target = path
    BY <2>3, ResolvedParts, Zenon
  <2>4. "internal" \in LinkKinds /\ "restricted" \in LinkKinds
    BY DEF LinkKinds
  <2> QED
    BY <2>2, <2>3, <2>4, Zenon
<1> QED
  BY <1>9 DEF r, path

(***************************************************************************)
(* The files that are read, and the table.                                 *)
(***************************************************************************)
\* Elements of a sequence, all of them if it is not longer than n.
Within(out, seq, S, n) ==
    /\ out \in Seq(S) /\ Range(out) \subseteq Range(seq)
    /\ Len(seq) <= n => out = seq

LEMMA TruncatedParts ==
    ASSUME NEW S, NEW seq \in Seq(S), NEW n \in Nat
    PROVE  Within(D!Truncated(seq, n), seq, S, n)
<1> DEFINE m == IF n < Len(seq) THEN n ELSE Len(seq)
           out == SubSeq(seq, 1, m)
<1>1. Len(seq) \in Nat
  OBVIOUS
<1>2. m \in 0 .. Len(seq) /\ (Len(seq) <= n => m = Len(seq))
  BY <1>1
<1> HIDE DEF m
<1>3. out \in Seq(S) /\ Len(out) = m /\ \A k \in 1 .. m : out[k] = seq[k]
  BY <1>2, Cuts
<1>4. m = Len(seq) => out = seq
  <2> SUFFICES ASSUME m = Len(seq) PROVE out = seq
    OBVIOUS
  <2> HIDE DEF out
  <2> QED
    BY <1>3
<1>5. Range(out) \subseteq Range(seq)
  <2> HIDE DEF out
  <2>1. DOMAIN out = 1 .. m /\ 1 .. m \subseteq DOMAIN seq
    BY <1>1, <1>2, <1>3
  <2> QED
    BY <1>3, <2>1 DEF Range
<1>6. D!Truncated(seq, n) = out
  BY Zenon DEF D!Truncated, m
<1> HIDE DEF out
<1> QED
  BY <1>2, <1>3, <1>4, <1>5, <1>6 DEF Within

\* What is taken from a sequence.
LEMMA TakenParts ==
    ASSUME NEW S, NEW seq \in Seq(S), NEW X, NEW out,
           out = D!At(seq, {i \in DOMAIN seq : seq[i] \in X})[Len(seq)]
    PROVE  out \in Seq(S) /\ Range(out) = Range(seq) \cap X /\ Len(out) <= Len(seq)
<1> DEFINE places == {i \in DOMAIN seq : seq[i] \in X}
<1>1. out = At(seq, places)[Len(seq)]
  BY SameAt, Zenon
<1>2. places \in SUBSET DOMAIN seq
  OBVIOUS
<1>3. DOMAIN seq = 1 .. Len(seq) /\ Len(seq) \in Nat
  OBVIOUS
<1>4. \A i : i \in places <=> i \in DOMAIN seq /\ seq[i] \in X
  OBVIOUS
<1> HIDE DEF places
<1>5. out \in Seq(S) /\ Taken(out, seq, places)
  BY <1>1, AtPlaces
<1>6. IsFiniteSet(places) /\ Len(out) = Cardinality(places)
  BY <1>1, <1>2, AtCounts
<1>7. Cardinality(places) <= Len(seq)
  <2>1. IsFiniteSet(1 .. Len(seq)) /\ Cardinality(1 .. Len(seq)) = Len(seq)
    BY <1>3, Intervals
  <2> QED
    BY <1>2, <1>3, <2>1, FS_Subset
<1>8. \A x : x \in Range(out) <=> x \in Range(seq) \cap X
  <2>1. \A x : x \in Range(out) <=> \E i \in DOMAIN out : out[i] = x
    BY DEF Range
  <2>2. \A x : x \in Range(seq) \cap X <=> \E i \in DOMAIN seq \cap places : seq[i] = x
    BY <1>4 DEF Range
  <2> QED
    BY <1>5, <2>1, <2>2, Zenon DEF Taken
<1> QED
  BY <1>5, <1>6, <1>7, <1>8

\* A scope leaves files out, and none if there is no scope.
LEMMA ScopedFiles ==
    ASSUME NEW S, NEW seq \in Seq(S), NEW scope, NEW out, out = D!filter_by_scope(seq, scope)
    PROVE  out \in Seq(S) /\ Range(out) \subseteq Range(seq) /\ (scope = D!None => out = seq)
<1>1. CASE scope = D!None
  BY <1>1 DEF D!filter_by_scope
<1>2. CASE scope # D!None
  <2> DEFINE X == {f \in S : scope \in D!Range(f)}
             some == {i \in DOMAIN seq : scope \in D!Range(seq[i])}
  <2>1. out = D!At(seq, some)[Len(seq)]
    BY <1>2, Zenon DEF D!filter_by_scope, D!Where
  <2>2. some = {i \in DOMAIN seq : seq[i] \in X}
    OBVIOUS
  <2> HIDE DEF X, some
  <2>3. out = D!At(seq, {i \in DOMAIN seq : seq[i] \in X})[Len(seq)]
    BY <2>1, <2>2, Zenon
  <2>4. out \in Seq(S) /\ Range(out) = Range(seq) \cap X
    BY <2>3, TakenParts
  <2> QED
    BY <1>2, <2>4
<1> QED
  BY <1>1, <1>2

\* The files that are read are of the list, and are all that are on disk if the list
\* is not longer than the limit.
LEMMA ReadFiles ==
    ASSUME NEW p, NEW files, NEW S, files.allowed \in Seq(S), NEW n \in Nat, NEW out, out = D!FilesRead(p, files, n)
    PROVE  /\ Range(out) \subseteq Range(files.allowed)
           /\ Len(files.allowed) <= n => Range(files.allowed) \cap p.disk \subseteq Range(out)
<1> DEFINE seq == files.allowed
           first == D!Truncated(seq, 2 * n)
           there == D!At(first, {i \in DOMAIN first : first[i] \in p.disk})[Len(first)]
<1>1. out = D!Truncated(there, n)
  BY Zenon DEF D!FilesRead, D!Where
<1>2. 2 * n \in Nat /\ n <= 2 * n
  OBVIOUS
<1> HIDE DEF seq
<1>3. seq \in Seq(S)
  BY Zenon DEF seq
<1>4. Within(first, seq, S, 2 * n)
  BY <1>2, <1>3, TruncatedParts
<1> HIDE DEF first
<1>5. there \in Seq(S) /\ Range(there) = Range(first) \cap p.disk /\ Len(there) <= Len(first)
  <2>1. first \in Seq(S)
    BY <1>4, Zenon DEF Within
  <2> QED
    BY <2>1, TakenParts
<1> HIDE DEF there
<1>6. Within(out, there, S, n)
  BY <1>1, <1>5, TruncatedParts
<1>7. Range(out) \subseteq Range(seq)
  BY <1>4, <1>5, <1>6, Zenon DEF Within
<1>8. ASSUME Len(seq) <= n PROVE Range(seq) \cap p.disk \subseteq Range(out)
  <2>1. first = seq
    <3>1. Len(seq) \in Nat
      BY <1>3
    <3>2. Len(seq) <= 2 * n
      BY <1>2, <1>8, <3>1
    <3> QED
      BY <1>4, <3>2, Zenon DEF Within
  <2>2. Len(there) <= n
    <3>1. Len(there) \in Nat /\ Len(seq) \in Nat
      BY <1>3, <1>5
    <3>2. Len(there) <= Len(seq)
      BY <1>5, <2>1, Zenon
    <3> QED
      BY <1>8, <3>1, <3>2
  <2>3. out = there
    BY <1>6, <2>2, Zenon DEF Within
  <2> QED
    BY <1>5, <2>1, <2>3, Zenon
<1> QED
  BY <1>7, <1>8, Zenon DEF seq

LEMMA FirstOfParts ==
    ASSUME NEW S, NEW n
    PROVE  D!FirstOf(S, n) \subseteq S /\ (Cardinality(S) <= n => D!FirstOf(S, n) = S)
  BY SameCardinality DEF D!FirstOf

\* The path of a file is the root and its relative path.
LEMMA RootAndRest ==
    ASSUME NEW file, IsBelowRoot(file)
    PROVE  Root \o D!relative(file) = file
<1> DEFINE N == Len(file)
           m == Len(Root)
           rest == SubSeq(file, m + 1, N)
           before == SubSeq(file, 1, m)
<1>1. file \in Seq(PathNames) /\ m < N /\ before = Root /\ Root \in Seq(PathNames)
  BY RootAssumption DEF IsBelowRoot
<1>2. m \in 0 .. Len(file)
  BY <1>1
<1>3. /\ before \in Seq(PathNames) /\ Len(before) = m
      /\ \A k \in 1 .. m : before[k] = file[k]
      /\ rest \in Seq(PathNames) /\ Len(rest) = Len(file) - m
      /\ \A k \in 1 .. Len(file) - m : rest[k] = file[m + k]
  <2> HIDE DEF m
  <2> QED
    BY <1>1, <1>2, Cuts
<1>4. D!relative(file) = rest
  BY Zenon DEF D!relative
<1> HIDE DEF rest, before
<1> DEFINE both == before \o rest
<1>5. IsJoined(both, before, rest, PathNames)
  <2>1. before \in Seq(PathNames) /\ rest \in Seq(PathNames)
    BY <1>3, Zenon
  <2> QED
    BY <2>1, JoinParts, Zenon
<1> HIDE DEF both, m
<1>6. both = file
  <2>1. both \in Seq(PathNames) /\ Len(both) = N /\ N \in Nat /\ m \in Nat
    BY <1>1, <1>2, <1>3, <1>5 DEF IsJoined
  <2>2. ASSUME NEW i \in 1 .. N PROVE both[i] = file[i]
    <3>1. CASE i \in 1 .. m
      BY <1>3, <1>5, <3>1 DEF IsJoined
    <3>2. CASE i \notin 1 .. m
      <4>1. i - m \in 1 .. Len(file) - m /\ m + (i - m) = i
        BY <2>1, <3>2
      <4>2. both[m + (i - m)] = rest[i - m]
        BY <1>3, <1>5, <4>1 DEF IsJoined
      <4> QED
        BY <1>3, <4>1, <4>2, Zenon
    <3> QED
      BY <3>1, <3>2
  <2> HIDE DEF N
  <2>3. file \in Seq(PathNames) /\ Len(file) = N
    BY <1>1 DEF N
  <2> QED
    BY <2>1, <2>2, <2>3
<1> QED
  BY <1>1, <1>4, <1>6, Zenon DEF both

\* A depth leaves files out of the table and changes none.
LEMMA DepthKeeps ==
    ASSUME NEW deps, NEW params, params.depth = D!None \/ params.depth[1] \in Nat,
           NEW out, out = D!apply_depth_limit(deps, params)
    PROVE  DOMAIN out \subseteq DOMAIN deps /\ \A key \in DOMAIN out : out[key] = deps[key]
<1> DEFINE inScope == {key \in DOMAIN deps : params.scope \in D!Range(key)}
           roots == IF params.scope = D!None \/ inScope = {} THEN DOMAIN deps ELSE inScope
           depth == IF params.depth[1] < 5 THEN params.depth[1] ELSE 5
           Further(visited) ==
               visited \cup (DOMAIN deps \cap
                   UNION {D!collect_neighbors(deps[key], params.direction) : key \in visited})
           Vals == SUBSET DOMAIN deps
           step == [n \in 1 .. depth |-> [v \in Vals |-> Further(v)]]
           Body(g) == [n \in 0 .. depth |-> IF n = 0 THEN roots ELSE Further(g[n - 1])]
           w == CHOOSE g : g = Body(g)
<1>1. out = IF params.depth = D!None THEN deps ELSE [key \in w[depth] |-> deps[key]]
  BY Zenon DEF D!apply_depth_limit
<1>2. CASE params.depth = D!None
  BY <1>1, <1>2
<1>3. CASE params.depth # D!None
  <2>1. depth \in Nat /\ roots \in Vals /\ step \in [1 .. depth -> [Vals -> Vals]]
    BY <1>3
  <2>2. depth \in 0 .. depth /\ \A n \in 1 .. depth : n - 1 \in 0 .. depth
    BY <2>1
  <2> HIDE DEF roots, Vals, step, Body, w, depth
  <2>3. PICK f : Follows(f, depth, Vals, roots, step)
    BY <2>1, RecursionExists
  <2>4. ASSUME NEW n \in 1 .. depth PROVE f[n] = Further(f[n - 1])
    <3>1. f[n - 1] \in Vals /\ f[n] = step[n][f[n - 1]]
      BY <2>2, <2>3 DEF Follows
    <3> QED
      BY <3>1 DEF step
  <2>5. f = Body(f)
    <3> HIDE DEF Further
    <3>1. \A n \in 0 .. depth : n = 0 \/ n \in 1 .. depth
      BY <2>1
    <3>2. \A n \in 0 .. depth : f[n] = IF n = 0 THEN roots ELSE Further(f[n - 1])
      BY <2>3, <2>4, <3>1, Zenon DEF Follows
    <3> QED
      BY <2>3, <3>2, Zenon DEF Follows, Body
  <2>6. w = Body(w)
    BY <2>5, Zenon DEF w
  <2> DEFINE Right == {n \in 0 .. depth : w[n] \subseteq DOMAIN deps}
  <2>7. 0 \in Right
    <3>1. 0 \in 0 .. depth
      BY <2>1
    <3>2. Body(w)[0] = roots
      BY <3>1, Zenon DEF Body
    <3>3. w[0] = roots
      BY <2>6, <3>2, Zenon
    <3> QED
      BY <2>1, <3>1, <3>3 DEF Vals
  <2>8. ASSUME NEW n \in 1 .. depth, n - 1 \in Right PROVE n \in Right
    <3>1. n \in 0 .. depth /\ n # 0
      BY <2>1
    <3>2. Body(w)[n] = Further(w[n - 1])
      BY <3>1, Zenon DEF Body
    <3>3. w[n] = Further(w[n - 1])
      BY <2>6, <3>2, Zenon
    <3> QED
      BY <2>8, <3>1, <3>3
  <2> HIDE DEF Right
  <2>9. 0 .. depth \subseteq Right
    BY <2>1, <2>7, <2>8, Stepwise
  <2>10. w[depth] \subseteq DOMAIN deps
    BY <2>2, <2>9 DEF Right
  <2>11. out = [key \in w[depth] |-> deps[key]]
    BY <1>1, <1>3, Zenon
  <2> QED
    BY <2>10, <2>11
<1> QED
  BY <1>2, <1>3

\* The targets of a file's imports of one kind.
TargetsOf(p, files, file, kind, S) ==
    \A x : x \in S <=> \E i \in DOMAIN p.imports[file] :
                          /\ D!resolve_import_path(p, files, p.imports[file][i], file).kind = kind
                          /\ x = D!resolve_import_path(p, files, p.imports[file][i], file).target

\* The lists of a file hold them, and all if there is no more than the limit.
LEMMA ListsOfFile ==
    ASSUME NEW p, NEW files, NEW params, NEW file, NEW kind \in LinkKinds,
           p.imports[file] \in Seq(Range(p.imports[file]))
    PROVE  LET list == D!DepsOfFile(p, files, params, file)[kind]
           IN \E S : /\ TargetsOf(p, files, file, kind, S) /\ list \subseteq S
                     /\ params.maxEdges \in Nat /\ Len(p.imports[file]) <= params.maxEdges => list = S
<1> DEFINE imports == p.imports[file]
           found == [i \in DOMAIN imports |-> D!resolve_import_path(p, files, imports[i], file)]
           S == {r.target : r \in {x \in D!Range(found) : x.kind = kind}}
           list == D!DepsOfFile(p, files, params, file)[kind]
<1>1. list = D!FirstOf(S, params.maxEdges)
  <2>1. kind = "internal" \/ kind = "restricted"
    BY DEF LinkKinds
  <2>2. CASE kind = "internal"
    <3>1. D!DepsOfFile(p, files, params, file)["internal"]
             = D!FirstOf({r.target : r \in {x \in D!Range(found) : x.kind = "internal"}}, params.maxEdges)
      BY DEF D!DepsOfFile
    <3> QED
      BY <2>2, <3>1, Zenon
  <2>3. CASE kind = "restricted"
    <3>1. D!DepsOfFile(p, files, params, file)["restricted"]
             = D!FirstOf({r.target : r \in {x \in D!Range(found) : x.kind = "restricted"}}, params.maxEdges)
      BY DEF D!DepsOfFile
    <3> QED
      BY <2>3, <3>1, Zenon
  <2> QED
    BY <2>1, <2>2, <2>3, Zenon
<1>2. TargetsOf(p, files, file, kind, S)
  BY DEF TargetsOf, D!Range
<1>3. Cardinality(S) <= Len(imports) /\ Cardinality(S) \in Nat /\ Len(imports) \in Nat
  <2> DEFINE hits == {i \in DOMAIN imports : found[i].kind = kind}
             f == [i \in hits |-> found[i].target]
  <2>1. S = {f[i] : i \in hits} /\ f \in [hits -> S]
    BY DEF D!Range
  <2>2. DOMAIN imports = 1 .. Len(imports) /\ Len(imports) \in Nat
    OBVIOUS
  <2>3. IsFiniteSet(1 .. Len(imports)) /\ Cardinality(1 .. Len(imports)) = Len(imports)
    BY <2>2, Intervals
  <2>4. hits \subseteq 1 .. Len(imports)
    BY <2>2
  <2> HIDE DEF hits, f, S
  <2>5. IsFiniteSet(hits) /\ Cardinality(hits) <= Len(imports)
    BY <2>3, <2>4, FS_Subset
  <2>6. IsFiniteSet(S) /\ Cardinality(S) <= Cardinality(hits)
    BY <2>1, <2>5, ImageFinite
  <2>7. Cardinality(S) \in Nat /\ Cardinality(hits) \in Nat
    BY <2>5, <2>6, FS_CardinalityType
  <2> QED
    BY <2>2, <2>5, <2>6, <2>7
<1> HIDE DEF S, list, imports
<1>4. list \subseteq S /\ (Cardinality(S) <= params.maxEdges => list = S)
  BY <1>1, FirstOfParts
<1>5. params.maxEdges \in Nat /\ Len(imports) <= params.maxEdges => list = S
  BY <1>3, <1>4
<1> QED
  BY <1>2, <1>4, <1>5, Zenon DEF list, imports

LEMMA FilesArePaths ==
    ASSUME NEW file, IsBelowRoot(file)
    PROVE  IsFilePath(file)
<1>1. file \in Seq(LongNames)
  BY PathsAreLong DEF IsBelowRoot
<1>2. Len(file) > 0
  BY RootAssumption DEF IsBelowRoot
<1>3. \A i \in DOMAIN file : file[i] # D!ParentDir
  BY DEF IsBelowRoot, Range
<1> QED
  BY <1>1, <1>2, <1>3, Zenon DEF IsFilePath

\* The files in scope.
LEMMA ScopeOf ==
    ASSUME NEW p, GraphProjectOK(p), NEW params, NEW files, files = D!Scoped(p, params)
    PROVE  /\ IsListing(files)
           /\ Range(files.allowed) \subseteq Range(p.allowed) /\ Range(files.restricted) \subseteq Range(p.restricted)
           /\ params.scope = D!None => files.allowed = p.allowed /\ files.restricted = p.restricted
<1>1. files.allowed = D!filter_by_scope(p.allowed, params.scope)
      /\ files.restricted = D!filter_by_scope(p.restricted, params.scope)
  BY DEF D!Scoped
<1>2. p.allowed \in Seq(Range(p.allowed)) /\ p.restricted \in Seq(Range(p.restricted))
  BY DEF GraphProjectOK
<1>3. /\ files.allowed \in Seq(Range(p.allowed)) /\ Range(files.allowed) \subseteq Range(p.allowed)
      /\ files.restricted \in Seq(Range(p.restricted)) /\ Range(files.restricted) \subseteq Range(p.restricted)
      /\ params.scope = D!None => files.allowed = p.allowed /\ files.restricted = p.restricted
  BY <1>1, <1>2, ScopedFiles
<1>4. ASSUME NEW T, NEW seq \in Seq(T) PROVE seq \in Seq(Range(seq))
  <2>1. seq = [i \in 1 .. Len(seq) |-> seq[i]] /\ DOMAIN seq = 1 .. Len(seq) /\ Len(seq) \in Nat
    OBVIOUS
  <2>2. \A i \in 1 .. Len(seq) : seq[i] \in Range(seq)
    BY <2>1 DEF Range
  <2> QED
    BY <2>1, <2>2
<1>5. files.allowed \in Seq(Range(files.allowed)) /\ files.restricted \in Seq(Range(files.restricted))
  BY <1>3, <1>4, Zenon
<1>6. \A f \in AllFiles(files) : IsFilePath(f)
  <2>1. \A f \in AllFiles(files) : IsBelowRoot(f)
    BY <1>3, Zenon DEF GraphProjectOK, AllFiles
  <2> QED
    BY <2>1, FilesArePaths, Zenon
<1> QED
  BY <1>3, <1>5, <1>6, Zenon DEF IsListing

\* What a table holds of a file.
LEMMA TableOf ==
    ASSUME NEW p, GraphProjectOK(p), NEW params, params.maxNodes \in Nat,
           NEW files, files = D!Scoped(p, params), NEW t, t = D!build_file_dependencies(p, params)
    PROVE  /\ \A key \in DOMAIN t : /\ Root \o key \in Range(p.allowed)
                                    /\ t[key] = D!DepsOfFile(p, files, params, Root \o key)
           /\ params.scope = D!None /\ Len(p.allowed) <= params.maxNodes =>
                 \A f \in Range(p.allowed) \cap p.disk : D!relative(f) \in DOMAIN t
<1> DEFINE read == D!FilesRead(p, files, params.maxNodes)
           keys == {D!relative(f) : f \in D!Range(read)}
<1>1. t = [key \in keys |-> D!DepsOfFile(p, files, params, Root \o key)]
  BY Zenon DEF D!build_file_dependencies
<1>2. D!Range(read) = Range(read)
  BY SameRange, Zenon
<1>3. /\ files.allowed \in Seq(Range(files.allowed)) /\ Range(files.allowed) \subseteq Range(p.allowed)
      /\ params.scope = D!None => files.allowed = p.allowed
  BY ScopeOf, Zenon DEF IsListing
<1>4. /\ Range(read) \subseteq Range(files.allowed)
      /\ Len(files.allowed) <= params.maxNodes => Range(files.allowed) \cap p.disk \subseteq Range(read)
  BY <1>3, ReadFiles
<1> HIDE DEF read
<1>5. DOMAIN t = keys /\ \A key \in keys : t[key] = D!DepsOfFile(p, files, params, Root \o key)
  BY <1>1
<1>6. ASSUME NEW key \in keys PROVE Root \o key \in Range(p.allowed)
  <2>1. PICK f \in Range(read) : key = D!relative(f)
    BY <1>2
  <2>2. f \in Range(p.allowed)
    BY <1>3, <1>4
  <2>3. IsBelowRoot(f)
    BY <2>2 DEF GraphProjectOK
  <2> QED
    BY <2>1, <2>2, <2>3, RootAndRest, Zenon
<1>7. ASSUME params.scope = D!None, Len(p.allowed) <= params.maxNodes, NEW f \in Range(p.allowed) \cap p.disk
      PROVE  D!relative(f) \in keys
  <2>1. f \in Range(read)
    BY <1>3, <1>4, <1>7
  <2> QED
    BY <1>2, <2>1
<1> HIDE DEF keys
<1> QED
  BY <1>5, <1>6, <1>7, Zenon

\* A dependency of a table on a file of the project is one of its imports.
IsImported(p, key, kind, dep) ==
    /\ dep \in FilesOf(p) /\ (kind = "restricted" <=> dep \in Range(p.restricted))
    /\ \E imp \in Range(p.imports[Root \o key]) : imp.style = "scoped" \/ EndsAs(imp.names, dep)

LEMMA ImportsOf ==
    ASSUME NEW p, GraphProjectOK(p), NEW file \in Range(p.allowed)
    PROVE  /\ IsFilePath(file) /\ p.imports[file] \in Seq(Range(p.imports[file]))
           /\ \A i \in DOMAIN p.imports[file] :
                 /\ p.imports[file][i] \in Range(p.imports[file])
                 /\ p.imports[file][i].names \in Seq(LongNames)
                 /\ p.imports[file][i].style # "relative" => p.imports[file][i].names # <<>>
<1>1. IsBelowRoot(file) /\ p.imports[file] \in Seq(Range(p.imports[file]))
      /\ \A imp \in Range(p.imports[file]) : IsImport(imp)
  BY Zenon DEF GraphProjectOK
<1>2. IsFilePath(file)
  BY <1>1, FilesArePaths
<1>3. ASSUME NEW imp, IsImport(imp)
      PROVE  imp.names \in Seq(LongNames) /\ (imp.style # "relative" => imp.names # <<>>)
  BY <1>3, PathsAreLong DEF IsImport
<1>4. \A i \in DOMAIN p.imports[file] : p.imports[file][i] \in Range(p.imports[file])
  BY DEF Range
<1> QED
  BY <1>1, <1>2, <1>3, <1>4, Zenon

LEMMA DepsAreImports ==
    ASSUME NEW p, GraphProjectOK(p), NEW params, params.maxNodes \in Nat,
           NEW t, t = D!build_file_dependencies(p, params),
           NEW key \in DOMAIN t, NEW kind \in LinkKinds, NEW dep \in t[key][kind]
    PROVE  IsImported(p, key, kind, dep)
<1> DEFINE files == D!Scoped(p, params)
           file == Root \o key
<1>1. file \in Range(p.allowed) /\ t[key] = D!DepsOfFile(p, files, params, file)
  BY TableOf
<1>2. /\ IsListing(files)
      /\ Range(files.allowed) \subseteq Range(p.allowed) /\ Range(files.restricted) \subseteq Range(p.restricted)
  BY ScopeOf, Zenon
<1> HIDE DEF files, file
<1>3. /\ IsFilePath(file) /\ p.imports[file] \in Seq(Range(p.imports[file]))
      /\ \A i \in DOMAIN p.imports[file] :
            /\ p.imports[file][i] \in Range(p.imports[file])
            /\ p.imports[file][i].names \in Seq(LongNames)
            /\ p.imports[file][i].style # "relative" => p.imports[file][i].names # <<>>
  BY <1>1, ImportsOf
<1>4. PICK S : TargetsOf(p, files, file, kind, S) /\ D!DepsOfFile(p, files, params, file)[kind] \subseteq S
  BY <1>3, ListsOfFile, Zenon
<1>5. dep \in S
  BY <1>1, <1>4
<1>6. PICK i \in DOMAIN p.imports[file] :
         /\ D!resolve_import_path(p, files, p.imports[file][i], file).kind = kind
         /\ dep = D!resolve_import_path(p, files, p.imports[file][i], file).target
  BY <1>4, <1>5, Zenon DEF TargetsOf
<1> DEFINE imp == p.imports[file][i]
           r == D!resolve_import_path(p, files, imp, file)
<1>7. imp \in Range(p.imports[file]) /\ imp.names \in Seq(LongNames) /\ (imp.style # "relative" => imp.names # <<>>)
  BY <1>3, <1>6, Zenon
<1>8. r.kind = kind /\ r.target = dep
  BY <1>6, Zenon
<1> HIDE DEF imp
<1>9. LeadsTo(r, files, imp)
  BY <1>2, <1>3, <1>7, <1>8, ImportLeads, Zenon
<1> HIDE DEF r
<1>10. /\ dep \in AllFiles(files)
       /\ kind = "internal" => dep \in Range(files.allowed)
       /\ kind = "restricted" => dep \in Range(files.restricted)
       /\ imp.style = "scoped" \/ EndsAs(imp.names, dep)
  BY <1>8, <1>9, Zenon DEF LeadsTo
<1>11. dep \in FilesOf(p)
  BY <1>2, <1>10 DEF AllFiles, FilesOf
<1>12. kind = "restricted" <=> dep \in Range(p.restricted)
  <2>1. Range(p.allowed) \cap Range(p.restricted) = {}
    BY Zenon DEF GraphProjectOK
  <2>2. kind = "internal" \/ kind = "restricted"
    BY DEF LinkKinds
  <2> QED
    BY <1>2, <1>10, <2>1, <2>2
<1> QED
  BY <1>7, <1>10, <1>11, <1>12, Zenon DEF IsImported, file

\* A relative import of a file is in the table, if no limit cuts it.
LEMMA ImportsAreDeps ==
    ASSUME NEW p, GraphProjectOK(p), NEW params, params.maxNodes \in Nat, params.maxEdges \in Nat,
           params.scope = D!None, Len(p.allowed) <= params.maxNodes,
           NEW from \in Range(p.allowed) \cap p.disk, Len(p.imports[from]) <= params.maxEdges,
           NEW imp \in Range(p.imports[from]), imp.style = "relative", Named(from, imp) \in FilesOf(p),
           NEW t, t = D!build_file_dependencies(p, params)
    PROVE  From(t, D!relative(from), Named(from, imp))
<1> DEFINE files == D!Scoped(p, params)
           key == D!relative(from)
           path == Named(from, imp)
           r == D!resolve_import_path(p, files, imp, from)
<1>1. IsListing(files) /\ AllFiles(files) = FilesOf(p)
  <2>1. IsListing(files) /\ files.allowed = p.allowed /\ files.restricted = p.restricted
    BY ScopeOf, Zenon
  <2> QED
    BY <2>1, Zenon DEF AllFiles, FilesOf
<1>2. Root \o key = from
  <2>1. IsBelowRoot(from)
    BY DEF GraphProjectOK
  <2> QED
    BY <2>1, RootAndRest
<1>3. key \in DOMAIN t /\ t[key] = D!DepsOfFile(p, files, params, Root \o key)
  BY TableOf
<1> HIDE DEF files, key, path
<1>4. /\ IsFilePath(from) /\ p.imports[from] \in Seq(Range(p.imports[from]))
      /\ \A i \in DOMAIN p.imports[from] : p.imports[from][i].names \in Seq(LongNames)
  BY ImportsOf
<1>5. PICK i \in DOMAIN p.imports[from] : imp = p.imports[from][i]
  BY DEF Range
<1>6. imp.names \in Seq(LongNames)
  BY <1>4, <1>5, Zenon
<1>7. r.kind \in LinkKinds /\ r.target = path
  BY <1>1, <1>4, <1>6, RelativeFinds, Zenon DEF path
<1>8. t[key] = D!DepsOfFile(p, files, params, from)
  BY <1>2, <1>3, Zenon
<1>9. path \in t[key][r.kind]
  <2> DEFINE kind == r.kind
  <2>1. kind \in LinkKinds
    BY <1>7, Zenon
  <2> HIDE DEF kind
  <2>2. PICK S : TargetsOf(p, files, from, kind, S) /\ D!DepsOfFile(p, files, params, from)[kind] = S
    BY <1>4, <2>1, ListsOfFile
  <2>3. path \in S
    BY <1>5, <1>7, <2>2, Zenon DEF TargetsOf, kind
  <2> QED
    BY <1>8, <2>2, <2>3, Zenon DEF kind
<1> HIDE DEF r
<1>10. path \in t[key].internal \cup t[key].restricted
  BY <1>7, <1>9 DEF LinkKinds
<1> QED
  BY <1>3, <1>10, Zenon DEF From, key, path

LEMMA LimitsOf ==
    ASSUME NEW r, GraphRequestOK(r), NEW params, params = D!from_args(r.args)
    PROVE  /\ params.maxNodes \in Nat /\ params.maxEdges \in Nat
           /\ params.scope = r.args.scope /\ params.depth = r.args.depth
           /\ params.depth = D!None \/ params.depth[1] \in Nat
<1>1. ASSUME NEW arg, arg = <<>> \/ arg[1] \in Nat, NEW default \in Nat, NEW maximum \in Nat
      PROVE  D!bounded_limit(arg, default, maximum) \in Nat
  BY <1>1 DEF D!bounded_limit, D!None
<1>2. \A limit \in {"maxNodes", "maxEdges", "depth"} : r.args[limit] = <<>> \/ r.args[limit][1] \in Nat
  BY DEF GraphRequestOK
<1>3. /\ params.maxNodes = D!bounded_limit(r.args.maxNodes, 100, 200)
      /\ params.maxEdges = D!bounded_limit(r.args.maxEdges, 50, 100)
      /\ params.scope = r.args.scope /\ params.depth = r.args.depth
  BY DEF GraphRequestOK, D!from_args
<1>4. params.maxNodes \in Nat /\ params.maxEdges \in Nat
  <2>1. 100 \in Nat /\ 200 \in Nat /\ 50 \in Nat
    OBVIOUS
  <2>2. r.args.maxNodes = <<>> \/ r.args.maxNodes[1] \in Nat
    BY <1>2
  <2>3. r.args.maxEdges = <<>> \/ r.args.maxEdges[1] \in Nat
    BY <1>2
  <2>4. D!bounded_limit(r.args.maxNodes, 100, 200) \in Nat
    BY <1>1, <2>1, <2>2, Zenon
  <2>5. D!bounded_limit(r.args.maxEdges, 50, 100) \in Nat
    BY <1>1, <2>1, <2>3, Zenon
  <2> QED
    BY <1>3, <2>4, <2>5, Zenon
<1> QED
  BY <1>2, <1>3, <1>4 DEF D!None

\* An edge between files that an answer shows is one of its table, unless a name is hidden.
LEMMA ShownLinks ==
    ASSUME NEW deps, NEW mode, NEW bytes, NEW budget, NEW secrets, NEW g,
           ShownOf(D!ensure_budget(D!NodesOf(deps, mode), D!EdgesOf(deps, mode), bytes, budget), secrets, g),
           NEW e \in FileEdges(g), Legible(e)
    PROVE  /\ e.label \in LinkKinds /\ e.source \in DOMAIN deps /\ e.target \in deps[e.source][e.label]
<1> DEFINE nodes == D!NodesOf(deps, mode)
           edges == D!EdgesOf(deps, mode)
           kept == D!ensure_budget(nodes, edges, bytes, budget)
<1> HIDE DEF nodes, edges
<1>1. kept.edges \subseteq edges
  BY DEF D!ensure_budget
<1> HIDE DEF kept
<1>2. PICK f \in kept.edges : e = CleanEdge(f, secrets)
  BY DEF ShownOf, FileEdges, kept, nodes, edges
<1>3. f \in edges
  BY <1>1
<1>4. e.source = Clean(f.source, secrets) /\ e.target = Clean(f.target, secrets) /\ e.label = f.label
  BY <1>2, CleanEdgeParts
<1>5. e.label \in LinkKinds
  BY DEF FileEdges, LinkKinds
<1>6. IsLink(f, deps)
  BY <1>3, <1>4, <1>5, EdgesByLabel DEF edges
<1>7. e.source = f.source /\ e.target = f.target
  BY <1>4, Zenon DEF Clean, Legible
<1>8. PICK key \in DOMAIN deps : \E kind \in LinkKinds : \E dep \in deps[key][kind] : f = D!Edge(key, dep, kind)
  BY <1>6, Zenon DEF IsLink
<1>9. PICK kind \in LinkKinds : \E dep \in deps[key][kind] : f = D!Edge(key, dep, kind)
  BY <1>8, Zenon
<1>10. PICK dep \in deps[key][kind] : f = D!Edge(key, dep, kind)
  BY <1>9, Zenon
<1>11. f.source = key /\ f.target = dep /\ f.label = kind
  BY <1>10 DEF D!Edge
<1> QED
  BY <1>4, <1>5, <1>7, <1>8, <1>10, <1>11, Zenon

\* Edges between files are imports (resolve_import_path, deps_graph/imports.rs): for
\* every project and request, an edge ends at a file of the index, is called restricted
\* exactly if .mcpignore hides that file, and is of an import that names it; and unless a
\* limit cuts the graph, no relative import of a file of the index goes without an edge.
THEOREM EdgesAreOfImports == Spec => []EdgesAreImports
<1>1. GraphInv => EdgesAreImports
  <2> DEFINE p == Req.project
             args == Req.args
             params == D!from_args(args)
             t == D!build_file_dependencies(p, params)
             deps == D!Table(p, params)
             Imports(key) == Range(p.imports[Root \o key])
  <2> SUFFICES ASSUME GraphInv, Answered("get_dependencies_graph"), args.direction = "outbound"
               PROVE  /\ \A e \in FileEdges(Ans) : Legible(e) =>
                            /\ e.target \in FilesOf(p)
                            /\ e.label = "restricted" <=> e.target \in Range(p.restricted)
                            /\ \E imp \in Imports(e.source) :
                                  \/ imp.style = "scoped" \/ imp.names = <<>> \/ Last(imp.names) = D!ParentDir
                                  \/ Last(imp.names)[1] = Last(e.target)[1]
                      /\ Uncut(p, args, Ans) =>
                            \A from \in Range(p.allowed) \cap p.disk : \A imp \in Range(p.imports[from]) :
                               imp.style = "relative" /\ Named(from, imp) \in FilesOf(p) =>
                                  <<Shown(D!relative(from), p), Shown(Named(from, imp), p)>> \in Ends(FileEdges(Ans))
    BY Zenon DEF EdgesAreImports
  <2>1. GraphRequestOK(Req) /\ Ans \in D!get_dependencies_graph(p, args)
    BY GraphsAssumption DEF GraphInv, Answered, GraphRequest
  <2>2. GraphProjectOK(p)
    BY <2>1 DEF GraphRequestOK
  <2>3. /\ params.maxNodes \in Nat /\ params.maxEdges \in Nat
        /\ params.scope = args.scope /\ params.depth = args.depth
        /\ params.depth = D!None \/ params.depth[1] \in Nat
    BY <2>1, LimitsOf
  <2>4. params.direction = "outbound"
    BY <2>1, ParamsOf
  <2>5. ShownOf(D!ensure_budget(D!NodesOf(deps, params.mode), D!EdgesOf(deps, params.mode),
                                params.bytes, params.budget), p.secrets, Ans)
    BY <2>1, GraphOfTable
  <2>6. D!Directed(t, params.direction) = t
    BY <2>4 DEF D!Directed
  <2>7. deps = D!apply_depth_limit(t, params)
    BY <2>6, Zenon DEF D!Table
  <2> HIDE DEF p, args, params, t, deps
  <2>8. DOMAIN deps \subseteq DOMAIN t /\ \A key \in DOMAIN deps : deps[key] = t[key]
    BY <2>3, <2>7, DepthKeeps
  <2>9. ASSUME NEW e \in FileEdges(Ans), Legible(e)
        PROVE  /\ e.target \in FilesOf(p)
               /\ e.label = "restricted" <=> e.target \in Range(p.restricted)
               /\ \E imp \in Imports(e.source) :
                     \/ imp.style = "scoped" \/ imp.names = <<>> \/ Last(imp.names) = D!ParentDir
                     \/ Last(imp.names)[1] = Last(e.target)[1]
    <3>1. e.label \in LinkKinds /\ e.source \in DOMAIN deps /\ e.target \in deps[e.source][e.label]
      BY <2>5, <2>9, ShownLinks
    <3>2. e.source \in DOMAIN t /\ e.target \in t[e.source][e.label]
      BY <2>8, <3>1
    <3>3. IsImported(p, e.source, e.label, e.target)
      BY <2>2, <2>3, <3>1, <3>2, DepsAreImports DEF t
    <3> QED
      BY <3>3, Zenon DEF IsImported, EndsAs, Last
  <2>10. ASSUME Uncut(p, args, Ans), NEW from \in Range(p.allowed) \cap p.disk,
                NEW imp \in Range(p.imports[from]), imp.style = "relative", Named(from, imp) \in FilesOf(p)
         PROVE  <<Shown(D!relative(from), p), Shown(Named(from, imp), p)>> \in Ends(FileEdges(Ans))
    <3>1. /\ args.depth = <<>> /\ args.scope = <<>> /\ ~Ans.truncated /\ Len(p.allowed) <= params.maxNodes
          /\ \A f \in Range(p.allowed) : Len(p.imports[f]) <= params.maxEdges
      BY <2>10, Zenon DEF Uncut, params
    <3>2. params.depth = <<>> /\ params.scope = D!None /\ Len(p.imports[from]) <= params.maxEdges
      BY <2>3, <3>1 DEF D!None
    <3>3. From(t, D!relative(from), Named(from, imp))
      BY <2>2, <2>3, <2>10, <3>1, <3>2, ImportsAreDeps DEF t
    <3>4. Shows(Ans, t, params.mode, p.secrets)
      BY <2>1, <2>6, <3>1, <3>2, WholeGraph DEF t, params
    <3>5. AreEnds(Ends(FileEdges(Ans)), t, p.secrets)
      BY <3>4, EndsOfLinks DEF Shows
    <3>6. \A name : Shown(name, p) = Clean(name, p.secrets)
      BY DEF Shown, Clean
    <3> QED
      BY <3>3, <3>5, <3>6, Zenon DEF AreEnds
  <2> QED
    BY <2>9, <2>10, Zenon
<1>2. GraphInv /\ [Next]_vars => GraphInv'
  BY GraphNext
<1> QED
  BY GraphInit, <1>1, <1>2, PTL DEF Spec

================================================================================
