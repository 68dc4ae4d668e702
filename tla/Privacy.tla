-------------------------------- MODULE Privacy --------------------------------
(***************************************************************************)
(* The sanitizer and the privacy gateway: what is replaced in texts,       *)
(* configuration files, the source of functions and JSON results, and the  *)
(* cache of the compiled custom patterns.                                  *)
(*                                                                         *)
(* A text is a sequence of lines, a line a sequence of pieces.  A piece    *)
(* has the labels of the patterns that match it, as a whole, and of those  *)
(* that a notice in its place matches or completes a match of with what is *)
(* around it; "//" opens a comment, and "sensitive" pieces are the words   *)
(* looked for in comments.  Matches that overlap are one piece, and which  *)
(* of the text around a notice goes with it is not followed.               *)
(***************************************************************************)
EXTENDS Integers, FiniteSets, Sequences, SequencesExt, Listing

NoticeName == "[REDACTED_BY_MCP]"
CommentNoticeName == "// [COMMENT REDACTED BY MCP]"

PiecesNamed(names) == [name : names, matches : SUBSET STRING, completes : SUBSET STRING]
Piece == PiecesNamed(STRING) \cup PiecesNamed({NoticeName, CommentNoticeName, "placeholder"})
Plain(name) == [name |-> name, matches |-> {}, completes |-> {}]
Redacted == Plain(NoticeName)
CommentRedacted == Plain(CommentNoticeName)
Placeholder == Plain("placeholder")
KeyRedacted == <<<<Plain("[REDACTED]")>>>>

Line == Seq(Piece)
Text == Seq(Line)

SECRET_PATTERNS == <<"OPENAI_KEY", "AWS_ACCESS_KEY", "JWT_TOKEN", "DB_CONNECTION_URI", "PRIVATE_IP",
                     "GITHUB_TOKEN", "GENERIC_SECRET", "PEM_PRIVATE_KEY", "INTERNAL_HOSTNAME">>

Pieces(text) == UNION {Range(text[n]) : n \in DOMAIN text}
InText(text, label) == \E piece \in Pieces(text) : label \in piece.matches

\* What comes in the place of a piece may match in its turn.
InPlaceOf(piece) == [name |-> NoticeName, matches |-> piece.completes, completes |-> piece.completes]

Replaced(text, label) ==
    Mapped(text, LAMBDA line : Mapped(line, LAMBDA p : IF label \in p.matches THEN InPlaceOf(p) ELSE p))

\* The text that each pattern finds and leaves, one after the other.
Passes(text, labels) ==
    LET Left[n \in 0 .. Len(labels)] == IF n = 0 THEN text ELSE Replaced(Left[n - 1], labels[n])
    IN Left

\* What the last pattern leaves, and the labels of those that fired.
RedactEach(text, labels) ==
    LET left == Passes(text, labels)
        fires == Where([n \in DOMAIN labels |-> n], LAMBDA n : InText(left[n - 1], labels[n]))
    IN [text |-> left[Len(labels)], fired |-> [i \in DOMAIN fires |-> labels[fires[i]]]]

sanitize_text(text) == RedactEach(text, SECRET_PATTERNS)

(***************************************************************************)
(* Configuration files.  A line is blank, a comment, a pair of a key and a *)
(* value, or neither; its pieces are those of the value or of the line.    *)
(***************************************************************************)
\* Every IPv4 address but the loopback and 0.0.0.0 as well.
redact_config_value(pieces) ==
    LET secrets == sanitize_text(<<pieces>>)
        ips == Mapped(secrets.text[1], LAMBDA p :
                   IF "CONFIG_IPV4" \in p.matches /\ p.name \notin {"127.0.0.1", "0.0.0.0"}
                   THEN InPlaceOf(p) ELSE p)
    IN [pieces |-> ips,
        fired |-> secrets.fired \o IF ips = secrets.text[1] THEN <<>> ELSE <<"CONFIG_IPV4">>]

sanitize_config_line(line) ==
    LET value == redact_config_value(line.pieces)
    IN IF line.kind \in {"blank", "comment"} \/ line.pieces = <<>> THEN [line |-> line, fired |-> <<>>]
       ELSE IF line.kind = "pair" /\ line.sensitiveKey
       THEN [line |-> [line EXCEPT !.pieces = <<Redacted>>], fired |-> <<"CONFIG_SENSITIVE_KEY">>]
       ELSE [line |-> [line EXCEPT !.pieces = value.pieces], fired |-> value.fired]

sanitize_config_text(lines) ==
    LET done == Mapped(lines, sanitize_config_line)
    IN [lines |-> Mapped(done, LAMBDA d : d.line), fired |-> FlattenSeq(Mapped(done, LAMBDA d : d.fired))]

is_config_file(path) ==
    path.extension \in {"properties", "yaml", "yml", "toml", "env"} \/ path.dotenv

(***************************************************************************)
(* The source of functions.                                                *)
(***************************************************************************)
\* From the first "//" of a line that a sensitive word follows to the last such word.
StripLine(line) ==
    LET words == {i \in DOMAIN line : line[i].name = "sensitive"}
        starts == {i \in DOMAIN line : line[i].name = "//" /\ \E j \in words : j > i}
        first == CHOOSE i \in starts : \A j \in starts : i <= j
        last == CHOOSE i \in words : \A j \in words : i >= j
    IN IF starts = {} THEN line
       ELSE SubSeq(line, 1, first - 1) \o <<CommentRedacted>> \o SubSeq(line, last + 1, Len(line))

strip_sensitive_comments(text) == Mapped(text, StripLine)

\* The lines of the range, when it is one of the text, for the placeholder.
strip_body_by_range(text, range) ==
    IF range[1] > range[2] \/ range[2] > Len(text) THEN text
    ELSE SubSeq(text, 1, range[1]) \o <<<<Placeholder>>>> \o SubSeq(text, range[2] + 1, Len(text))

(***************************************************************************)
(* The custom patterns of the settings, and the gateway.                   *)
(***************************************************************************)
\* Those of the environment, then those of the file it names, when that can be read.
load_dynamic_overrides(settings) ==
    settings.environment \o IF settings.readable THEN settings.file ELSE <<>>

\* A pattern that is no regular expression is ignored.
compile_privacy_rules(overrides) == Where(overrides, LAMBDA pattern : pattern # "invalid")

\* Mutant: compiled once.
CompiledOnce(cache, overrides) ==
    IF cache # <<>> THEN cache ELSE <<[overrides |-> overrides, rules |-> compile_privacy_rules(overrides)]>>

\* The compiled rules are kept with the overrides they were compiled from.
compiled_privacy_rules(cache, overrides) ==
    IF cache # <<>> /\ cache[1].overrides = overrides THEN cache
    ELSE <<[overrides |-> overrides, rules |-> compile_privacy_rules(overrides)]>>

sanitize_text_with_dynamic_patterns(text, rules) ==
    LET builtin == sanitize_text(text)
        custom == RedactEach(builtin.text, rules)
    IN [text |-> custom.text, fired |-> builtin.fired \o custom.fired]

sanitize_function_source(text, rules) ==
    sanitize_text_with_dynamic_patterns(strip_sensitive_comments(text), rules)

SensitiveKeys == {"api_key", "password", "token", "secret", "authorization", "private_key"}

(***************************************************************************)
(* A JSON value has a leaf at each path of keys and places in lists: a     *)
(* text, or a number, boolean or null.                                     *)
(***************************************************************************)
IsSensitive(path) == \E i \in DOMAIN path : path[i] \in SensitiveKeys
TextsToClean(value) ==
    {value[path].text : path \in {p \in DOMAIN value : value[p].kind = "text" /\ ~IsSensitive(p)}}

\* Up to the first sensitive key: what is below it goes.
Cut(path) ==
    IF ~IsSensitive(path) THEN path
    ELSE SubSeq(path, 1, CHOOSE i \in DOMAIN path : /\ path[i] \in SensitiveKeys
                                                    /\ \A j \in 1 .. i - 1 : path[j] \notin SensitiveKeys)

\* rules: the compiled rules each of the texts is cleaned with.
sanitize_json_args(value, rules) ==
    [path \in {Cut(p) : p \in DOMAIN value} |->
        IF IsSensitive(path) THEN [kind |-> "text", text |-> KeyRedacted]
        ELSE IF value[path].kind = "text"
        THEN [kind |-> "text", text |-> sanitize_text_with_dynamic_patterns(value[path].text, rules[value[path].text]).text]
        ELSE value[path]]
================================================================================
