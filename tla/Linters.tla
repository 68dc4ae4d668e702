-------------------------------- MODULE Linters --------------------------------
(***************************************************************************)
(* What the linters of a file answer: the checks of level 1 on the text of *)
(* the file, the external linter of its language with the outcomes of its  *)
(* process, and the merge of both; and the excerpt of a symbol.            *)
(*                                                                         *)
(* A printed message carries its level ("" when it has none), its rule and *)
(* its spans, all but clippy's with one span; 0 is a number that does not  *)
(* parse.  A line of source is a sequence of characters, where the text a  *)
(* rule looks for, and a marker, count as one.                             *)
(***************************************************************************)
EXTENDS Integers, FiniteSets, Sequences, SequencesExt, Listing

CONSTANT ProjectRoot  \* the path of the project, a sequence of names

Diagnostic(line, column, severity, rule, source) ==
    [line |-> line, column |-> column, severity |-> severity, rule |-> rule, source |-> source]
Result(diagnostics, sources, error) ==
    [diagnostics |-> diagnostics, sources |-> sources, error |-> error]
OrOne(n) == IF n = 0 THEN 1 ELSE n

(***************************************************************************)
(* Level 1.                                                                *)
(***************************************************************************)
Markers == {"TODO", "FIXME", "HACK"}

language_rules(language) ==
    CASE language \in {"javascript", "typescript", "tsx"} -> <<"console.log(", "debugger;">>
      [] language = "python" -> <<"print(", "import *">>
      [] language = "java" -> <<"System.out.println(">>
      [] language = "rust" -> <<"unwrap()", "dbg!(", "println!(">>
      [] OTHER -> <<>>

is_line_comment_start(line, i, language) ==
    CASE language = "python" -> line[i] = "#"
      [] language \in {"rust", "javascript", "typescript", "tsx", "java", "c", "csharp"} ->
            i < Len(line) /\ line[i] = "/" /\ line[i + 1] = "/"
      [] OTHER -> FALSE

\* A line is in code, in a literal of a quote, after a backslash of it, or in a comment;
\* seen are the positions of code.
Reading(mode, quote, seen) == [mode |-> mode, quote |-> quote, seen |-> seen]
\* Mutant: an escaped quote ends a string.
ReadOnUnescaped(s, line, i, language) ==
    CASE s.mode = "comment" -> s
      [] s.mode = "literal" -> IF line[i] = s.quote THEN Reading("code", "", s.seen) ELSE s
      [] OTHER ->
            IF is_line_comment_start(line, i, language) THEN Reading("comment", "", s.seen)
            ELSE IF line[i] \in {"'", "\""} THEN Reading("literal", line[i], s.seen)
            ELSE Reading("code", "", s.seen \cup {i})

ReadOn(s, line, i, language) ==
    CASE s.mode = "comment" -> s
      [] s.mode = "escape" -> Reading("literal", s.quote, s.seen)
      [] s.mode = "literal" ->
            IF line[i] = "\\" THEN Reading("escape", s.quote, s.seen)
            ELSE IF line[i] = s.quote THEN Reading("code", "", s.seen) ELSE s
      [] OTHER ->
            IF is_line_comment_start(line, i, language) THEN Reading("comment", "", s.seen)
            ELSE IF line[i] \in {"'", "\""} THEN Reading("literal", line[i], s.seen)
            ELSE Reading("code", "", s.seen \cup {i})

\* What is known before the first character and after each.
Readings(line, language) ==
    LET After[i \in 0 .. Len(line)] ==
            IF i = 0 THEN Reading("code", "", {}) ELSE ReadOn(After[i - 1], line, i, language)
    IN After

\* The positions of a line that are neither in a string nor in a comment.
sanitized_line_for_matching(line, language) == Readings(line, language)[Len(line)].seen

run_tree_sitter_checks(source, language) ==
    LET rules == language_rules(language)
        OfLine(n) ==
            LET line == source[n]
                seen == sanitized_line_for_matching(line, language)
                Columns(rule) == {i \in seen : line[i] = rule}
                Marked == IF Range(line) \cap Markers = {} THEN <<>>
                          ELSE <<Diagnostic(n, 1, "INFO", "marker", "tree-sitter")>>
                Of(rule) == IF Columns(rule) = {} THEN <<>>
                            ELSE <<Diagnostic(n, CHOOSE i \in Columns(rule) : \A j \in Columns(rule) : i <= j,
                                              "WARN", rule, "tree-sitter")>>
            IN Marked \o FlattenSeq(Mapped(rules, Of))
    IN FlattenSeq([n \in DOMAIN source |-> OfLine(n)])

(***************************************************************************)
(* The external linters.  The output of a process: its outcome, its exit   *)
(* code (-1 after a signal) and the messages of its two streams.           *)
(***************************************************************************)
\* Equal, or ending with the target's path in the project.
path_matches_target(file, target) ==
    LET candidate == IF file.absolute THEN file.path ELSE ProjectRoot \o file.path
        inProject == SubSeq(target, Len(ProjectRoot) + 1, Len(target))
    IN file.path # <<>> /\ IsSuffix(inProject, candidate)

map_severity(level) ==
    CASE level = "error" -> "ERROR"
      [] level \in {"warning", "warn", "style", "performance", "portability"} -> "WARN"
      [] OTHER -> "INFO"

map_eslint_severity(level) ==
    CASE level = "error" -> "ERROR" [] level \in {"warning", ""} -> "WARN" [] OTHER -> "INFO"

\* The messages whose span is of the target and that Accepts, as diagnostics.
Parsed(messages, target, Accepts(_), ToDiagnostic(_, _)) ==
    LET about == Where(messages, LAMBDA m : /\ m.shape = "message"
                                            /\ path_matches_target(m.spans[1].file, target)
                                            /\ Accepts(m))
    IN Mapped(about, LAMBDA m : ToDiagnostic(m, m.spans[1]))

\* The first primary span of the target.
parse_clippy_output(messages, target) ==
    LET Of(m) == Where(m.spans, LAMBDA s : s.primary /\ path_matches_target(s.file, target))
        about == Where(messages, LAMBDA m : m.shape = "message" /\ Of(m) # <<>>)
    IN Mapped(about, LAMBDA m : Diagnostic(OrOne(Of(m)[1].line), OrOne(Of(m)[1].column),
                                           map_severity(m.level), m.rule, "clippy"))

\* One JSON value: anything else on the stream and nothing is read.
parse_eslint_output(messages, target) ==
    IF \E i \in DOMAIN messages : messages[i].shape # "message" THEN <<>>
    ELSE Parsed(messages, target, LAMBDA m : TRUE, LAMBDA m, s :
             Diagnostic(OrOne(s.line), OrOne(s.column), map_eslint_severity(m.level), m.rule, "eslint"))

parse_mypy_output(messages, target) ==
    Parsed(messages, target, LAMBDA m : m.level # "", LAMBDA m, s :
        Diagnostic(OrOne(s.line), OrOne(s.column), map_severity(m.level), m.rule, "mypy"))

parse_javac_output(messages, target) ==
    Parsed(messages, target, LAMBDA m : m.spans[1].line # 0 /\ m.level \in {"error", "warning"},
        LAMBDA m, s : Diagnostic(s.line, 1, map_severity(m.level), m.level, "javac"))

HasPosition(m) == m.spans[1].line # 0 /\ m.spans[1].column # 0

parse_ktlint_output(messages, target) ==
    Parsed(messages, target, HasPosition, LAMBDA m, s :
        Diagnostic(s.line, s.column, "WARN", m.rule, "ktlint"))

parse_kotlinc_output(messages, target) ==
    Parsed(messages, target, LAMBDA m : HasPosition(m) /\ m.level \in {"error", "warning"},
        LAMBDA m, s : Diagnostic(s.line, s.column, map_severity(m.level), m.level, "kotlinc"))

parse_cppcheck_output(messages, target) ==
    Parsed(messages, target, LAMBDA m : m.spans[1].line # 0, LAMBDA m, s :
        Diagnostic(s.line, OrOne(s.column), map_severity(m.level), m.rule, "cppcheck"))

parse_dotnet_output(messages, target) ==
    Parsed(messages, target, LAMBDA m : HasPosition(m) /\ m.level \in {"error", "warning"},
        LAMBDA m, s : Diagnostic(s.line, s.column, map_severity(m.level), m.rule, "dotnet"))

with_notice(linter, rule) == Result(<<Diagnostic(1, 1, "INFO", rule, linter)>>, <<linter>>, {})
combine_streams(output) == output.stdout \o output.stderr

\* Mutant: the notices and errors of a process are dropped with it.
FinishedQuietly(linter, output, diagnostics) ==
    Result(IF output.outcome = "done" THEN diagnostics ELSE <<>>, <<linter>>, {})

\* The result of a linter whose process did not end, or ended with these diagnostics.
Finished(linter, output, diagnostics) ==
    CASE output.outcome = "missing" -> with_notice(linter, "unavailable")
      [] output.outcome = "timeout" -> with_notice(linter, "timeout")
      [] output.outcome = "failed" -> Result(<<>>, <<>>, {"failed to execute"})
      [] OTHER -> Result(diagnostics, <<linter>>, IF output.code > 1 THEN {"exited"} ELSE {})

run_clippy(output, path) ==
    Finished("clippy", output.clippy, parse_clippy_output(output.clippy.stdout, path))
run_eslint(output, path) ==
    Finished("eslint", output.eslint, parse_eslint_output(output.eslint.stdout, path))
run_mypy(output, path) ==
    Finished("mypy", output.mypy, parse_mypy_output(output.mypy.stdout, path))
run_javac(output, path) ==
    Finished("javac", output.javac, parse_javac_output(combine_streams(output.javac), path))
run_kotlinc(output, path) ==
    Finished("kotlinc", output.kotlinc, parse_kotlinc_output(combine_streams(output.kotlinc), path))
\* Without ktlint, the compiler.
run_ktlint(output, path) ==
    IF output.ktlint.outcome = "missing" THEN run_kotlinc(output, path)
    ELSE Finished("ktlint", output.ktlint, parse_ktlint_output(combine_streams(output.ktlint), path))
run_cppcheck(output, path) ==
    Finished("cppcheck", output.cppcheck, parse_cppcheck_output(combine_streams(output.cppcheck), path))

\* Whether a directory from the file's up to the root holds a .csproj or .sln.
find_nearest_project_file(path, projectDirs) ==
    \E n \in Len(ProjectRoot) .. Len(path) - 1 : SubSeq(path, 1, n) \in projectDirs

run_dotnet_build(output, path, projectDirs) ==
    IF ~find_nearest_project_file(path, projectDirs) THEN with_notice("dotnet", "project-missing")
    ELSE Finished("dotnet", output.dotnet, parse_dotnet_output(combine_streams(output.dotnet), path))

run_external(output, path, language, projectDirs) ==
    CASE language = "rust" -> run_clippy(output, path)
      [] language \in {"javascript", "typescript", "tsx"} -> run_eslint(output, path)
      [] language = "python" -> run_mypy(output, path)
      [] language = "java" -> run_javac(output, path)
      [] language = "kotlin" -> run_ktlint(output, path)
      [] language = "c" -> run_cppcheck(output, path)
      [] language = "csharp" -> run_dotnet_build(output, path, projectDirs)
      [] OTHER -> Result(<<>>, <<>>, {})

(***************************************************************************)
(* The answers.                                                            *)
(***************************************************************************)
Sources == <<"clippy", "cppcheck", "dotnet", "eslint", "javac", "kotlinc", "ktlint", "mypy", "tree-sitter">>
Earlier(d, e) ==
    \/ d.line < e.line
    \/ d.line = e.line /\ d.column < e.column
    \/ d.line = e.line /\ d.column = e.column
       /\ \E i, j \in DOMAIN Sources : i < j /\ d.source = Sources[i] /\ e.source = Sources[j]

InOrder(diagnostics) ==
    LET Before(i, j) == \/ Earlier(diagnostics[i], diagnostics[j])
                        \/ ~Earlier(diagnostics[j], diagnostics[i]) /\ i < j
    IN Sorted(diagnostics, Before)

build_result(file, enabled, output) ==
    LET external == IF enabled THEN run_external(output, file.path, file.language, file.projectDirs)
                    ELSE Result(<<>>, <<>>, {})
    IN Result(InOrder(run_tree_sitter_checks(file.source, file.language) \o external.diagnostics),
              <<"tree-sitter">> \o external.sources, external.error)

\* The diagnostics of the lines of a symbol, how many are left out, and their sources.
render_lint_summary_scoped(result, first, last, max) ==
    LET scoped == Where(result.diagnostics, LAMBDA d : d.line >= first /\ d.line <= last)
        shown == IF Len(scoped) > max THEN max ELSE Len(scoped)
    IN IF scoped = <<>> \/ max = 0 THEN <<>>
       ELSE <<[shown |-> SubSeq(scoped, 1, shown), more |-> Len(scoped) - shown,
               sources |-> {scoped[i].source : i \in DOMAIN scoped}]>>
================================================================================
