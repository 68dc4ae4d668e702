----------------------------- MODULE SecurityAudit -----------------------------
(***************************************************************************)
(* audit_security_measures as a function of the indexed files: the hits of *)
(* the detectors, where a finding counts, what is taken for a duplicate,   *)
(* and what the report and its JSON summary tell.                          *)
(*                                                                         *)
(* A file has a path, a language and lines; a line has the types of the    *)
(* secrets in it, the constructs of its syntax tree, and whether it        *)
(* concatenates SQL. A path has directories, a file and those of the       *)
(* detectors' endings that it ends in, a component of it a name and marks: *)
(* "*tests" ends in tests, "*_test.*" contains _test., "test_*" begins     *)
(* with test_. A backslash separates components as a '/' does.             *)
(***************************************************************************)
EXTENDS SequencesExt, Listing

Severities == {"critical", "high", "medium"}
Contexts == {"production", "test", "fixture", "detector_definition"}

Finding(rule, severity, confidence, path, line, description) ==
    [rule |-> rule, severity |-> severity, confidence |-> confidence,
     path |-> path, line |-> line, description |-> description]

\* What the code looks for in the whole path: "tests/fixtures/" within it, then the names
\* of the detectors and of documents at its end, then "tests/" as a directory, "_test."
\* anywhere, "/test_" and "/tests.rs", which the first component cannot match.
classify_context(path) ==
    LET dirs == path.dirs
        components == Append(dirs, path.file)
    IN IF \E i \in 1 .. Len(dirs) - 1 : "*tests" \in dirs[i].marks /\ dirs[i + 1].name = "fixtures" THEN "fixture"
       ELSE IF path.ends # {} THEN "detector_definition"
       ELSE IF \/ \E i \in DOMAIN dirs : dirs[i].name = "tests"
               \/ \E i \in DOMAIN components : LET marks == components[i].marks
                                              IN "*_test.*" \in marks \/ (i > 1 /\ "test_*" \in marks)
               \/ (dirs # <<>> /\ path.file.name = "tests.rs")
            THEN "test"
       ELSE "production"

\* The constructs the queries of a language look for, in order, and their kind.
Queries(language) ==
    LET Query(construct, kind) == [construct |-> construct, kind |-> kind]
    IN CASE language = "rust" ->
              <<Query("unsafe_block", "rust-unsafe"), Query("unsafe_fn", "rust-unsafe"),
                Query("asm", "rust-unsafe"), Query("panic_call", "rust-unsafe"),
                Query("unsafe_block", "rust-unsafe")>>
         [] language \in {"javascript", "typescript", "tsx"} ->
              <<Query("eval", "dynamic-execution"), Query("new_function", "dynamic-execution"),
                Query("inner_html", "insecure-assignment")>>
         [] language = "python" ->
              <<Query("eval", "dynamic-execution"), Query("shell_true", "dynamic-execution")>>
         [] language = "none" -> <<>>
         [] OTHER -> <<Query("eval", "dynamic-execution")>>

\* Of a Rust query only whether it captures the name of a function is described.
Describe(query) ==
    IF query.kind = "rust-unsafe" THEN IF query.construct = "unsafe_fn" THEN "unsafe fn" ELSE "unsafe block"
    ELSE query.construct

\* The numbers of the lines with a hit: each once for each hit that it has.
Hits(counts) == FlattenSeq([n \in DOMAIN counts |-> [i \in 1 .. counts[n] |-> n]])
Occurrences(seq, x) == Cardinality({i \in DOMAIN seq : seq[i] = x})

audit_file_ast(file) ==
    LET OfQuery(q) ==
            LET hits == Hits([n \in DOMAIN file.lines |-> Occurrences(file.lines[n].constructs, q.construct)])
            IN [i \in DOMAIN hits |-> Finding(q.kind, "high", "high", file.path, hits[i], Describe(q))]
        queries == Queries(file.language)
    IN FlattenSeq([i \in DOMAIN queries |-> OfQuery(queries[i])])

SecretTypes == <<"OPENAI_KEY", "AWS_ACCESS_KEY", "JWT_TOKEN", "DB_CONNECTION_URI", "PRIVATE_IP",
                 "GITHUB_TOKEN", "GENERIC_SECRET", "PEM_PRIVATE_KEY", "INTERNAL_HOSTNAME">>

detect_all_secrets(file) ==
    LET OfType(type) ==
            LET hits == Hits([n \in DOMAIN file.lines |-> Occurrences(file.lines[n].secrets, type)])
            IN [i \in DOMAIN hits |->
                   Finding("secret-detection", "critical", "medium", file.path, hits[i], type)]
    IN FlattenSeq([i \in DOMAIN SecretTypes |-> OfType(SecretTypes[i])])

SqlHits(file) ==
    LET hits == Hits([n \in DOMAIN file.lines |-> IF file.lines[n].sql THEN 1 ELSE 0])
    IN [i \in DOMAIN hits |-> Finding("sql-injection-heuristic", "high", "medium", file.path, hits[i], "sql")]

\* A file without a grammar is only searched for secrets; an unreadable one not at all.
FileFindings(file) ==
    IF ~file.readable THEN <<>>
    ELSE detect_all_secrets(file)
         \o IF file.language = "none" THEN <<>> ELSE audit_file_ast(file) \o SqlHits(file)

\* The identity of a finding: its rule and its place.
fingerprint(finding) == <<finding.rule, finding.path, finding.line>>

\* Mutant: only neighbours are compared.
DedupNeighbours(findings) ==
    At(findings, {i \in DOMAIN findings : i = 1 \/ fingerprint(findings[i - 1]) # fingerprint(findings[i])})[Len(findings)]

\* A finding stays unless one like it was seen before.
dedup(findings) ==
    LET Seen(i) == {fingerprint(findings[j]) : j \in 1 .. i - 1}
    IN At(findings, {i \in DOMAIN findings : fingerprint(findings[i]) \notin Seen(i)})[Len(findings)]

InContexts(findings, contexts) == Where(findings, LAMBDA f : classify_context(f.path) \in contexts)

\* One group of the report: its findings by severity, the gravest first.
render_context_group(findings) ==
    LET Of(severity) == Where(findings, LAMBDA f : f.severity = severity)
    IN Of("critical") \o Of("high") \o Of("medium")

\* The table of the report, and the counts of the JSON summary.
render_summary_table(findings) ==
    [context \in Contexts |-> [severity \in Severities |->
        Len(Where(findings, LAMBDA f : f.severity = severity /\ classify_context(f.path) = context))]]

render_json_summary(p, findings, removed) ==
    [files_scanned |-> Len(p.allowed), restricted_files |-> Len(p.restricted),
     findings_before_dedup |-> Len(findings) + removed, duplicates_removed |-> removed,
     findings_total |-> Len(findings), by_context |-> render_summary_table(findings),
     production_risk |-> InContexts(findings, {"production"})]

audit_security_measures(p) ==
    LET raw == FlattenSeq([i \in DOMAIN p.allowed |-> FileFindings(p.allowed[i])])
        findings == dedup(raw)
        Group(contexts) == render_context_group(InContexts(findings, contexts))
    IN [report |-> <<Group({"production"}), Group({"test"}), Group({"fixture", "detector_definition"})>>,
        summary |-> render_json_summary(p, findings, Len(raw) - Len(findings))]
================================================================================
