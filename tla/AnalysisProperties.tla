-------------------------- MODULE AnalysisProperties --------------------------
(***************************************************************************)
(* What the answers of the analysis tools must tell of the project, each   *)
(* stated over the input of the call and not over how it is computed.      *)
(***************************************************************************)
EXTENDS AnalysisTools, Listing

Answered(t) == tool = t /\ answer # <<>>
Req == request[1]
Ans == answer[1]
Count(seq, Test(_)) == Len(Where(seq, Test))
Total(S, Of(_)) == FoldSet(LAMBDA x, sum : sum + Of(x), 0, S)
TotalOf(counts) == Total(DOMAIN counts, LAMBDA x : counts[x])

\* Neither the arguments nor a limit cut the graph short.
Uncut(p, args, g) ==
    LET params == D!from_args(args)
    IN /\ args.depth = <<>> /\ args.scope = <<>> /\ ~g.truncated
       /\ Len(p.allowed) <= params.maxNodes
       /\ \A f \in Range(p.allowed) : Len(p.imports[f]) <= params.maxEdges
\* How a name is shown, and a name that is.
Shown(name, p) == IF name \in p.secrets THEN D!RedactedName ELSE name
Legible(e) == e.source # D!RedactedName /\ e.target # D!RedactedName
FilesOf(p) == Range(p.allowed) \cup Range(p.restricted)
FileEdges(g) == {e \in g.edges : e.label \in {"internal", "restricted"}}
Ends(edges) == {<<e.source, e.target>> : e \in edges}

\* The path a relative import names, once its leading ".." are climbed.
Named(from, imp) ==
    LET ups == Cardinality({i \in DOMAIN imp.names : imp.names[i] = D!ParentDir})
    IN SubSeq(from, 1, Len(from) - 1 - ups) \o SubSeq(imp.names, ups + 1, Len(imp.names))

\* Edges between files are imports (resolve_import_path, deps_graph/imports.rs): an
\* edge ends at a file of the index, is called restricted exactly if .mcpignore hides
\* that file, and an import of its source that ends in a name ends in the file's; and no
\* relative import of a file of the index by its name goes without an edge.
EdgesAreImports ==
    Answered("get_dependencies_graph") /\ Req.args.direction = "outbound" =>
        LET p == Req.project
            Imports(key) == Range(p.imports[Root \o key])
        IN /\ \A e \in FileEdges(Ans) : Legible(e) =>
                /\ e.target \in FilesOf(p)
                /\ e.label = "restricted" <=> e.target \in Range(p.restricted)
                /\ \E imp \in Imports(e.source) :
                      \/ imp.style = "scoped" \/ imp.names = <<>> \/ Last(imp.names) = D!ParentDir
                      \/ Last(imp.names)[1] = Last(e.target)[1]
           /\ Uncut(p, Req.args, Ans) =>
                \A from \in Range(p.allowed) \cap p.disk : \A imp \in Range(p.imports[from]) :
                    imp.style = "relative" /\ Named(from, imp) \in FilesOf(p) =>
                        <<Shown(D!relative(from), p), Shown(Named(from, imp), p)>> \in Ends(FileEdges(Ans))

\* Inbound is outbound turned round (reverse_dependencies, deps_graph/builder.rs): the
\* dependents of a file are those whose outbound edges end at it, be it restricted or
\* not; asked for both directions, the graph has either kind of edge.  A depth, or the
\* budget, may cut either graph.
InboundIsTranspose ==
    Answered("get_dependencies_graph") /\ Req.args.depth = <<>> /\ ~Ans.truncated =>
        LET inbound == {e \in Ans.edges : e.label = "inbound"}
        IN \A out \in D!get_dependencies_graph(Req.project, [Req.args EXCEPT !.direction = "outbound"]) :
           ~out.truncated =>
               /\ Req.args.direction \in {"inbound", "both"} => Ends(inbound) = Ends(FileEdges(out))
               /\ Req.args.direction \in {"outbound", "both"} => FileEdges(Ans) = FileEdges(out)

\* A graph that is cut to the response budget (ensure_budget, deps_graph/render.rs) is
\* still a graph: every edge ends at nodes it holds, also when names are redacted
\* (sanitize_dependency_graph, privacy_gateway.rs).  No node goes while an edge is left,
\* nothing goes unless the answer says so, and what was measured is over the budget only
\* when no node is left to go.  The metrics, which come after, are not measured.
GraphFitsBudget ==
    Answered("get_dependencies_graph") =>
        LET Whole(deps) == D!sanitize_dependency_graph(
                [nodes |-> D!NodesOf(deps, Req.args.mode), edges |-> D!EdgesOf(deps, Req.args.mode)],
                Req.project.secrets)
        IN \A whole \in {Whole(deps) : deps \in {D!Table(Req.project, D!from_args(Req.args))}} :
           /\ UNION {{e.source, e.target} : e \in Ans.edges} \subseteq Ans.nodes
           /\ Ans.nodes \cap Req.project.secrets \subseteq {D!RedactedName}
           /\ Ans.edges # {} \/ Ans.reason = "response_bytes_limit" => Ans.nodes = whole.nodes
           /\ ~Ans.truncated => Ans.nodes = whole.nodes /\ Ans.edges = whole.edges
           /\ Ans.bytes <= Req.args.budget \/ (Ans.nodes = {} /\ Ans.edges = {})

\* README.md:125 promises dependency-cycle alerts: two files that import each other
\* are a cycle of the graph.
CyclesReported ==
    Answered("get_dependencies_graph") /\ Req.args.direction = "outbound" /\ Uncut(Req.project, Req.args, Ans) =>
        \A e, f \in FileEdges(Ans) :
            e.target = Root \o f.source /\ f.target = Root \o e.source => Ans.cycles # {}

LinterOf(language) ==
    CASE language = "rust" -> "clippy" [] language = "python" -> "mypy" [] language = "java" -> "javac"
      [] language = "kotlin" -> "ktlint" [] language = "c" -> "cppcheck" [] language = "csharp" -> "dotnet"
      [] language \in {"javascript", "typescript", "tsx"} -> "eslint" [] OTHER -> "none"
Errors(output, path) ==
    {m \in Range(output.stdout \o output.stderr) :
        /\ m.shape = "message" /\ m.level = "error"
        /\ \E s \in Range(m.spans) : s.primary /\ s.line > 0 /\ s.column > 0 /\ L!path_matches_target(s.file, path)}

\* No silent pass (run_clippy and the other linters of level2.rs): an answer with
\* neither an error nor a notice nor a diagnostic of the linter means that the linter,
\* or its stand-in, ended with code 0 or 1 or by a signal and printed no error about the
\* file.  Two passes of the code are silent and excused here: a linter that a signal has
\* ended is taken for done, and an eslint that prints anything besides its messages has
\* all of them ignored.  Every diagnostic given is of a message about the file, and what
\* is left out of the excerpt of a symbol's lines is counted.
LintAnswersComplete ==
    Answered("lint_file") /\ Req.enabled /\ LinterOf(Req.file.language) # "none" =>
        LET file == Req.file
            linter == IF file.language = "kotlin" /\ Req.output.ktlint.outcome = "missing" THEN "kotlinc"
                      ELSE LinterOf(file.language)
            output == Req.output[linter]
            given == {d \in Range(Ans.diagnostics) : d.source # "tree-sitter"}
            noise == linter = "eslint" /\ \E m \in Range(output.stdout) : m.shape # "message"
        IN /\ given = {} /\ Ans.error = {} =>
                output.outcome = "done" /\ output.code <= 1 /\ (Errors(output, file.path) = {} \/ noise)
           /\ \A d \in given : \/ output.outcome # "done"
                               \/ linter = "dotnet" /\ d.rule = "project-missing"
                               \/ \E m \in Range(output.stdout \o output.stderr) : \E s \in Range(m.spans) :
                                     L!path_matches_target(s.file, file.path)
           /\ \A e \in Range(L!render_lint_summary_scoped(Ans, 2, 3, 1)) :
                 Len(e.shown) + e.more = Count(Ans.diagnostics, LAMBDA d : d.line >= 2 /\ d.line <= 3)

\* The columns of a line that are code: a quote opens a literal up to the next same
\* quote after an even number of backslashes, a comment ends the line.
CodeColumns(line, language) ==
    LET Opens(i) == IF language = "python" THEN line[i] = "#"
                    ELSE i < Len(line) /\ line[i] = "/" /\ line[i + 1] = "/"
        Backslashes(i, k) == {j \in i + 1 .. k - 1 : \A h \in j .. k - 1 : line[h] = "\\"}
        Closings(i) == {k \in i + 1 .. Len(line) : line[k] = line[i] /\ Cardinality(Backslashes(i, k)) % 2 = 0}
        From[i \in 1 .. Len(line) + 1] ==
            IF i > Len(line) THEN {}
            ELSE IF Opens(i) THEN {}
            ELSE IF line[i] \notin {"'", "\""} THEN {i} \cup From[i + 1]
            ELSE IF Closings(i) = {} THEN {}
            ELSE From[(CHOOSE k \in Closings(i) : \A l \in Closings(i) : k <= l) + 1]
    IN From[1]

\* The rules of level 1 read code only (sanitized_line_for_matching, level1.rs): each
\* is reported once for a line, at its first column that is neither in a literal nor
\* in a comment, and for every line that has one.
RulesReadCode ==
    Answered("lint_file") =>
        LET source == Req.file.source
            Code(n, rule) == {i \in CodeColumns(source[n], Req.file.language) : source[n][i] = rule}
        IN {<<d.line, d.rule, d.column>> : d \in {d \in Range(Ans.diagnostics) :
                                                     d.source = "tree-sitter" /\ d.severity = "WARN"}}
           = UNION {{<<n, rule, CHOOSE i \in Code(n, rule) : \A j \in Code(n, rule) : i <= j>> :
                        rule \in {r \in Range(L!language_rules(Req.file.language)) : Code(n, r) # {}}} :
                    n \in DOMAIN source}

\* The rules a construct of a language breaks.
Breaks(language, construct) ==
    CASE language = "none" -> {}
      [] language = "rust" ->
            IF construct \in {"unsafe_block", "unsafe_fn", "asm", "panic_call"} THEN {"rust-unsafe"} ELSE {}
      [] language \in {"javascript", "typescript", "tsx"} ->
            IF construct \in {"eval", "new_function"} THEN {"dynamic-execution"}
            ELSE IF construct = "inner_html" THEN {"insecure-assignment"} ELSE {}
      [] language = "python" -> IF construct \in {"eval", "shell_true"} THEN {"dynamic-execution"} ELSE {}
      [] OTHER -> IF construct = "eval" THEN {"dynamic-execution"} ELSE {}
Broken(file, n) ==
    LET line == file.lines[n]
    IN (IF line.secrets = <<>> THEN {} ELSE {"secret-detection"})
       \cup (IF file.language # "none" /\ line.sql THEN {"sql-injection-heuristic"} ELSE {})
       \cup UNION {Breaks(file.language, construct) : construct \in Range(line.constructs)}

\* Where something is to be found in a file, by the rule that finds it.
Places(file) == UNION {{<<rule, file.path, n>> : rule \in Broken(file, n)} : n \in DOMAIN file.lines}

\* The audit accounts for every finding (audit_security_measures, tools/audit.rs): each
\* place of each readable file is in the report once, the summary's totals add up to it,
\* and production_risk is the production group, which leaves a finding out only for what
\* a component of its path is called or how its path ends, and never has one of a
\* directory called tests.
Telling(path) ==
    \/ path.ends # {}
    \/ \E part \in Range(path.dirs) \cup {path.file} : part.marks # {} \/ part.name \in {"tests", "tests.rs"}
AuditAccounts ==
    Answered("audit_security_measures") =>
        LET report == Ans.report
            all == FlattenSeq(report)
            found == {A!fingerprint(f) : f \in Range(all)}
            summary == Ans.summary
            In(context) == LET row == summary.by_context[context]
                           IN row["critical"] + row["high"] + row["medium"]
        IN /\ found = UNION {Places(f) : f \in {f \in Range(Req.project.allowed) : f.readable}}
           /\ Cardinality(found) = Len(all)
           /\ summary.findings_total = Len(all)
           /\ summary.findings_before_dedup = Len(all) + summary.duplicates_removed
           /\ Len(all) = In("production") + In("test") + In("fixture") + In("detector_definition")
           /\ Range(summary.production_risk) = Range(report[1])
           /\ \A f \in Range(all) : f \in Range(summary.production_risk) \/ Telling(f.path)
           /\ \A f \in Range(summary.production_risk) : \A dir \in Range(f.path.dirs) : dir.name # "tests"

\* Design patterns are accounted for (search_design_patterns, tools/patterns.rs): the
\* counts by pattern and by file add up to the total, no restricted file has any, and
\* fewer matches than the total are given only by the caller's limit, by that of a
\* summary or as truncated; and they come in the order asked for.
PatternsAccount ==
    Answered("search_design_patterns") /\ Ans.kind = "patterns" =>
        /\ TotalOf(Ans.byPattern) = Ans.total /\ TotalOf(Ans.byFile) = Ans.total
        /\ Ans.scanned <= Req.args.maxFiles
        /\ \A f \in Range(Req.files) : f.restricted => f.rank \notin DOMAIN Ans.byFile
        /\ Len(Ans.matches) < Ans.total => \/ Ans.truncated \/ Len(Ans.matches) = Req.args.maxMatches
                                           \/ Req.args.mode = "summary" /\ Len(Ans.matches) = 100
        /\ \A i, j \in DOMAIN Ans.matches : i < j =>
              CASE Req.args.sortBy = "file" -> Ans.matches[i].file <= Ans.matches[j].file
                [] Req.args.sortBy = "line" -> Ans.matches[i].line <= Ans.matches[j].line
                [] OTHER -> Ans.matches[i].pattern = Ans.matches[j].pattern =>
                               Ans.matches[i].file <= Ans.matches[j].file

\* The tree accounts for the project (render_tree, indexer.rs): what the walk finds is
\* in one list, restricted exactly if a rule matches it or a directory above it, from the
\* root or, for a rule without a leading '/', from some directory on; in every directory
\* shown in full, the names listed and the number of the others are its entries; and the
\* statistics of a directory are those of all below it.
TreeAccounts ==
    Answered("get_project_structure") /\ ~Ans.index.error =>
        LET hiding == W!load_mcpignore(Req.mcpignore)
            walked == {f \in Range(Req.walk) : ~(Len(f) > 1 /\ f[1] \in {"target", ".git"})}
            Covers(rule, path) == \E named \in rule.glob : \E at \in 0 .. Len(path) - Len(named) :
                                      /\ rule.rooted => at = 0
                                      /\ \A i \in DOMAIN named : path[at + i] = named[i]
            Under(dir) == {f \in walked : IsStrictPrefix(dir, f)}
            DirsUnder(dir) == UNION {{SubSeq(f, 1, n) : n \in Len(dir) + 1 .. Len(f) - 1} : f \in Under(dir)}
            lines == Range(Ans.tree)
            Of(kind, dir) == {l \in lines : l.kind = kind /\ l.path # <<>> /\ Front(l.path) = dir}
            Others(kind, dir) == Total({l \in lines : l.kind = kind /\ l.path = dir}, LAMBDA l : l.info)
            Entries(S, dir) == {f \in S : Front(f) = dir}
        IN /\ Range(Ans.index.restricted) = {f \in walked : \E i \in DOMAIN hiding : Covers(hiding[i], f)}
           /\ Range(Ans.index.allowed) = walked \ Range(Ans.index.restricted)
           /\ \A l \in lines : l.kind = "dir" =>
                /\ l.info = [files |-> Cardinality(Under(l.path)), dirs |-> Cardinality(DirsUnder(l.path)),
                             restricted |-> Cardinality(Under(l.path) \cap Range(Ans.index.restricted))]
                /\ Len(l.path) < MaxRenderDepth =>
                     /\ Cardinality(Of("file", l.path)) + Others("more files", l.path)
                          = Cardinality(Entries(Under(l.path), l.path))
                     /\ Cardinality(Of("dir", l.path)) + Others("more directories", l.path)
                          = Cardinality(Entries(DirsUnder(l.path), l.path))
           /\ \A l \in lines : l.kind = "file" => l.info = (l.path \in Range(Ans.index.restricted))

\* The outline leads to the symbol (outline.rs, symbol.rs): a canonical identifier of
\* the outline, inspected as it stands, gives the function of that entry or names it
\* among the candidates, unless the outline has redacted it: then it leads nowhere, to
\* no other function either.  And a function the outline calls restricted never comes
\* with its body when it has a block for one.
OutlineLeadsToSymbol ==
    Answered("file tools") /\ heard # <<>> =>
        LET entry == heard[1].functions[Req.entry]
            node == Req.file.functions[Req.entry]
            Same(c) == /\ c.first = entry.first /\ c.last = entry.last
                       /\ c.signature = entry.signature \/ "signature" \in node.redacted
        IN IF "identifier" \in node.redacted THEN Ans.kind = "not found"
           ELSE CASE Ans.kind = "ok" -> \E i \in DOMAIN Ans.matches :
                         /\ Same(Ans.matches[i].symbol)
                         /\ entry.strip /\ node.body = "block" =>
                              \A piece \in F!Pieces(Ans.matches[i].source) : piece.name # "body"
                  [] Ans.kind = "ambiguous" -> \E i \in DOMAIN Ans.candidates : Same(Ans.candidates[i])
                  [] OTHER -> FALSE

\* What .mcpignore hides, or lies outside the root, stays hidden from every tool that
\* reads a file (validate_path and is_restricted, tools/*.rs): the answer is a notice.
\* Of a configuration file no tool gives what stands behind a sensitive key on its line,
\* and in the source of a function only notices match a built-in pattern and no "//"
\* has a sensitive word behind it.  Comments of other kinds, and a value that goes on in
\* the lines below its key, are given: the code looks at neither.
HiddenStaysHidden ==
    Answered("file tools") =>
        /\ Req.file.outside \/ Req.file.restricted => Ans.kind \in {"denied", "restricted"}
        /\ Ans.kind = "config" => \A i \in DOMAIN Ans.lines :
              Ans.lines[i].kind = "pair" /\ Ans.lines[i].sensitiveKey => Range(Ans.lines[i].pieces) \subseteq {F!Redacted}
        /\ Ans.kind = "ok" => \A i \in DOMAIN Ans.matches : LET text == Ans.matches[i].source IN
              /\ \A piece \in F!Pieces(text) :
                    piece.name = F!NoticeName \/ piece.matches \cap Range(F!SECRET_PATTERNS) = {}
              /\ \A n \in DOMAIN text : \A k, l \in DOMAIN text[n] :
                    ~(k < l /\ text[n][k].name = "//" /\ text[n][l].name = "sensitive")

\* The pages tell all (render_pagination_header, project_docs.rs): a client that follows
\* the offsets, while the index stays the same, has read every file once by the last
\* page; and each public symbol is in the API section of its page unless that is cut.
PagesTellAll ==
    Answered("generate_project_docs") /\ index.steady /\ Ans.kind = "page" /\ Ans.header.kind # "next" =>
        LET pages == Append(heard, Ans)
            read == FlattenSeq([i \in DOMAIN pages |-> pages[i].files])
            Symbols(f) == Range(Analysis[f].functions) \cup Range(Analysis[f].types)
        IN pages[1].header.first = 1 =>
            /\ Len(read) = Len(index.files) /\ Range(read) = Range(index.files)
            /\ \A i \in DOMAIN pages : LET doc == pages[i].document
                                       IN "api" \in DOMAIN doc /\ ~doc.api.cut =>
                  \A f \in Range(pages[i].files) : \A s \in Symbols(f) :
                      s.public => [file |-> f, name |-> s.name] \in Range(doc.api.entries)

\* Only notices are left to redact (apply_final_privacy_pass and compiled_privacy_rules,
\* privacy_gateway.rs): in what a caller gives out, a field whose key is sensitive has
\* the notice for its whole value; and of any other text nothing is left that matches a
\* built-in pattern, or a custom pattern that was set each time the settings were read
\* for it, whatever rules another caller or an earlier setting left in the cache.  A
\* notice may match, alone or with what is around it: no second pass is made.
OnlyNoticesMatch ==
    \A c \in Callers : pass[c] # <<>> /\ pass[c][1].given # <<>> =>
        LET done == pass[c][1]
            Set(overrides) == Range(F!compile_privacy_rules(overrides))
            always == {p \in UNION {Set(done.read[t]) : t \in DOMAIN done.read} :
                          \A t \in DOMAIN done.read : p \in Set(done.read[t])}
            given == done.given[1]
        IN \A path \in DOMAIN given :
              /\ given[path].kind = "text" /\ ~F!IsSensitive(path) =>
                    \A piece \in F!Pieces(given[path].text) :
                       \/ piece.name = F!NoticeName
                       \/ piece.matches \cap (Range(F!SECRET_PATTERNS) \cup always) = {}
              /\ \A i \in DOMAIN path : path[i] \in F!SensitiveKeys =>
                    i = Len(path) /\ given[path] = [kind |-> "text", text |-> F!KeyRedacted]

\* The counts are those of the trees (traverse_and_observe, predictor.rs): below a kind
\* under a parent, each descendant as often as the trees hold it, the node itself
\* included; and as many transitions as the trees have children and neighbours.
CountsMatchTrees ==
    tool = "predictor" =>
        LET Lineage(tree) == LET Of[i \in DOMAIN tree] ==
                                     {i} \cup IF tree[i].parent = 0 THEN {} ELSE Of[tree[i].parent]
                             IN Of
            nodes == UNION {{t} \X DOMAIN trees[t] : t \in DOMAIN trees}
            Kinds(node) == <<M!ParentKind(trees[node[1]], node[2]), trees[node[1]][node[2]].kind>>
            Below(key, kind) == {pair \in nodes \X nodes :
                                    /\ pair[1][1] = pair[2][1] /\ Kinds(pair[1]) = key /\ Kinds(pair[2])[2] = kind
                                    /\ pair[1][2] \in Lineage(trees[pair[1][1]])[pair[2][2]]}
            Children(node) == {c \in DOMAIN trees[node[1]] : trees[node[1]][c].parent = node[2]}
            Pairs(n) == IF n = 0 THEN 0 ELSE 2 * n - 1
        IN /\ \A key \in DOMAIN model.descendants :
                model.descendants[key] = Cardinality(Below(<<key[1], key[2]>>, key[3]))
           /\ \A node \in nodes : Append(Kinds(node), Kinds(node)[2]) \in DOMAIN model.descendants
           /\ M!total_observations(model) = Total(nodes, LAMBDA node : Pairs(Cardinality(Children(node))))
           /\ BagCardinality(model.transitions) = M!total_observations(model)

================================================================================
