--------------------------- MODULE MCAnalysisTools ---------------------------
(***************************************************************************)
(* Small projects, files, outputs of linters and trees for TLC: every      *)
(* request of a tool is one of the sets below.                             *)
(***************************************************************************)
EXTENDS AnalysisProperties

(***************************************************************************)
(* Graphs: three allowed files in two directories and a hidden one.        *)
(***************************************************************************)
N(stem) == <<stem>>
NX(stem, ext) == <<stem, ext>>
MCRoot == <<N("root")>>
Abs(dir, name) == MCRoot \o <<N(dir), name>>
Fa == Abs("src", NX("a", "ts"))
Fb == Abs("src", NX("b", "ts"))
Fl == Abs("lib", NX("l", "rs"))
Fh == Abs("src", NX("h", "ts"))

Imp(style, names) == [style |-> style, names |-> names]
Up(names) == <<N("..")>> \o names
ToB == Imp("relative", <<N("b")>>)
ToA == Imp("relative", <<N("a")>>)
ToHidden == Imp("relative", <<NX("h", "ts")>>)
ToLib == Imp("relative", Up(<<N("lib"), NX("l", "rs")>>))
Detour == Imp("relative", <<N("z"), N(".."), N("b")>>)
Missing == Imp("relative", <<N("z")>>)
Alias == Imp("scoped", <<N("@lib"), N("l")>>)
Package == Imp("package", <<N("react")>>)
Crate == Imp("rust", <<N("crate"), N("a")>>)
Super == Imp("rust", <<N("super"), N("super"), N("h")>>)
Std == Imp("rust", <<N("std"), N("fs")>>)

MCAliases == <<[dir |-> MCRoot, baseUrl |-> <<>>,
                rules |-> <<[pattern |-> [names |-> <<N("@lib")>>, star |-> TRUE],
                             targets |-> <<[names |-> <<N("gone")>>, star |-> TRUE],
                                           [names |-> <<N("lib")>>, star |-> TRUE]>>]>>]>>
UpTo(S, n) == UNION {[1 .. k -> S] : k \in 0 .. n}

GraphProject(importsA, importsB, importsL, aliases, disk) ==
    [allowed |-> <<Fa, Fb, Fl>>, restricted |-> <<Fh>>, disk |-> disk, aliases |-> aliases,
     secrets |-> {<<N("react")>>},
     imports |-> (Fa :> importsA @@ Fb :> importsB @@ Fl :> importsL)]
GraphProjects ==
    {GraphProject(a, b, l, MCAliases, {Fa, Fb, Fl, Fh}) :
        a \in UpTo({ToB, ToHidden, ToLib, Missing, Alias, Package}, 2),
        b \in {<<>>, <<ToA>>}, l \in {<<>>, <<Crate, Super>>}}
    \cup {GraphProject(<<ToB, Alias>>, <<ToA>>, <<Std>>, <<>>, {Fa, Fb}),
          [GraphProject(<<Detour, ToHidden>>, <<ToA>>, <<Crate>>, <<>>, {Fa, Fb, Fl, Fh}) EXCEPT !.secrets = {Fh}]}

GraphArgs(direction, mode, budget) ==
    [maxNodes |-> <<>>, maxEdges |-> <<>>, scope |-> <<>>, depth |-> <<>>, direction |-> direction,
     mode |-> mode, external |-> TRUE, unresolved |-> TRUE, budget |-> budget]
GraphArguments ==
    {GraphArgs(direction, "summary", 100) : direction \in {"outbound", "inbound", "both"}}
    \cup {GraphArgs("outbound", "detail", budget) : budget \in {1, 12, 16, 30}}
    \cup {[GraphArgs("both", "detail", 40) EXCEPT !.depth = <<1>>, !.scope = N("src")],
          [GraphArgs("outbound", "summary", 100) EXCEPT !.maxNodes = <<2>>, !.maxEdges = <<1>>, !.external = FALSE],
          [GraphArgs("outbound", "summary", 100) EXCEPT !.scope = N("lib"), !.unresolved = FALSE]}
AllImports == {ToA, ToB, ToHidden, ToLib, Missing, Detour, Alias, Package, Crate, Super, Std}
InAnyOrder(S) == FoldSet(LAMBDA x, seq : Append(seq, x), <<>>, S)
MCOrder == InAnyOrder({Fa, Fb, Fl, Fh}) \o InAnyOrder({SubSeq(f, 2, Len(f)) : f \in {Fa, Fb, Fl, Fh}})
           \o InAnyOrder({<<<<i.style>>>> \o i.names : i \in AllImports}
                          \cup {<<N(name)>> : name \in {"react", "std", "@lib"}})

\* A name counts by its pieces.
GraphBytes(p) ==
    [rest |-> 2, node |-> 1, edge |-> [label \in Range(D!Labels) |-> 0],
     name |-> [name \in Range(MCOrder) |-> Len(Shown(name, p))]]
GraphRequests ==
    UNION {{[project |-> p, args |-> args @@ [bytes |-> GraphBytes(p)]] : args \in GraphArguments} : p \in GraphProjects}

(***************************************************************************)
(* Linters: lines of up to four characters for level 1, one or two messages*)
(* for each external linter.                                               *)
(***************************************************************************)
Quiet == [outcome |-> "missing", code |-> 0, stdout |-> <<>>, stderr |-> <<>>]
NoOutput == [l \in LinterNames |-> Quiet]
Target == <<"root", "src", "a">>
LintFile(language, source, projectDirs) ==
    [path |-> Target, language |-> language, source |-> source, projectDirs |-> projectDirs]
LintRequest(file, enabled, output) == [file |-> file, enabled |-> enabled, output |-> output]

Characters(language) ==
    {"'", "\"", "\\"} \cup IF language = "python" THEN {"#", "print("} ELSE {"/", "dbg!("}
Level1Requests ==
    UNION {{LintRequest(LintFile(l, <<line, <<"TODO", Head(L!language_rules(l))>>>>, {}), FALSE, NoOutput) :
               line \in UpTo(Characters(l), 4)} : l \in {"python", "rust"}}

Span(absolute, path, primary, line) ==
    [file |-> [absolute |-> absolute, path |-> path], primary |-> primary, line |-> line, column |-> 2]
Message(level, spans) == [shape |-> "message", level |-> level, rule |-> "rule", spans |-> spans]
\* Only clippy prints messages of several spans.
Messages(linter) ==
    {Message("error", <<Span(TRUE, Target, TRUE, 3)>>), Message("warning", <<Span(FALSE, <<"src", "a">>, TRUE, 1)>>),
     Message("error", <<Span(FALSE, <<"a">>, TRUE, 2)>>), Message("error", <<Span(TRUE, Target, TRUE, 0)>>),
     Message("error", <<Span(FALSE, <<"src", "b">>, TRUE, 2)>>
                      \o IF linter = "clippy" THEN <<Span(TRUE, Target, TRUE, 5)>> ELSE <<>>),
     [shape |-> "other", level |-> "", rule |-> "", spans |-> <<Span(TRUE, <<>>, FALSE, 0)>>]}
LinterPairs ==
    {<<"rust", "clippy">>, <<"typescript", "eslint">>, <<"python", "mypy">>, <<"java", "javac">>,
     <<"kotlin", "ktlint">>, <<"kotlin", "kotlinc">>, <<"c", "cppcheck">>, <<"csharp", "dotnet">>}
Streams(linter) == IF linter \in {"clippy", "eslint", "mypy"} THEN {<<>>} ELSE {<<>>} \cup {<<m>> : m \in Messages(linter)}
Outputs(linter) ==
    {[NoOutput EXCEPT ![linter] = o] :
        o \in [outcome : {"done"}, code : {-1, 0, 1, 2}, stdout : UpTo(Messages(linter), 2), stderr : {<<>>}]
              \cup [outcome : {"done"}, code : {1}, stdout : UpTo(Messages(linter), 1), stderr : Streams(linter)]
              \cup [outcome : {"timeout", "failed", "missing"}, code : {0}, stdout : {<<>>}, stderr : {<<>>}]}
LinterRequests ==
    UNION {{LintRequest(LintFile(pair[1], <<<<"unwrap()">>>>, dirs), TRUE, output) :
               dirs \in IF pair[2] = "dotnet" THEN {{}, {<<"root">>}} ELSE {{}},
               output \in Outputs(pair[2])} : pair \in LinterPairs}

(***************************************************************************)
(* Audits: two files of a line or two.                                     *)
(***************************************************************************)
AuditLine(secrets, constructs, sql) == [secrets |-> secrets, constructs |-> constructs, sql |-> sql]
AuditLines == {AuditLine(<<>>, <<>>, FALSE), AuditLine(<<"AWS_ACCESS_KEY", "JWT_TOKEN">>, <<>>, FALSE),
               AuditLine(<<>>, <<"eval", "unsafe_fn", "unsafe_block">>, TRUE), AuditLine(<<"JWT_TOKEN">>, <<"eval", "eval", "inner_html">>, TRUE)}
\* The components of paths, by name, and the paths src/m, tests/m, tests/fixtures/m,
\* unittests/fixtures/m, src/sanitizer.rs, src/test_m, src/test_utils/m, test_utils/m,
\* a_test.d/m, src/tests.rs and tests.rs.
Part(name) ==
    [name |-> name,
     marks |-> CASE name \in {"tests", "unittests"} -> {"*tests"} [] name = "a_test.d" -> {"*_test.*"}
                 [] name \in {"test_m", "test_utils"} -> {"test_*"} [] OTHER -> {}]
AuditPath(dirs, name, ends) == [dirs |-> [i \in DOMAIN dirs |-> Part(dirs[i])], file |-> Part(name), ends |-> ends]
AuditPaths == {AuditPath(dirs, "m", {}) : dirs \in {<<"src">>, <<"tests">>, <<"tests", "fixtures">>, <<"unittests", "fixtures">>,
                                                  <<"src", "test_utils">>, <<"test_utils">>, <<"a_test.d">>}}
              \cup {AuditPath(<<"src">>, "sanitizer.rs", {"sanitizer.rs"}), AuditPath(<<"src">>, "test_m", {}),
                    AuditPath(<<"src">>, "tests.rs", {}), AuditPath(<<>>, "tests.rs", {})}
AuditFile(path, language, readable, lines) ==
    [path |-> path, language |-> language, readable |-> readable, lines |-> lines]
MainFile == AuditPath(<<>>, "main", {})
AuditRequests ==
    {[project |-> [allowed |-> <<AuditFile(MainFile, "rust", TRUE, <<first>>), AuditFile(path, language, readable, lines)>>,
                   restricted |-> <<>>]] :
        first \in AuditLines, path \in AuditPaths, language \in {"python", "rust", "tsx", "go", "none"}, readable \in BOOLEAN,
        lines \in {<<l>> : l \in AuditLines} \cup {<<l, AuditLine(<<>>, <<"eval", "unsafe_block">>, FALSE)>> : l \in AuditLines}}

(***************************************************************************)
(* Trees: subsets of nine paths, and three kinds of rules.                 *)
(***************************************************************************)
WalkPaths == {<<"a">>, <<"b">>, <<"c">>, <<"d", "a">>, <<"d", "b">>, <<"d", "c", "a">>, <<"a2", "b">>, <<"b2", "c">>,
              <<"target", "a">>}
MCTreeNames == <<".git", "a", "a2", "b", "b2", "c", "c2", "d", "target">>
Rule(rooted, glob) == [kind |-> "pattern", pattern |-> [rooted |-> rooted, valid |-> TRUE, glob |-> glob]]
BadRule == [kind |-> "pattern", pattern |-> [rooted |-> FALSE, valid |-> FALSE, glob |-> {}]]
Comment == [Rule(FALSE, {<<"a">>}) EXCEPT !.kind = "comment"]
\* The rules a*, /b, /d/c, c/a, d and /d/*a.
IgnoreFiles ==
    {[readable |-> TRUE, lines |-> lines] :
        lines \in {<<>>, <<Comment, Rule(FALSE, {<<"a">>, <<"a2">>, <<"a2", "b">>})>>,
                   <<Rule(TRUE, {<<"b">>}), Rule(TRUE, {<<"d", "c">>})>>, <<Rule(FALSE, {<<"c", "a">>})>>,
                   <<Rule(FALSE, {<<"d">>})>>, <<Rule(TRUE, {<<"d", "a">>, <<"d", "c", "a">>})>>, <<BadRule>>}}
    \cup {[readable |-> FALSE, lines |-> <<Rule(FALSE, {<<"a">>})>>]}
TreeRequests == {[walk |-> InAnyOrder(paths), mcpignore |-> ignore] : paths \in SUBSET WalkPaths, ignore \in IgnoreFiles}

(***************************************************************************)
(* Files: functions of one or two names, in and out of classes.            *)
(***************************************************************************)
Piece(name, matches) == [name |-> name, matches |-> matches, completes |-> {}]
FunctionText == <<<<Piece("head", {})>>, <<Piece("body", {"JWT_TOKEN"}), Piece("//", {}), Piece("plain", {}), Piece("sensitive", {})>>,
                  <<Piece("body", {}), Piece("end", {})>>>>
Node(name, ancestors, before, children, marker, body, line) ==
    [name |-> name, ancestors |-> ancestors, receiver |-> "", before |-> before, children |-> children,
     inValue |-> FALSE, marker |-> marker, body |-> body, text |-> FunctionText, range |-> <<1, 3>>, signature |-> {name}, roles |-> {}, redacted |-> {}, first |-> line,
     last |-> line, public |-> line = 1, documented |-> FALSE]
ClassC == <<[kind |-> "class_declaration", name |-> "C"]>>
InClass(language) == IF language = "rust" THEN <<[kind |-> "impl_item", name |-> "C"]>>
                     ELSE IF language = "python" THEN <<[kind |-> "class_definition", name |-> "C"]>> ELSE ClassC
\* A Kotlin class in another one, and an enumeration in one.
InKotlin(kind) == <<[kind |-> kind, name |-> ""]>> \o ClassC
                  \o <<[kind |-> "class_body", name |-> ""], [kind |-> "object_declaration", name |-> "O"]>>
NodesOf(language, line) ==
    {Node(name, ancestors, before, children, before = "marked" \/ children = <<"comment", "marked">>, body, line) :
        name \in {"f", "g"}, ancestors \in {<<>>, InClass(language)}, before \in {"none", "marked"},
        children \in {<<"statement", "marked">>, <<"comment", "marked">>}, body \in {"block", "expression"}}
SourceFile(language, functions) ==
    [outside |-> FALSE, restricted |-> FALSE, readable |-> TRUE, large |-> FALSE, language |-> language,
     extension |-> "src", dotenv |-> FALSE, functions |-> functions, types |-> <<>>, lines |-> <<>>]
ConfigLine(kind, sensitive, pieces) == [kind |-> kind, sensitiveKey |-> sensitive, pieces |-> pieces]
ConfigLines == {ConfigLine("comment", FALSE, <<Piece("x", {})>>), ConfigLine("pair", TRUE, <<Piece("x", {})>>),
                ConfigLine("pair", FALSE, <<Piece("127.0.0.1", {"CONFIG_IPV4"}), Piece("8.8.8.8", {"CONFIG_IPV4"})>>),
                ConfigLine("other", FALSE, <<Piece("k", {"AWS_ACCESS_KEY"})>>), ConfigLine("pair", TRUE, <<>>)}
ConfigFile(lines) == [SourceFile("unknown", <<>>) EXCEPT !.extension = "env", !.lines = lines]
SourceFiles ==
    UNION {{SourceFile(l, <<m, n>>) : m \in NodesOf(l, 1), n \in {n \in NodesOf(l, 2) : n.body = "block"}} :
              l \in {"python", "rust"}}
    \cup {SourceFile("java", <<m>>) : m \in NodesOf("java", 1)}
    \cup {SourceFile("rust", <<[m EXCEPT !.redacted = r], [n EXCEPT !.redacted = s]>>) :
              r \in SUBSET {"identifier", "signature"}, s \in SUBSET {"identifier", "signature"},
              m \in {m \in NodesOf("rust", 1) : m.before = "none" /\ m.body = "block"},
              n \in {n \in NodesOf("rust", 2) : n.children = <<"comment", "marked">> /\ n.body = "block"}}
    \cup {SourceFile("kotlin", <<[m EXCEPT !.ancestors = InKotlin(k)], n>>) :
              k \in {"class_body", "enum_class_body"}, m \in NodesOf("kotlin", 1), n \in NodesOf("kotlin", 2)}
SomeFile ==
    [SourceFile("rust", <<Node("f", <<>>, "none", <<>>, FALSE, "block", 1)>>)
        EXCEPT !.types = <<[name |-> "T", public |-> TRUE, documented |-> FALSE, redacted |-> FALSE]>>]
OddFiles ==
    {[SomeFile EXCEPT !.outside = o, !.restricted = r, !.readable = y] : o \in BOOLEAN, r \in BOOLEAN, y \in BOOLEAN}
    \cup {[ConfigFile(<<k, l>>) EXCEPT !.readable = y, !.restricted = ~y] : k \in ConfigLines, l \in ConfigLines, y \in BOOLEAN}
Query(valid) == [valid |-> valid, captures |-> <<<<<<Piece("k", {"JWT_TOKEN"})>>>>>>]
FileRequests ==
    [tool : {"get_file_outline"}, file : SourceFiles \cup OddFiles]
    \cup [tool : {"inspect_symbol"}, file : OddFiles, symbol : {<<"f">>, <<"C", "f">>},
          mode : {"auto", "simple", "qualified"}, all : {TRUE}, hint : {"", "f", "g"}]
    \cup [tool : {"get_module_summary"}, file : OddFiles, publicOnly : BOOLEAN]
    \cup [tool : {"query_ast"}, file : OddFiles, query : {Query(TRUE), Query(FALSE)}]
    \cup [tool : {"read_config_file"}, file : OddFiles]

(***************************************************************************)
(* Patterns, documentation, gateway and predictor.                         *)
(***************************************************************************)
Role(roles, line) == [Node("f", <<>>, "none", <<>>, FALSE, "block", line) EXCEPT !.roles = roles]
PatternFile(rank, restricted, functions) ==
    [SourceFile("rust", functions) EXCEPT !.restricted = restricted] @@ [rank |-> rank, scopes |-> {"all", IF rank = 2 THEN "two" ELSE "other"}]
PatternFunctions ==
    {<<>>, <<Role({"instance"}, 4)>>, <<Role({"with_"}, 2), Role({"with_", "save"}, 3), Role({"build", "find_", "delete"}, 5)>>,
     <<Role({"create_", "notify"}, 1), Role({"create_", "subscribe", "instance"}, 2)>>}
PatternRequest(files, filePath, scope, maxFiles, maxMatches, sortBy, room) ==
    [files |-> files, room |-> room,
     args |-> [filePath |-> filePath, scope |-> scope, maxFiles |-> maxFiles, maxMatches |-> maxMatches,
               sortBy |-> sortBy, mode |-> "summary"]]
PatternRequests ==
    {PatternRequest(<<PatternFile(2, FALSE, f), PatternFile(1, r, g), PatternFile(3, FALSE, <<Role({"instance"}, 1)>>)>>,
                    <<>>, scope, files, matches, sortBy, room) :
        f \in PatternFunctions, g \in PatternFunctions, r \in BOOLEAN, scope \in {"all", "two"}, files \in {1, 3},
        matches \in {2, 100}, sortBy \in {"pattern", "file", "line"}, room \in {1, 100}}
    \cup {PatternRequest(<<PatternFile(1, r, f)>>, <<PatternFile(1, r, f)>>, "all", 3, 100, "file", 100) :
             f \in PatternFunctions, r \in BOOLEAN}

Function(name, prefix, public, doc) == [name |-> name, prefix |-> prefix, public |-> public, doc |-> doc]
Parsed(language, functions, types) ==
    [language |-> language, moduleDoc |-> TRUE, functions |-> functions, types |-> types,
     frameworks |-> <<[kind |-> "cli", name |-> "clap"]>>, sentinel |-> TRUE]
MCAnalysis ==
    <<"a">> :> Parsed("python", <<Function("main", "", TRUE, "plain"), Function("get_x", "get_", TRUE, "none")>>, <<>>)
    @@ <<"b">> :> Parsed("rust", <<Function("get_y", "get_", TRUE, "use"), Function("p", "", FALSE, "none")>>,
                         <<Function("T", "", TRUE, "none")>>)
    @@ <<"d", "c">> :> Parsed("rust", <<Function("load_x", "load_", TRUE, "short"), Function("load_y", "load_", TRUE, "none")>>, <<>>)
    @@ <<"d", "e">> :> [Parsed("", <<>>, <<>>) EXCEPT !.frameworks = <<>>]
MCIndexes == {<<<<"d", "c">>, <<"b">>, <<"d", "e">>, <<"a">>>>, <<<<"a">>, <<"d", "c">>, <<"b">>>>, <<<<"b">>>>, <<>>}
Sections == {"overview", "usage", "api", "use_cases"}
DocsRequests ==
    [maxFiles : {0, 1, 2, 3, 200}, fileOffset : {0, 1, 5}, publicOnly : {TRUE}, sections : {Sections, {"api"}}]
    \cup [maxFiles : {2}, fileOffset : {0}, publicOnly : {FALSE}, sections : {Sections}]

MCSettings == [environment : {<<>>, <<"invalid", "corp">>}, readable : BOOLEAN, file : {<<"acme">>, <<"acme", "corp">>}]
T(pieces) == <<pieces>>
Acme == Piece("acme", {"acme"})
\* A notice for it matches what was looked for before and what is looked for later.
Corp == [Piece("corp.internal", {"INTERNAL_HOSTNAME", "corp", "acme"}) EXCEPT !.completes = {"GENERIC_SECRET", "acme"}]
Plain == Piece("plain", {})
TextLeaf(text) == [kind |-> "text", text |-> text]
MCResults ==
    {<<"content", "1">> :> TextLeaf(T(<<Acme, Corp>>)) @@ <<"content", "2">> :> [kind |-> "number"]
     @@ <<"content", "3">> :> TextLeaf(T(<<Plain, Acme>>))
     @@ <<"token", "secret", "1">> :> TextLeaf(T(<<Piece("key", {"acme"})>>)) @@ <<"token", "n">> :> [kind |-> "number"],
     <<>> :> TextLeaf(T(<<Piece("tok", {"GITHUB_TOKEN"}), Plain, Acme>>))}

TreeNode(kind, parent) == [kind |-> kind, parent |-> parent]
MCTrees == UNION {[1 .. 1 -> [kind : 1 .. 2, parent : {0}]],
                  {<<TreeNode(k, 0), TreeNode(l, 1)>> : k \in 1 .. 2, l \in 1 .. 2},
                  {<<TreeNode(k, 0), TreeNode(l, 1), TreeNode(m, 1)>> : k \in 1 .. 2, l \in 1 .. 2, m \in 1 .. 2}}
           \cup {<<TreeNode(1, 0), TreeNode(1, 1), TreeNode(2, 2), TreeNode(2, 2), TreeNode(1, 1)>>}

MCRequests ==
    [get_dependencies_graph |-> GraphRequests, lint_file |-> Level1Requests \cup LinterRequests,
     audit_security_measures |-> AuditRequests, get_project_structure |-> TreeRequests,
     search_design_patterns |-> PatternRequests, generate_project_docs |-> DocsRequests]
    @@ ("file tools" :> FileRequests)
================================================================================
