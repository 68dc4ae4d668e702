----------------------------- MODULE AnalysisTools -----------------------------
(***************************************************************************)
(* The tools that analyse a project, called one at a time, and what they   *)
(* keep between calls: the pages of the documentation a client reads while *)
(* the index may be refreshed, the compiled rules of the privacy gateway   *)
(* while the settings change under two callers, and the transitions the    *)
(* predictor counts.  What the tools compute is in the modules of each;    *)
(* their caches are those of CacheCoherence and ToolDispatch.              *)
(*                                                                         *)
(* A behaviour is of the calls of one tool: what they keep is not shared.  *)
(***************************************************************************)
EXTENDS Integers, FiniteSets, Sequences, SequencesExt, TLC

CONSTANTS Tools,           \* the tools that are called
          Root, Order,     \* of DepsGraph
          Names, MaxRenderDepth, MaxRenderFiles, MaxRenderDirs,  \* of ProjectTree
          MaxApiEntries, MaxUseCases,  \* of ProjectDocs
          Requests,        \* tool -> the requests it may get
          Indexes,         \* the files of the index, in the order of the walk, as it may come to be
          Analysis,        \* path -> what is parsed of the file
          AllSettings,     \* the settings of custom patterns
          Results,         \* the results of tools that pass the gateway
          Trees, MaxTrees  \* the trees that are observed, and how many

D == INSTANCE DepsGraph
L == INSTANCE Linters WITH ProjectRoot <- [i \in DOMAIN Root |-> Root[i][1]]
A == INSTANCE SecurityAudit
W == INSTANCE ProjectTree
F == INSTANCE FileTools  \* and Privacy, which it extends
P == INSTANCE ProjectDocs
M == INSTANCE Predictor

\* Custom patterns are strings; the texts of a result are of pieces.
ASSUME SettingsAssumption ==
    \A s \in AllSettings : s.environment \in Seq(STRING) /\ s.file \in Seq(STRING)
ASSUME ResultsAssumption ==
    \A result \in Results : \A path \in DOMAIN result :
        path \in Seq(STRING) /\ (result[path].kind = "text" => result[path].text \in F!Text)

\* A function node has a name, which is never the notice, what contains it, its text, and
\* the range of its body in it, which holds the pieces that are "body"; a file has such
\* functions, and lines if it is a configuration file.
IsFunctionNode(node) ==
    /\ node.name # F!NoticeName /\ node.ancestors \in Seq(Range(node.ancestors))
    /\ node.text \in F!Text /\ node.range \in Nat \X Nat
    /\ node.body = "block" =>
          /\ node.range[1] <= node.range[2] /\ node.range[2] <= Len(node.text)
          /\ \A n \in DOMAIN node.text \ (node.range[1] + 1 .. node.range[2]) :
                \A piece \in Range(node.text[n]) : piece.name # "body"
FileTypeOK(file) ==
    /\ file.lines \in Seq([kind : STRING, sensitiveKey : BOOLEAN, pieces : F!Line])
    /\ file.functions \in Seq(Range(file.functions))
    /\ \A node \in Range(file.functions) : IsFunctionNode(node)

FileToolNames == {"get_file_outline", "inspect_symbol", "get_module_summary", "query_ast", "read_config_file"}
ASSUME FilesAssumption ==
    "file tools" \in DOMAIN Requests =>
        \A r \in Requests["file tools"] : r.tool \in FileToolNames /\ FileTypeOK(r.file)

\* The files of a project are below its root, allowed or restricted; an import that is not
\* relative has a name.
PathNames == Seq(STRING) \ {<<>>}
IsBelowRoot(file) ==
    /\ file \in Seq(PathNames) /\ D!ParentDir \notin Range(file)
    /\ Len(Root) < Len(file) /\ SubSeq(file, 1, Len(Root)) = Root
IsImport(imp) == imp.names \in Seq(PathNames) /\ (imp.style # "relative" => imp.names # <<>>)
GraphProjectOK(p) ==
    /\ p.allowed \in Seq(Range(p.allowed)) /\ p.restricted \in Seq(Range(p.restricted))
    /\ Range(p.allowed) \cap Range(p.restricted) = {}
    /\ \A file \in Range(p.allowed) \cup Range(p.restricted) : IsBelowRoot(file)
    /\ \A file \in Range(p.allowed) : /\ p.imports[file] \in Seq(Range(p.imports[file]))
                                     /\ \A imp \in Range(p.imports[file]) : IsImport(imp)

\* Order lists every name of a graph.
GraphRequestOK(r) ==
    /\ DOMAIN r.args = {"maxNodes", "maxEdges", "scope", "depth", "direction", "mode",
                        "external", "unresolved", "budget", "bytes"}
    /\ GraphProjectOK(r.project)
    /\ r.args.budget \in Nat
    /\ \A limit \in {"maxNodes", "maxEdges", "depth"} : r.args[limit] = <<>> \/ r.args[limit][1] \in Nat
    /\ D!NodesOf(D!Table(r.project, D!from_args(r.args)), r.args.mode) \subseteq Range(Order)
ASSUME RootAssumption == Root \in Seq(PathNames)
ASSUME OrderAssumption == Order \in Seq(Range(Order))
ASSUME GraphsAssumption ==
    "get_dependencies_graph" \in DOMAIN Requests =>
        \A r \in Requests["get_dependencies_graph"] : GraphRequestOK(r)

\* A message has spans, one unless it is of clippy; clippy, eslint and mypy print theirs
\* on stdout.
IsOutput(linter, output) ==
    /\ output.outcome \in {"done", "missing", "timeout", "failed"} /\ output.code \in Int
    /\ output.stdout \in Seq(Range(output.stdout)) /\ output.stderr \in Seq(Range(output.stderr))
    /\ linter \in {"clippy", "eslint", "mypy"} => output.stderr = <<>>
    /\ \A m \in Range(output.stdout \o output.stderr) :
          /\ m.spans \in Seq(Range(m.spans))
          /\ m.shape = "message" /\ linter # "clippy" => Len(m.spans) = 1
          /\ \A s \in Range(m.spans) : s.line \in Nat /\ s.column \in Nat
LinterNames == {"clippy", "eslint", "mypy", "javac", "ktlint", "kotlinc", "cppcheck", "dotnet"}
LintRequestOK(r) ==
    /\ r.file.source \in Seq(Seq(STRING))
    /\ DOMAIN r.output = LinterNames /\ \A linter \in LinterNames : IsOutput(linter, r.output[linter])
ASSUME LintAssumption ==
    "lint_file" \in DOMAIN Requests => \A r \in Requests["lint_file"] : LintRequestOK(r)

\* The secrets of a line are of the types that are looked for.
AuditFileOK(file) ==
    /\ file.path.dirs \in Seq(Range(file.path.dirs)) /\ file.lines \in Seq(Range(file.lines))
    /\ \A line \in Range(file.lines) :
          /\ line.secrets \in Seq(Range(A!SecretTypes)) /\ line.constructs \in Seq(STRING)
          /\ line.sql \in BOOLEAN
ASSUME AuditAssumption ==
    "audit_security_measures" \in DOMAIN Requests =>
        \A r \in Requests["audit_security_measures"] :
            /\ r.project.allowed \in Seq(Range(r.project.allowed))
            /\ \A file \in Range(r.project.allowed) : AuditFileOK(file)

\* The rank of a file is that of no other, and what is parsed of it has lines.
PatternFileOK(file) ==
    /\ file.functions \in Seq(Range(file.functions)) /\ file.types \in Seq(Range(file.types))
    /\ file.rank \in Nat
    /\ \A s \in Range(file.functions) \cup Range(file.types) : s.first \in Nat
PatternRequestOK(r) ==
    LET files == Range(r.files) \cup Range(r.args.filePath)
    IN /\ r.files \in Seq(files) /\ r.args.filePath \in Seq(files)
       /\ \A f \in files : PatternFileOK(f)
       /\ \A f, g \in files : f.rank = g.rank => f = g
       /\ r.args.maxFiles \in Nat /\ r.args.maxMatches \in Nat /\ r.room \in Nat
ASSUME PatternsAssumption ==
    "search_design_patterns" \in DOMAIN Requests =>
        \A r \in Requests["search_design_patterns"] : PatternRequestOK(r)

\* Every file of an index is parsed.
IsAnalysis(a) == a.functions \in Seq(Range(a.functions)) /\ a.types \in Seq(Range(a.types))
ASSUME DocsAssumption ==
    /\ MaxApiEntries \in Nat
    /\ \A files \in Indexes : files \in Seq(DOMAIN Analysis)
    /\ \A path \in DOMAIN Analysis : path \in Seq(STRING) /\ IsAnalysis(Analysis[path])
    /\ "generate_project_docs" \in DOMAIN Requests =>
          \A r \in Requests["generate_project_docs"] :
             {"maxFiles", "fileOffset"} \subseteq DOMAIN r /\ r.maxFiles \in Nat /\ r.fileOffset \in Nat

VARIABLES
    tool,      \* the tool this behaviour calls
    request,   \* <<>>, or the request under way
    answer,    \* <<>>, or the answer to it
    heard,     \* the earlier answers of a conversation
    index,     \* the files generate_project_docs finds, and whether they stayed the same
    settings, compiled,  \* the custom patterns, and COMPILED_PRIVACY_RULES
    loaded,    \* caller -> <<>>, or the overrides it has read
    pass,      \* caller -> <<>>, or a result, what was read for its texts, and what is given out
    model, trees  \* the predictor, and the trees it has seen

call == <<request, answer, heard>>
rules == <<settings, compiled, loaded, pass>>
vars == <<tool, call, index, rules, model, trees>>

Callers == {1, 2}

Init ==
    /\ tool \in Tools
    /\ request = <<>> /\ answer = <<>> /\ heard = <<>>
    /\ index \in [files : IF tool = "generate_project_docs" THEN Indexes ELSE {<<>>}, steady : {TRUE}]
    /\ settings \in IF tool = "gateway" THEN AllSettings ELSE {<<>>}
    /\ compiled = <<>>
    /\ loaded = [c \in Callers |-> <<>>] /\ pass = [c \in Callers |-> <<>>]
    /\ model = M!EmptyModel /\ trees = <<>>

(***************************************************************************)
(* Calls.                                                                  *)
(***************************************************************************)
FileAnswer(r) ==
    CASE r.tool = "get_file_outline" -> F!get_file_outline(r.file)
      [] r.tool = "inspect_symbol" -> F!inspect_symbol(r.file, r.symbol, r.mode, r.all, r.hint)
      [] r.tool = "get_module_summary" -> F!get_module_summary(r.file, r.publicOnly)
      [] r.tool = "query_ast" -> F!query_ast(r.file, r.query, <<>>)
      [] r.tool = "read_config_file" -> F!read_config_file(r.file)

\* The answers of a tool, as dispatch_project_tool routes the request.
Respond(r) ==
    CASE tool = "get_dependencies_graph" -> D!get_dependencies_graph(r.project, r.args)
      [] tool = "lint_file" -> {L!build_result(r.file, r.enabled, r.output)}
      [] tool = "audit_security_measures" -> {A!audit_security_measures(r.project)}
      [] tool = "get_project_structure" ->
            LET built == W!build(r.walk, r.mcpignore)
            IN {[index |-> built, tree |-> IF built.error THEN <<>> ELSE W!render_tree(built)]}
      [] tool = "search_design_patterns" -> {F!search_design_patterns(r.files, r.args, r.room)}
      [] tool = "file tools" -> {FileAnswer(r)}
      [] tool = "generate_project_docs" -> P!generate_project_docs(index.files, Analysis, r)

Ask ==
    /\ tool \in DOMAIN Requests
    /\ request = <<>>
    /\ \E r \in Requests[tool] : request' = <<r>>
    /\ UNCHANGED <<tool, answer, heard, index, rules, model, trees>>

Answer ==
    /\ request # <<>> /\ answer = <<>>
    /\ \E a \in Respond(request[1]) : answer' = <<a>>
    /\ UNCHANGED <<tool, request, heard, index, rules, model, trees>>

\* The client is content with the answer, and forgets the conversation.
Return ==
    /\ answer # <<>>
    /\ request' = <<>> /\ answer' = <<>> /\ heard' = <<>>
    /\ index' = [index EXCEPT !.steady = TRUE]
    /\ UNCHANGED <<tool, rules, model, trees>>

\* The client asks on: for the next page, or for a symbol of the outline.
NextPage ==
    /\ tool = "generate_project_docs" /\ answer # <<>>
    /\ answer[1].kind = "page" /\ answer[1].header.kind = "next"
    /\ heard' = Append(heard, answer[1])
    /\ request' = <<[request[1] EXCEPT !.fileOffset = answer[1].header.next]>>
    /\ answer' = <<>>
    /\ UNCHANGED <<tool, index, rules, model, trees>>

InspectListed ==
    /\ tool = "file tools" /\ answer # <<>> /\ answer[1].kind = "outline"
    /\ \E i \in DOMAIN answer[1].functions, all \in BOOLEAN :
          request' = <<[tool |-> "inspect_symbol", file |-> request[1].file, mode |-> "auto", all |-> all,
                        symbol |-> answer[1].functions[i].canonical, hint |-> "", entry |-> i]>>
    /\ heard' = <<answer[1]>>
    /\ answer' = <<>>
    /\ UNCHANGED <<tool, index, rules, model, trees>>

\* The index is rebuilt between two pages.
RefreshIndex ==
    /\ tool = "generate_project_docs" /\ index.steady
    /\ \E files \in Indexes \ {index.files} : index' = [files |-> files, steady |-> heard = <<>> /\ answer = <<>>]
    /\ UNCHANGED <<tool, call, rules, model, trees>>

(***************************************************************************)
(* The gateway: apply_final_privacy_pass cleans the texts of a result one  *)
(* by one.  For each the settings are read anew, and then the rules taken  *)
(* from the cache, or put in it, under its lock.  The environment is that  *)
(* of the process.                                                         *)
(***************************************************************************)
With(f, x, value) == [y \in DOMAIN f \cup {x} |-> IF y = x THEN value ELSE f[y]]
Idle(c) == pass[c] # <<>> => pass[c][1].given # <<>>
Uncleaned(c) == IF pass[c] = <<>> THEN {} ELSE F!TextsToClean(pass[c][1].result) \ DOMAIN pass[c][1].rules

ChangeSettings ==
    /\ tool = "gateway"
    /\ settings' \in {s \in AllSettings : s.environment = settings.environment} \ {settings}
    /\ UNCHANGED <<tool, call, index, compiled, loaded, pass, model, trees>>

BeginPass(c) ==
    /\ tool = "gateway" /\ Idle(c)
    /\ \E result \in Results :
          pass' = [pass EXCEPT ![c] = <<[result |-> result, read |-> <<>>, rules |-> <<>>, given |-> <<>>]>>]
    /\ UNCHANGED <<tool, call, index, settings, compiled, loaded, model, trees>>

LoadOverrides(c) ==
    /\ loaded[c] = <<>> /\ Uncleaned(c) # {}
    /\ loaded' = [loaded EXCEPT ![c] = <<F!load_dynamic_overrides(settings)>>]
    /\ UNCHANGED <<tool, call, index, settings, compiled, pass, model, trees>>

ApplyRules(c) ==
    /\ loaded[c] # <<>>
    /\ compiled' = F!compiled_privacy_rules(compiled, loaded[c][1])
    /\ \E text \in Uncleaned(c) :
          pass' = [pass EXCEPT ![c][1].read = With(@, text, loaded[c][1]),
                               ![c][1].rules = With(@, text, compiled'[1].rules)]
    /\ loaded' = [loaded EXCEPT ![c] = <<>>]
    /\ UNCHANGED <<tool, call, index, settings, model, trees>>

GiveResult(c) ==
    /\ ~Idle(c) /\ loaded[c] = <<>> /\ Uncleaned(c) = {}
    /\ pass' = [pass EXCEPT ![c][1].given = <<F!sanitize_json_args(pass[c][1].result, pass[c][1].rules)>>]
    /\ UNCHANGED <<tool, call, index, settings, compiled, loaded, model, trees>>

(***************************************************************************)
(* The predictor: every file that is parsed is observed, under its lock.   *)
(***************************************************************************)
ObserveTree ==
    /\ tool = "predictor" /\ Len(trees) < MaxTrees
    /\ \E t \in Trees : model' = M!observe_tree(model, t) /\ trees' = Append(trees, t)
    /\ UNCHANGED <<tool, call, index, rules>>

\* It is kept in memory only.
Restart ==
    /\ tool = "predictor" /\ trees # <<>>
    /\ model' = M!EmptyModel /\ trees' = <<>>
    /\ UNCHANGED <<tool, call, index, rules>>

Next ==
    \/ Ask \/ Answer \/ Return \/ NextPage \/ InspectListed \/ RefreshIndex
    \/ ChangeSettings
    \/ \E c \in Callers : BeginPass(c) \/ LoadOverrides(c) \/ ApplyRules(c) \/ GiveResult(c)
    \/ ObserveTree \/ Restart

Spec == Init /\ [][Next]_vars

================================================================================
