------------------------------- MODULE DepsGraph -------------------------------
(***************************************************************************)
(* get_dependencies_graph as a function of the indexed files, of their     *)
(* imports and of the arguments: how an import is resolved, the table of   *)
(* dependencies of each file, its reversal, the depth limit, the cycles,   *)
(* the nodes and edges, and the response budget.                           *)
(*                                                                         *)
(* A name is the sequence of its dot-separated pieces, a path the sequence *)
(* of its names, an absolute path one that starts with Root.  An import is *)
(* the style of its text and the names in it.  The order of strings is any *)
(* order: Order lists the strings of a response.                           *)
(***************************************************************************)
EXTENDS SequencesExt, Listing

CONSTANTS Root,  \* the path of the project
          Order  \* every file, import and package of a response, in the order of strings

None == <<>>
ParentDir == <<"..">>
Parent(path) == Front(path)
Truncated(seq, n) == SubSeq(seq, 1, IF n < Len(seq) THEN n ELSE Len(seq))
First(S, seq, else) == LET hits == {i \in DOMAIN seq : seq[i] \in S}
                       IN IF hits = {} THEN else ELSE seq[Min(hits)]

\* From a directory to a name in it, or to the directory above.
Walk(dir, name) ==
    IF name # ParentDir THEN Append(dir, name) ELSE IF dir = <<>> THEN dir ELSE Front(dir)
normalise_path(path) ==
    LET Walked[n \in 0 .. Len(path)] == IF n = 0 THEN <<>> ELSE Walk(Walked[n - 1], path[n])
    IN Walked[Len(path)]

\* Path::with_extension replaces what follows the last dot of the name, if there is one.
with_extension(path, ext) ==
    LET name == Last(path)
    IN IF name = ParentDir THEN path
       ELSE Append(Front(path), Append(IF Len(name) > 1 THEN Front(name) ELSE name, ext))

(***************************************************************************)
(* Aliases of tsconfig.json: configs, the deepest directory first, each a  *)
(* sequence of rules from a pattern to targets, with at most one '*' at    *)
(* their ends.                                                             *)
(***************************************************************************)
match_alias_pattern(pattern, names) ==
    IF pattern.star THEN IsPrefix(pattern.names, names) /\ Len(names) > Len(pattern.names)
    ELSE pattern.names = names

apply_alias_target(target, pattern, names) ==
    IF target.star THEN target.names \o SubSeq(names, Len(pattern.names) + 1, Len(names))
    ELSE target.names

expand_ts_alias_candidates(base) ==
    LET exts == <<"ts", "tsx", "js", "jsx", "mjs", "cjs">>
    IN IF Len(Last(base)) > 1 THEN <<base>>
       ELSE <<base>> \o [i \in 1 .. 6 |-> with_extension(base, exts[i])]
                     \o [i \in 1 .. 6 |-> Append(base, <<"index", exts[i]>>)]

\* The candidates of an import, in the order they are tried.
AliasCandidates(p, names, from) ==
    LET OfTarget(config, rule, target) ==
            expand_ts_alias_candidates(normalise_path(
                config.dir \o config.baseUrl \o apply_alias_target(target, rule.pattern, names)))
        OfRule(config, rule) ==
            IF match_alias_pattern(rule.pattern, names)
            THEN FlattenSeq([i \in DOMAIN rule.targets |-> OfTarget(config, rule, rule.targets[i])])
            ELSE <<>>
        OfConfig(config) == FlattenSeq([i \in DOMAIN config.rules |-> OfRule(config, config.rules[i])])
    IN FlattenSeq([i \in DOMAIN p.aliases |-> OfConfig(p.aliases[i])])
       \o expand_ts_alias_candidates(normalise_path(Parent(from) \o names))

\* Only imports that start with '@' or "src/" are looked up.
resolve_ts_path_alias(p, imp, from) ==
    IF imp.style = "scoped" THEN First(p.disk, AliasCandidates(p, imp.names, from), None) ELSE None

(***************************************************************************)
(* Resolution of one import of a file of project p, to its target and the  *)
(* kind of dependency; the lists of files are those in scope.              *)
(***************************************************************************)
Resolved(kind, target) == [kind |-> kind, target |-> target]
Text(imp) == <<<<imp.style>>>> \o imp.names

ImportKind(imp) ==
    IF imp.style \in {"relative", "python"} THEN "internal"
    ELSE IF imp.style = "rust" /\ imp.names[1] \in {<<"crate">>, <<"self">>, <<"super">>}
         THEN "internal" ELSE "external"

\* Mutant: a file .mcpignore hides is a dependency like any other.
ClassifyAsInternal(files, path) ==
    IF path \in Range(files.allowed) \cup Range(files.restricted) THEN Resolved("internal", path) ELSE None

classify_project_path(files, path) ==
    IF path \in Range(files.allowed) THEN Resolved("internal", path)
    ELSE IF path \in Range(files.restricted) THEN Resolved("restricted", path)
    ELSE None

resolve_ts_alias_import(p, files, imp, from) ==
    LET target == resolve_ts_path_alias(p, imp, from)
        found == classify_project_path(files, target)
    IN IF Last(Last(from)) \notin {"js", "jsx", "mjs", "cjs", "ts", "tsx"} \/ imp.style = "relative" \/ target = None
       THEN None
       ELSE IF found # None THEN found ELSE Resolved("unresolved", Text(imp))

resolve_relative_import_path(files, imp, from) ==
    LET joined == Parent(from) \o imp.names
        exts == <<"rs", "ts", "tsx", "js", "py", "java">>
        tried == <<normalise_path(joined)>>
                 \o [i \in 1 .. 6 |-> normalise_path(with_extension(joined, exts[i]))]
        target == First(Range(files.allowed) \cup Range(files.restricted), tried, None)
    IN IF target = None THEN Resolved("unresolved", Text(imp)) ELSE classify_project_path(files, target)

\* One leading crate or self is dropped, then every leading super.
normalise_internal_reference(names) ==
    LET local == IF Len(names) > 1 /\ names[1] \in {<<"crate">>, <<"self">>} THEN Tail(names) ELSE names
        own == {n \in DOMAIN local : n = Len(local) \/ local[n] # <<"super">>}
    IN SubSeq(local, Min(own), Len(local))

\* A name without these extensions at its end, and a path whose name has none.
Trimmed(name, ext) == SubSeq(name, 1, Max({1} \cup {i \in DOMAIN name : name[i] # ext}))
Stem(path) ==
    LET java == Trimmed(Trimmed(Trimmed(Last(path), "rs"), "py"), "java")
    IN Append(Front(path), Trimmed(Trimmed(Trimmed(java, "tsx"), "ts"), "js"))

find_matching_file(names, files) ==
    First({f \in Range(files) : IsSuffix(names, Stem(f))}, files, None)

resolve_non_relative_import_path(files, imp) ==
    LET names == normalise_internal_reference(imp.names)
        local == find_matching_file(names, files.allowed)
        hidden == find_matching_file(names, files.restricted)
    IN IF local # None THEN Resolved("internal", local)
       ELSE IF hidden # None THEN Resolved("restricted", hidden)
       ELSE Resolved("unresolved", Text(imp))

resolve_import_path(p, files, imp, from) ==
    LET alias == resolve_ts_alias_import(p, files, imp, from)
    IN IF alias # None THEN alias
       ELSE IF ImportKind(imp) = "external" THEN Resolved("external", Text(imp))
       ELSE IF imp.style = "relative" THEN resolve_relative_import_path(files, imp, from)
       ELSE resolve_non_relative_import_path(files, imp)

(***************************************************************************)
(* The table of dependencies: relative path of a file -> its lists, which  *)
(* hold no string twice.                                                   *)
(***************************************************************************)
relative(path) == SubSeq(path, Len(Root) + 1, Len(path))
Rank == [x \in Range(Order) |-> CHOOSE i \in DOMAIN Order : Order[i] = x]
FirstOf(S, n) == IF Cardinality(S) <= n THEN S
                 ELSE {x \in S : Cardinality({y \in S : Rank[y] < Rank[x]}) < n}
NoDeps == [internal |-> {}, restricted |-> {}, external |-> {}, unresolved |-> {}, dependents |-> {},
           resolvedInternal |-> 0, unresolvedActionable |-> 0]

bounded_limit(arg, default, maximum) ==
    IF arg = None THEN default ELSE IF arg[1] > maximum THEN maximum ELSE arg[1]

filter_by_scope(files, scope) ==
    IF scope = None THEN files ELSE Where(files, LAMBDA f : scope \in Range(f))

Scoped(p, params) == [allowed |-> filter_by_scope(p.allowed, params.scope),
                      restricted |-> filter_by_scope(p.restricted, params.scope)]

\* The files read: those that still exist among the first 2 * max_nodes, at most max_nodes.
FilesRead(p, files, maxNodes) ==
    Truncated(Where(Truncated(files.allowed, 2 * maxNodes), LAMBDA f : f \in p.disk), maxNodes)

DepsOfFile(p, files, params, file) ==
    LET imports == p.imports[file]
        found == [i \in DOMAIN imports |-> resolve_import_path(p, files, imports[i], file)]
        Targets(kind) == {r.target : r \in {x \in Range(found) : x.kind = kind}}
        List(kind) == FirstOf(Targets(kind), params.maxEdges)
    IN [internal |-> List("internal"), restricted |-> List("restricted"),
        external |-> IF params.external THEN List("external") ELSE {},
        unresolved |-> IF params.unresolved THEN List("unresolved") ELSE {},
        dependents |-> {},
        resolvedInternal |-> Cardinality(Targets("internal")),
        unresolvedActionable |-> Cardinality({i \in DOMAIN found : found[i].kind = "unresolved"})]

\* build_file_dependencies with apply_dependency_type_filters.
build_file_dependencies(p, params) ==
    LET files == Scoped(p, params)
    IN [key \in {relative(f) : f \in Range(FilesRead(p, files, params.maxNodes))} |->
            DepsOfFile(p, files, params, Root \o key)]

\* Mutant: a restricted file has no dependents.
WithoutRestricted(d) == d.internal

Within(d) == d.internal \cup d.restricted

reverse_dependencies(deps) ==
    [target \in UNION {Within(deps[key]) : key \in DOMAIN deps} |->
        [NoDeps EXCEPT !.dependents = {key \in DOMAIN deps : target \in Within(deps[key])}]]

merge_with_reverse_dependencies(deps) ==
    LET reversed == reverse_dependencies(deps)
        Own(key) == IF key \in DOMAIN deps THEN deps[key] ELSE NoDeps
    IN [key \in DOMAIN deps \cup DOMAIN reversed |->
            IF key \in DOMAIN reversed
            THEN [Own(key) EXCEPT !.dependents = reversed[key].dependents] ELSE deps[key]]

Directed(deps, direction) ==
    CASE direction = "inbound" -> reverse_dependencies(deps)
      [] direction = "both" -> merge_with_reverse_dependencies(deps)
      [] OTHER -> deps

collect_neighbors(d, direction) ==
    (IF direction = "inbound" THEN {} ELSE Within(d) \cup d.external \cup d.unresolved)
    \cup (IF direction = "outbound" THEN {} ELSE d.dependents)

\* Breadth first from the files in scope, at most five levels.
apply_depth_limit(deps, params) ==
    LET inScope == {key \in DOMAIN deps : params.scope \in Range(key)}
        roots == IF params.scope = None \/ inScope = {} THEN DOMAIN deps ELSE inScope
        depth == IF params.depth[1] < 5 THEN params.depth[1] ELSE 5
        Next(visited) ==
            visited \cup (DOMAIN deps \cap
                UNION {collect_neighbors(deps[key], params.direction) : key \in visited})
        Visited[level \in 0 .. depth] == IF level = 0 THEN roots ELSE Next(Visited[level - 1])
    IN IF params.depth = None THEN deps ELSE [key \in Visited[depth] |-> deps[key]]

\* Strongly connected components of more than one file, and files that import themselves.
detect_dependency_cycles(deps) ==
    LET Direct == [key \in DOMAIN deps |-> DOMAIN deps \cap Within(deps[key])]
        Through(mid, reach) == [key \in DOMAIN deps |->
            IF mid \in reach[key] THEN reach[key] \cup reach[mid] ELSE reach[key]]
        reach == FoldSet(Through, Direct, DOMAIN deps)
    IN {{k \in reach[key] : key \in reach[k]} : key \in {k \in DOMAIN deps : k \in reach[k]}}

(***************************************************************************)
(* The response.                                                           *)
(***************************************************************************)
\* The first name of a package that is not crate, self or super.
compact_external_namespace(text) ==
    LET own == SelectSeq(Tail(text), LAMBDA n : n \notin {<<"crate">>, <<"self">>, <<"super">>})
    IN <<IF own = <<>> THEN text[2] ELSE own[1]>>

Edge(source, target, label) == [source |-> source, target |-> target, label |-> label]

EdgesOf(deps, mode) ==
    LET Name(kind, dep) ==
            IF kind = "external" /\ mode = "summary" THEN compact_external_namespace(dep) ELSE dep
        Out(key, kind) == {Edge(key, Name(kind, dep), kind) : dep \in deps[key][kind]}
        In(key) == {Edge(dep, key, "inbound") : dep \in deps[key].dependents}
    IN UNION {In(key) \cup Out(key, "internal") \cup Out(key, "restricted")
                \cup Out(key, "external") \cup Out(key, "unresolved") : key \in DOMAIN deps}

NodesOf(deps, mode) ==
    DOMAIN deps \cup UNION {{e.source, e.target} : e \in EdgesOf(deps, mode)}

Labels == <<"external", "inbound", "internal", "restricted", "unresolved">>
EdgeBefore(e, f) ==
    \/ Rank[e.source] < Rank[f.source]
    \/ e.source = f.source /\ Rank[e.target] < Rank[f.target]
    \/ e.source = f.source /\ e.target = f.target
       /\ \E i, j \in DOMAIN Labels : i < j /\ e.label = Labels[i] /\ f.label = Labels[j]

Total(S, Count(_)) == FoldSet(LAMBDA x, sum : sum + Count(x), 0, S)

\* The bytes of a response: of its nodes, its edges, and the rest of it.  A name has those
\* of what is shown of it; each node and edge has some of its own, among them those of a
\* comma, which the last has not.
ListBytes(own) == IF DOMAIN own = {} THEN 0 ELSE Total(DOMAIN own, LAMBDA x : own[x]) - 1
GraphBytes(nodes, edges, bytes) ==
    bytes.rest + ListBytes([n \in nodes |-> bytes.node + bytes.name[n]])
    + ListBytes([e \in edges |-> bytes.edge[e.label] + bytes.name[e.source] + bytes.name[e.target]])

\* Mutant: nodes go without their edges.
TrimNodes(nodes, edges, bytes, budget) ==
    LET n == Cardinality(nodes)
        Bytes(k) == GraphBytes(FirstOf(nodes, n - k), edges, bytes)
        popped == Min({k \in 0 .. n : k = n \/ Bytes(k) <= budget})
    IN [nodes |-> FirstOf(nodes, n - popped), edges |-> edges, bytes |-> Bytes(popped),
        truncated |-> popped > 0, reason |-> "response_nodes_trimmed"]

\* Over the budget, the last edge is popped while there is one, then the last node, until
\* the response fits or nothing is left.
ensure_budget(nodes, edges, bytes, budget) ==
    LET n == Cardinality(nodes)
        m == Cardinality(edges)
        FirstEdges(i) == {e \in edges : Cardinality({f \in edges : EdgeBefore(f, e)}) < i}
        NodesLeft(k) == IF k <= m THEN nodes ELSE FirstOf(nodes, n + m - k)
        EdgesLeft(k) == IF k < m THEN FirstEdges(m - k) ELSE {}
        Bytes(k) == GraphBytes(NodesLeft(k), EdgesLeft(k), bytes)
        whole == GraphBytes(nodes, edges, bytes)
        popped == Min({k \in 0 .. n + m : k = n + m \/ Bytes(k) <= budget})
    IN IF whole <= budget
       THEN [nodes |-> nodes, edges |-> edges, bytes |-> whole, truncated |-> FALSE, reason |-> "none"]
       ELSE [nodes |-> NodesLeft(popped), edges |-> EdgesLeft(popped), bytes |-> Bytes(popped), truncated |-> TRUE,
             reason |-> IF popped <= m /\ Bytes(popped) <= budget THEN "response_bytes_limit"
                        ELSE "response_nodes_trimmed"]

\* The statistics of the first max_nodes files of the table.
generate_summary(deps, params) ==
    LET shown == FirstOf(DOMAIN deps, params.maxNodes)
        Fanout(d) == Cardinality(Within(d)) + Cardinality(d.external) + Cardinality(d.unresolved)
    IN [totalFiles |-> Cardinality(DOMAIN deps),
        totalInternal |-> Total(shown, LAMBDA key : Cardinality(deps[key].internal)),
        totalRestricted |-> Total(shown, LAMBDA key : Cardinality(deps[key].restricted)),
        totalExternal |-> Cardinality(UNION {deps[key].external : key \in shown}),
        totalUnresolved |-> Total(shown, LAMBDA key : Cardinality(deps[key].unresolved)),
        resolvedInternal |-> Total(shown, LAMBDA key : deps[key].resolvedInternal),
        unresolvedActionable |-> Total(shown, LAMBDA key : deps[key].unresolvedActionable),
        hotspots |-> {[file |-> key, fanout |-> Fanout(deps[key]), fanin |-> Cardinality(deps[key].dependents)]
                         : key \in {k \in shown : Fanout(deps[k]) > 0 \/ deps[k].dependents # {}}},
        truncated |-> Cardinality(DOMAIN deps) > params.maxNodes]

RedactedName == <<<<"[REDACTED_BY_MCP]">>>>

\* Names that hold a secret are replaced, in the nodes and at the ends of edges.  The
\* code does so before the budget, whose cut goes by place, and measures what is shown.
sanitize_dependency_graph(graph, secrets) ==
    LET Clean(name) == IF name \in secrets THEN RedactedName ELSE name
    IN [graph EXCEPT
            !.nodes = {Clean(n) : n \in graph.nodes},
            !.edges = {Edge(Clean(e.source), Clean(e.target), e.label) : e \in graph.edges}]

\* The limits of the arguments are bounded first: <<>> stands for an absent argument.
from_args(args) ==
    [args EXCEPT !.maxNodes = bounded_limit(@, 100, 200), !.maxEdges = bounded_limit(@, 50, 100)]

\* The table an answer is drawn from.
Table(p, params) ==
    apply_depth_limit(Directed(build_file_dependencies(p, params), params.direction), params)

\* The answers: there is one.  What measures it is told in it afterwards, unmeasured.
get_dependencies_graph(p, args) ==
    LET params == from_args(args)
        Answer(deps, shown) == [nodes |-> shown.nodes, edges |-> shown.edges, bytes |-> shown.bytes,
                               truncated |-> shown.truncated, reason |-> shown.reason,
                               cycles |-> detect_dependency_cycles(deps), summary |-> generate_summary(deps, params)]
        Kept(deps) == {ensure_budget(nodes, edges, params.bytes, params.budget) :
                          nodes \in {NodesOf(deps, params.mode)}, edges \in {EdgesOf(deps, params.mode)}}
        Shown(deps) == {sanitize_dependency_graph(kept, p.secrets) : kept \in Kept(deps)}
    IN UNION {{Answer(deps, shown) : shown \in Shown(deps)} : deps \in {Table(p, params)}}
================================================================================
