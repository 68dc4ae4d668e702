------------------------------ MODULE ProjectTree ------------------------------
(***************************************************************************)
(* FileIndex: the rules of .mcpignore, the walk that parts the files of a  *)
(* project into allowed and restricted ones, and the tree rendered of it.  *)
(*                                                                         *)
(* A path is a sequence of names, relative to the root of the project.  A  *)
(* pattern is rooted when it starts with '/', may be no glob that is valid,*)
(* and has as glob the paths that what is written of it matches by itself; *)
(* a '*' or '?' may match '/', so that these are of several lengths.       *)
(***************************************************************************)
EXTENDS Integers, FiniteSets, Sequences, SequencesExt

CONSTANTS Names,  \* every name of a project, in the order of strings
          MaxRenderDepth, MaxRenderFiles, MaxRenderDirs

Error == [allowed |-> <<>>, restricted |-> <<>>, error |-> TRUE]
Index(allowed, restricted) == [allowed |-> allowed, restricted |-> restricted, error |-> FALSE]

\* Lines that are neither comments nor blank; a file that cannot be read has none.
load_mcpignore(file) ==
    IF ~file.readable THEN <<>>
    ELSE LET rules == SelectSeq(file.lines, LAMBDA line : line.kind = "pattern")
         IN [i \in DOMAIN rules |-> rules[i].pattern]

\* Pattern and pattern/**, and for one that is not rooted **/pattern and **/pattern/**.
GlobMatches(pattern, path) ==
    \E first, last \in 1 .. Len(path) :
        /\ pattern.rooted => first = 1
        /\ SubSeq(path, first, last) \in pattern.glob

\* Mutant: a rule hides what it matches and nothing below.
MatchesItself(patterns, path) ==
    \E i \in DOMAIN patterns : \E first \in 1 .. Len(path) :
        /\ patterns[i].rooted => first = 1
        /\ SubSeq(path, first, Len(path)) \in patterns[i].glob

is_match(patterns, path) == \E i \in DOMAIN patterns : GlobMatches(patterns[i], path)

\* walk: the regular files git would not ignore, in the order the directories list them.
walk_files(walk, patterns) ==
    LET seen == SelectSeq(walk, LAMBDA path : ~(Len(path) > 1 /\ path[1] \in {"target", ".git"}))
    IN Index(SelectSeq(seen, LAMBDA path : ~is_match(patterns, path)),
             SelectSeq(seen, LAMBDA path : is_match(patterns, path)))

\* FileIndex::build: one invalid pattern and there is no index.
build(walk, mcpignore) ==
    LET patterns == load_mcpignore(mcpignore)
    IN IF \E i \in DOMAIN patterns : ~patterns[i].valid THEN Error
       ELSE walk_files(walk, patterns)

(***************************************************************************)
(* render_tree.  A node of the tree is the path of its directory; a line   *)
(* is a file, a directory with its statistics, or how many are left out.   *)
(***************************************************************************)
Sorted(names) == SelectSeq(Names, LAMBDA name : name \in names)

FilesOf(index) == Range(index.allowed) \cup Range(index.restricted)
Nodes(index) == UNION {{SubSeq(f, 1, n) : n \in 0 .. Len(f) - 1} : f \in FilesOf(index)} \cup {<<>>}
FilesIn(index, node) == {Last(f) : f \in {f \in FilesOf(index) : Front(f) = node}}
DirsIn(index, node) == {Last(d) : d \in {d \in Nodes(index) : d # <<>> /\ Front(d) = node}}

\* TreeNode::stats: what a node has itself, and the sum over its directories.
stats(index) ==
    LET Sum(a, b) == [files |-> a.files + b.files, dirs |-> a.dirs + b.dirs,
                      restricted |-> a.restricted + b.restricted]
        Of[node \in Nodes(index)] ==
            FoldSet(LAMBDA name, sum : Sum(sum, Of[Append(node, name)]),
                    [files |-> Cardinality(FilesIn(index, node)),
                     dirs |-> Cardinality(DirsIn(index, node)),
                     restricted |-> Cardinality({name \in FilesIn(index, node) :
                                                    Append(node, name) \in Range(index.restricted)})],
                    DirsIn(index, node))
    IN Of

Line(kind, path, info) == [kind |-> kind, path |-> path, info |-> info]

\* The first limit names, each with what it Shows, and the number of the others.
Listing(node, names, limit, Shows(_), others) ==
    LET sorted == Sorted(names)
        shown == IF Len(sorted) > limit THEN limit ELSE Len(sorted)
    IN FlattenSeq([i \in 1 .. shown |-> Shows(Append(node, sorted[i]))])
       \o IF Len(sorted) > limit THEN <<Line(others, node, Len(sorted) - limit)>> ELSE <<>>

\* TreeNode::render_into: the files of a node, then its directories and what is in them.
render_tree(index) ==
    LET Stats == stats(index)
        FileLine(path) == <<Line("file", path, path \in Range(index.restricted))>>
        RenderInto[depth \in 0 .. MaxRenderDepth - 1, node \in Nodes(index)] ==
            LET DirLines(path) ==
                    <<Line("dir", path, Stats[path])>>
                    \o IF depth + 1 < MaxRenderDepth THEN RenderInto[depth + 1, path] ELSE <<>>
            IN Listing(node, FilesIn(index, node), MaxRenderFiles, FileLine, "more files")
               \o Listing(node, DirsIn(index, node), MaxRenderDirs, DirLines, "more directories")
    IN <<Line("dir", <<>>, Stats[<<>>])>> \o RenderInto[0, <<>>]
================================================================================
