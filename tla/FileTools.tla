------------------------------- MODULE FileTools -------------------------------
(***************************************************************************)
(* The tools that read one file: what the parser keeps of its functions,   *)
(* and the answers of get_file_outline, inspect_symbol, get_module_summary,*)
(* query_ast and read_config_file; and search_design_patterns.             *)
(*                                                                         *)
(* A file is where its path leads (outside the root or not), whether       *)
(* .mcpignore restricts it, whether it can be read, its language           *)
(* ("unknown" without a grammar), its function nodes and types, and the    *)
(* lines of a configuration file.  A function node has its name, the       *)
(* chain of the syntax nodes that contain it, the innermost first, what    *)
(* precedes it, the children of its body, whether its text holds           *)
(* @mcp-strip, and which of its identifier and its signature a built-in    *)
(* pattern matches ("Secret::from_bytes" and "net.local" are such).        *)
(***************************************************************************)
EXTENDS Integers, FiniteSets, Sequences, SequencesExt, Privacy

(***************************************************************************)
(* Functions.                                                              *)
(***************************************************************************)
OwnerKinds(language) ==
    CASE language = "rust" -> {"impl_item"}
      [] language = "python" -> {"class_definition"}
      [] language = "kotlin" -> {"class_declaration", "object_declaration"}
      [] language \in {"javascript", "typescript", "tsx"} -> {"class_declaration"}
      [] language = "java" -> {"class_declaration", "interface_declaration", "enum_declaration",
                               "record_declaration", "annotation_type_declaration"}
      [] language = "csharp" -> {"class_declaration", "interface_declaration", "struct_declaration",
                                 "enum_declaration"}
      [] OTHER -> {}

\* The named owners, the outermost first, and the receiver of a Go method; a Kotlin class
\* owns what is in its class_body, not in that of an enumeration.
extract_owner_chain(node, language) ==
    LET above == node.ancestors
        IsOwner(i) == /\ above[i].kind \in OwnerKinds(language) /\ above[i].name # ""
                      /\ language = "kotlin" => i > 1 /\ above[i - 1].kind = "class_body"
        owners == At(above, {i \in DOMAIN above : IsOwner(i)})[Len(above)]
        names == Reverse(Mapped(owners, LAMBDA a : a.name))
    IN IF language = "go" /\ node.receiver # "" THEN Append(names, node.receiver) ELSE names

build_qualified_name(name, owners) == Append(owners, name)

\* A marked comment just before the function, or before the first statement of its body.
has_mcp_strip_in_ast(node) ==
    \/ node.before = "marked"
    \/ /\ ~node.inValue
       /\ \E i \in DOMAIN node.children :
              node.children[i] = "marked" /\ \A j \in 1 .. i : node.children[j] # "statement"

\* The range of a body that is a block.
find_body_node(node) == IF node.body = "block" THEN <<node.range>> ELSE <<>>

FunctionInfo(node, language) ==
    [name |-> node.name, qualified |-> build_qualified_name(node.name, extract_owner_chain(node, language)),
     strip |-> IF language = "python" THEN node.marker ELSE has_mcp_strip_in_ast(node),
     range |-> find_body_node(node), source |-> node.text, signature |-> node.signature, roles |-> node.roles,
     redacted |-> node.redacted, first |-> node.first, last |-> node.last, public |-> node.public, documented |-> node.documented]

\* Of an unreadable file, or one without a grammar, nothing is kept.
analyze_file(file) ==
    IF ~file.readable THEN [language |-> "", functions |-> <<>>, types |-> <<>>]
    ELSE IF file.language \in {"unknown", "scss"}
    THEN [language |-> file.language, functions |-> <<>>, types |-> <<>>]
    ELSE [language |-> file.language, types |-> file.types,
          functions |-> Mapped(file.functions, LAMBDA node : FunctionInfo(node, file.language))]

(***************************************************************************)
(* The tools.                                                              *)
(***************************************************************************)
Notice(kind) == [kind |-> kind]

\* Mutant: .mcpignore is not asked.
GuardedByRoot(file, Answer) == IF file.outside THEN Notice("denied") ELSE Answer

\* validate_path, then is_restricted: what every tool asks first.
Guarded(file, Answer) ==
    IF file.outside THEN Notice("denied") ELSE IF file.restricted THEN Notice("restricted") ELSE Answer

\* Blank lines and comments are dropped after they were sanitized.
render_config_outline(file) ==
    IF ~file.readable THEN Notice("unreadable")
    ELSE LET kept == Where(sanitize_config_text(file.lines).lines,
                           LAMBDA line : line.kind \notin {"blank", "comment"})
         IN [kind |-> "config", lines |-> kept]

\* The whole outline is sanitized: of an identifier or a signature that a pattern matches
\* it has a text with the notice in it, which stands for any such text.
sanitize_file_outline(entry, redacted) ==
    [entry EXCEPT !.canonical = IF "identifier" \in redacted THEN <<NoticeName>> ELSE entry.canonical,
                  !.signature = IF "signature" \in redacted THEN {NoticeName} ELSE entry.signature]

get_file_outline(file) ==
    LET analysis == analyze_file(file)
        Entry(f) == sanitize_file_outline([canonical |-> f.qualified, signature |-> f.signature, strip |-> f.strip,
                                           first |-> f.first, last |-> f.last], f.redacted)
    IN Guarded(file,
           IF is_config_file(file) THEN render_config_outline(file)
           ELSE [kind |-> "outline", functions |-> Mapped(analysis.functions, Entry),
                 types |-> Mapped(analysis.types, LAMBDA t : IF t.redacted THEN NoticeName ELSE t.name)])

read_config_file(file) ==
    Guarded(file,
        IF ~is_config_file(file) THEN Notice("no configuration")
        ELSE IF ~file.readable \/ file.large THEN Notice("unreadable")
        ELSE LET done == sanitize_config_text(file.lines)
             IN [kind |-> "config", lines |-> done.lines, redactions |-> done.fired])

\* Mutant: a qualified symbol is looked up by its last name.
MatchesByName(functions, symbol, mode) ==
    IF mode = "qualified" \/ Len(symbol) > 1 THEN Where(functions, LAMBDA f : f.name = symbol[1])
    ELSE Where(functions, LAMBDA f : <<f.name>> = symbol)

\* A symbol of one name may be simple or qualified; one of several is qualified.
SymbolMatches(functions, symbol, mode) ==
    LET Simple == Where(functions, LAMBDA f : <<f.name>> = symbol)
        Qualified == Where(functions, LAMBDA f : f.qualified = symbol)
    IN CASE mode = "simple" -> Simple
         [] mode = "qualified" -> Qualified
         [] OTHER -> IF Len(symbol) > 1 \/ Simple = <<>> THEN Qualified ELSE Simple

\* The body of a marked function is replaced when its range is known.
SourceOf(f) == IF f.strip /\ f.range # <<>> THEN strip_body_by_range(f.source, f.range[1]) ELSE f.source

inspect_symbol(file, symbol, mode, all, hint) ==
    LET functions == analyze_file(file).functions
        found == Where(SymbolMatches(functions, symbol, mode), LAMBDA f : hint = "" \/ hint \in f.signature)
        Candidate(f) == [qualified |-> f.qualified, signature |-> f.signature, first |-> f.first, last |-> f.last]
        Inspected(f) == [symbol |-> Candidate(f), source |-> sanitize_function_source(SourceOf(f), <<>>).text]
    IN Guarded(file,
           IF found = <<>>
           THEN [kind |-> "not found", available |-> {functions[i].qualified : i \in DOMAIN functions}]
           ELSE IF Len(found) > 1 /\ ~all
           THEN [kind |-> "ambiguous", candidates |-> Mapped(found, Candidate)]
           ELSE [kind |-> "ok", matches |-> Mapped(found, Inspected)])

get_module_summary(file, publicOnly) ==
    LET analysis == analyze_file(file)
        Full(symbols) == Where(symbols, LAMBDA s : s.public \/ ~publicOnly)
        Hidden(symbols) == IF publicOnly THEN Mapped(Where(symbols, LAMBDA s : ~s.public), LAMBDA s : s.name)
                           ELSE <<>>
        Entry(s) == [name |-> s.name, documented |-> s.documented]
    IN Guarded(file,
           [kind |-> "summary", functions |-> Mapped(Full(analysis.functions), Entry),
            types |-> Mapped(Full(analysis.types), Entry),
            hiddenFunctions |-> Hidden(analysis.functions), hiddenTypes |-> Hidden(analysis.types)])

\* captures: the texts the query captures, each sanitized by itself.
query_ast(file, query, rules) ==
    Guarded(file,
        IF file.language \in {"unknown", "scss"} THEN Notice("unsupported")
        ELSE IF ~file.readable THEN Notice("unreadable")
        ELSE IF ~query.valid THEN Notice("invalid query")
        ELSE [kind |-> "captures", captures |-> Mapped(query.captures, LAMBDA text :
                  sanitize_text_with_dynamic_patterns(text, rules))])

(***************************************************************************)
(* Design patterns.  roles are the names a function's name is or begins    *)
(* with, marks the words in the name of a type.                            *)
(***************************************************************************)
PatternNames == <<"Builder", "Factory", "Observer", "Repository", "Singleton", "Strategy">>

detect_patterns(analysis) ==
    LET With(role) == Where(analysis.functions, LAMBDA f : role \in f.roles)
        Marked(mark) == Where(analysis.types, LAMBDA t : mark \in t.marks)
        Has(role) == With(role) # <<>>
        Match(pattern, held, line) == IF held THEN <<[pattern |-> pattern, line |-> line]>> ELSE <<>>
        LineOf(seq) == IF seq = <<>> THEN 0 ELSE seq[1].first
    IN Match("Singleton", Has("instance"), LineOf(With("instance")))
       \o Match("Builder", Len(With("with_")) >= 2 /\ Has("build"), LineOf(With("with_")))
       \o Match("Factory", Marked("factory") # <<>> \/ Len(With("create_")) >= 2, 0)
       \o Match("Observer", Has("subscribe") /\ Has("notify"), 0)
       \o Match("Repository", Has("find_") /\ Has("save") /\ Has("delete"), 0)
       \o Match("Strategy", Marked("strategy") # <<>>, LineOf(Marked("strategy")))

\* The file asked for, or those of the index in scope.
select_candidate_files(files, args) ==
    IF args.filePath # <<>> THEN args.filePath
    ELSE Where(files, LAMBDA f : ~f.restricted /\ ~f.outside /\ args.scope \in f.scopes)

\* Mutant: a file that is asked for by its path is not checked again.
CollectUnasked(files, maxFiles) ==
    LET taken == SubSeq(files, 1, IF maxFiles < Len(files) THEN maxFiles ELSE Len(files))
        OfFile(f) == Mapped(detect_patterns(analyze_file(f)), LAMBDA m :
                         [pattern |-> m.pattern, line |-> m.line, file |-> f.rank])
    IN [matches |-> FlattenSeq(Mapped(taken, OfFile)), scanned |-> Len(taken)]

collect_pattern_matches(files, maxFiles) ==
    LET taken == SubSeq(files, 1, IF maxFiles < Len(files) THEN maxFiles ELSE Len(files))
        scanned == Where(taken, LAMBDA f : ~f.outside /\ ~f.restricted)
        OfFile(f) == Mapped(detect_patterns(analyze_file(f)), LAMBDA m :
                         [pattern |-> m.pattern, line |-> m.line, file |-> f.rank])
    IN [matches |-> FlattenSeq(Mapped(scanned, OfFile)), scanned |-> Len(scanned)]

\* By pattern, file and line, by file and line, or by line and file; else as found.
sort_patterns(matches, sortBy) ==
    LET PatternRank(m) == CHOOSE i \in DOMAIN PatternNames : PatternNames[i] = m.pattern
        Key(m) == CASE sortBy = "file" -> <<m.file, m.line>>
                    [] sortBy = "line" -> <<m.line, m.file>>
                    [] OTHER -> <<PatternRank(m), m.file, m.line>>
        Less(k, l) == \E n \in DOMAIN k : k[n] < l[n] /\ \A o \in 1 .. n - 1 : k[o] = l[o]
        Before(i, j) == \/ Less(Key(matches[i]), Key(matches[j]))
                        \/ Key(matches[i]) = Key(matches[j]) /\ i < j
    IN Sorted(matches, Before)

\* room: how many matches fit in the response.
search_design_patterns(files, args, room) ==
    LET found == collect_pattern_matches(select_candidate_files(files, args), args.maxFiles)
        Count(Of(_)) == [x \in {Of(m) : m \in Range(found.matches)} |->
                            Len(Where(found.matches, LAMBDA m : Of(m) = x))]
        limit == IF args.mode = "summary" /\ args.maxMatches > 100 THEN 100 ELSE args.maxMatches
        asked == SubSeq(sort_patterns(found.matches, args.sortBy), 1,
                        IF limit < Len(found.matches) THEN limit ELSE Len(found.matches))
    IN IF found.matches = <<>> THEN Notice("no patterns")
       ELSE [kind |-> "patterns", total |-> Len(found.matches), scanned |-> found.scanned,
             byPattern |-> Count(LAMBDA m : m.pattern), byFile |-> Count(LAMBDA m : m.file),
             matches |-> SubSeq(asked, 1, IF room < Len(asked) THEN room ELSE Len(asked)),
             truncated |-> room < Len(asked)]
================================================================================
