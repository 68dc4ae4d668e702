------------------------------ MODULE ProjectDocs ------------------------------
(***************************************************************************)
(* generate_project_docs: one page of the files of a project, the shallow  *)
(* first, with the overview, the entrypoints, the API and the use cases    *)
(* told from the analyses of its files, and the offset of the next page.   *)
(*                                                                         *)
(* analysis maps a path to what was parsed of the file: its language,      *)
(* whether it has a module comment, its functions and types (name, prefix, *)
(* public, doc), the frameworks its imports name, and whether it holds the *)
(* literal "__main__".  doc is "none", "plain", "use" for a line of more   *)
(* than ten characters with one of the verbs of use, or "short" for less.  *)
(***************************************************************************)
EXTENDS Integers, FiniteSets, Sequences, SequencesExt, Listing

CONSTANTS MaxApiEntries,  \* MAX_API_ENTRIES
          MaxUseCases

Truncated(seq, n) == SubSeq(seq, 1, IF n < Len(seq) THEN n ELSE Len(seq))
Public(symbols) == Where(symbols, LAMBDA s : s.public)
Sum(seq, Of(_)) == FoldLeft(LAMBDA sum, x : sum + Of(x), 0, seq)

(***************************************************************************)
(* Entrypoints: of every file its main function and sentinel, of the page  *)
(* the first framework of each sort; a library when there is no other.     *)
(***************************************************************************)
Entry(kind, name, file) == [kind |-> kind, name |-> name, file |-> file]

detect_entrypoints(pages, analysis) ==
    LET OfFile(found, file) ==
            LET a == analysis[file]
                has == {found[i].kind : i \in DOMAIN found}
                main == IF \E i \in DOMAIN a.functions : a.functions[i].name = "main"
                        THEN <<Entry("main", "main", file)>> ELSE <<>>
                sentinel == IF a.language = "python" /\ a.sentinel
                            THEN <<Entry("main", "__main__", file)>> ELSE <<>>
                OfSort(seq, f) ==
                    IF f.kind \in has \cup {seq[i].kind : i \in DOMAIN seq} THEN seq
                    ELSE Append(seq, Entry(f.kind, f.name, file))
            IN found \o main \o sentinel \o FoldLeft(OfSort, <<>>, a.frameworks)
        all == FoldLeft(OfFile, <<>>, pages)
        api == \E i \in DOMAIN pages : LET a == analysis[pages[i]]
                                       IN Public(a.functions) # <<>> \/ Public(a.types) # <<>>
    IN IF all = <<>> /\ api THEN <<Entry("library", "", <<>>)>> ELSE all

(***************************************************************************)
(* Use cases: one for each function whose comment says its use, then one   *)
(* for each verb two functions or more begin with and no such function     *)
(* does; the verbs are taken in any order.                                 *)
(***************************************************************************)
UseCase(confidence, functions) == [confidence |-> confidence, functions |-> functions]

\* The use cases a page may give.
infer_use_cases(pages, analysis) ==
    LET functions == FlattenSeq([i \in DOMAIN pages |-> Public(analysis[pages[i]].functions)])
        Told(cases, f) ==
            IF f.doc # "use" \/ \E i \in DOMAIN cases : f.name \in cases[i].functions THEN cases
            ELSE Append(cases, UseCase("high", {f.name}))
        high == FoldLeft(Told, <<>>, functions)
        told == UNION {high[i].functions : i \in DOMAIN high}
        Group(prefix) == {i \in DOMAIN functions : functions[i].prefix = prefix}
        verbs == {v \in {functions[i].prefix : i \in DOMAIN functions} \ {""} :
                     /\ Cardinality(Group(v)) >= 2
                     /\ \A i \in Group(v) : functions[i].name \notin told}
        OfVerb(v) == UseCase("medium", {functions[i].name : i \in Group(v)})
    IN {Truncated(high \o [i \in DOMAIN order |-> OfVerb(order[i])], MaxUseCases) : order \in SetToSeqs(verbs)}

(***************************************************************************)
(* The sections.                                                           *)
(***************************************************************************)
render_overview(pages, analysis, total) ==
    LET Count(Of(_)) == Sum(pages, LAMBDA f : Of(analysis[f]))
        documented == Where(pages, LAMBDA f : analysis[f].moduleDoc)
    IN [languages |-> [l \in {analysis[f].language : f \in Range(pages)} |->
                          Cardinality({i \in DOMAIN pages : analysis[pages[i]].language = l})],
        functions |-> Count(LAMBDA a : Len(Public(a.functions))),
        types |-> Count(LAMBDA a : Len(Public(a.types))),
        documented |-> Count(LAMBDA a : Len(Where(Public(a.functions), LAMBDA f : f.doc # "none"))),
        moduleDoc |-> SubSeq(documented, 1, IF documented = <<>> THEN 0 ELSE 1),
        partOf |-> IF Len(pages) < total THEN <<Len(pages), total>> ELSE <<>>]

\* The types, then the functions of each file that has any, until the limit is met.
render_api(pages, analysis, publicOnly) ==
    LET Listed(symbols) == IF publicOnly THEN Public(symbols) ELSE symbols
        OfFile(f) == LET symbols == Listed(analysis[f].types) \o Listed(analysis[f].functions)
                     IN [i \in DOMAIN symbols |-> [file |-> f, name |-> symbols[i].name]]
        entries == FlattenSeq([i \in DOMAIN pages |-> OfFile(pages[i])])
    IN [entries |-> Truncated(entries, MaxApiEntries), cut |-> Len(entries) >= MaxApiEntries]

\* A section that was not asked for is left out.
render_document(pages, analysis, total, args) ==
    LET Sections(cases) ==
            [overview |-> render_overview(pages, analysis, total),
             usage |-> detect_entrypoints(pages, analysis),
             api |-> render_api(pages, analysis, args.publicOnly),
             use_cases |-> cases]
        Wanted(doc) == [section \in DOMAIN doc \cap args.sections |-> doc[section]]
    IN {Wanted(Sections(cases)) : cases \in infer_use_cases(pages, analysis)}

(***************************************************************************)
(* Pages.  The order of the index is kept among files of the same depth.   *)
(***************************************************************************)
ByDepth(files) ==
    LET Before(i, j) == \/ Len(files[i]) < Len(files[j])
                        \/ Len(files[i]) = Len(files[j]) /\ i < j
    IN Sorted(files, Before)

collect_project_docs_data(files, maxFiles, fileOffset) ==
    LET total == Len(files)
        offset == IF fileOffset < total THEN fileOffset ELSE total
        selected == Truncated(SubSeq(ByDepth(files), offset + 1, total), maxFiles)
    IN [total |-> total, offset |-> offset, selected |-> selected,
        hasNext |-> offset + Len(selected) < total]

Header(kind, data, next) == [kind |-> kind, first |-> data.offset + 1, next |-> next]

\* Mutant: the next page skips a file.
HeaderSkipping(maxFiles, fileOffset, data) ==
    IF ~(data.total > maxFiles \/ fileOffset > 0) THEN Header("none", data, 0)
    ELSE IF data.hasNext THEN Header("next", data, data.offset + Len(data.selected) + 1)
    ELSE Header("last", data, 0)

\* No header, or the place of the page and the offset of the next one, or that this is the last.
render_pagination_header(maxFiles, fileOffset, data) ==
    IF ~(data.total > maxFiles \/ fileOffset > 0) THEN Header("none", data, 0)
    ELSE IF data.hasNext THEN Header("next", data, data.offset + Len(data.selected))
    ELSE Header("last", data, 0)

Notice(kind) == {[kind |-> kind]}

\* The answers one call may give; a file that cannot be read has an empty analysis.
generate_project_docs(files, analysis, args) ==
    LET max == IF args.maxFiles < 150 THEN args.maxFiles ELSE 150
        data == collect_project_docs_data(files, max, args.fileOffset)
    IN IF files = <<>> THEN Notice("no accessible files")
       ELSE IF data.selected = <<>> THEN Notice("no files analysed")
       ELSE {[kind |-> "page", files |-> data.selected, document |-> document,
              header |-> render_pagination_header(max, args.fileOffset, data)] :
                 document \in render_document(data.selected, analysis, data.total, args)}
================================================================================
