---------------------------- MODULE ReportsProofs ----------------------------
(***************************************************************************)
(* What is proved of the tools that report on a project: the pages of its  *)
(* documentation, for every index, analysis and request; the rules of      *)
(* level 1, for every source and language; the results of the external     *)
(* linters, for every output they may print; the report of an audit, for   *)
(* every project; and the design patterns, for all files and limits.       *)
(***************************************************************************)
EXTENDS GatewayProofs

(***************************************************************************)
(* Pieces of a sequence.                                                   *)
(***************************************************************************)
LEMMA SubSeqJoins ==
    ASSUME NEW S, NEW seq \in Seq(S), NEW a \in Nat \ {0}, NEW b \in Nat, NEW c \in Nat,
           a <= b + 1, b <= c, c <= Len(seq)
    PROVE  SubSeq(seq, a, b) \o SubSeq(seq, b + 1, c) = SubSeq(seq, a, c)
<1> DEFINE s == SubSeq(seq, a, b)
           t == SubSeq(seq, b + 1, c)
           u == SubSeq(seq, a, c)
<1>1. s \in Seq(S) /\ Len(s) = b - a + 1 /\ \A i \in 1 .. b - a + 1 : s[i] = seq[a + i - 1]
  BY SubSeqParts
<1>2. t \in Seq(S) /\ Len(t) = c - b /\ \A i \in 1 .. c - b : t[i] = seq[b + i]
  <2>1. b + 1 \in Nat \ {0} /\ b + 1 <= c + 1 /\ c - (b + 1) + 1 = c - b /\ \A i \in Nat : (b + 1) + i - 1 = b + i
    OBVIOUS
  <2> HIDE DEF t
  <2>2. t \in Seq(S) /\ Len(t) = c - (b + 1) + 1 /\ \A i \in 1 .. c - (b + 1) + 1 : t[i] = seq[(b + 1) + i - 1]
    BY <2>1, SubSeqParts DEF t
  <2> QED
    BY <2>1, <2>2
<1>3. u \in Seq(S) /\ Len(u) = c - a + 1 /\ \A i \in 1 .. c - a + 1 : u[i] = seq[a + i - 1]
  BY SubSeqParts
<1> HIDE DEF s, t, u
<1>4. s \o t \in Seq(S) /\ Len(s \o t) = c - a + 1
  <2>1. s \in Seq(S) /\ Len(s) = b - a + 1 /\ t \in Seq(S) /\ Len(t) = c - b
    BY <1>1, <1>2
  <2>2. s \o t \in Seq(S) /\ Len(s \o t) = Len(s) + Len(t)
    BY <2>1, SMTT(30)
  <2> QED
    BY <2>1, <2>2
<1>5. ASSUME NEW i \in 1 .. c - a + 1 PROVE (s \o t)[i] = u[i]
  <2>1. CASE i <= b - a + 1
    <3>1. (s \o t)[i] = s[i] /\ i \in 1 .. b - a + 1
      BY <1>1, <1>2, <2>1
    <3> QED
      BY <1>1, <1>3, <3>1
  <2>2. CASE i > b - a + 1
    <3>1. (s \o t)[i] = t[i - (b - a + 1)] /\ i - (b - a + 1) \in 1 .. c - b
      BY <1>1, <1>2, <2>2
    <3>2. t[i - (b - a + 1)] = seq[b + (i - (b - a + 1))]
      BY <1>2, <3>1
    <3>3. b + (i - (b - a + 1)) = a + i - 1
      OBVIOUS
    <3> QED
      BY <1>3, <3>1, <3>2, <3>3
  <2>3. i <= b - a + 1 \/ i > b - a + 1
    OBVIOUS
  <2> QED
    BY <2>1, <2>2, <2>3
<1> QED
  BY <1>3, <1>4, <1>5 DEF s, t, u

(***************************************************************************)
(* The order of the pages.                                                 *)
(***************************************************************************)
Paths == DOMAIN Analysis

LEMMA ByDepthPermutes ==
    ASSUME NEW files \in Indexes
    PROVE  Permuted(P!ByDepth(files), files, Paths)
<1> DEFINE depth == [i \in DOMAIN files |-> Len(files[i])]
           below == [i \in DOMAIN files |->
                        {j \in DOMAIN files : \/ Len(files[j]) < Len(files[i])
                                              \/ Len(files[j]) = Len(files[i]) /\ j < i}]
<1>1. files \in Seq(Paths) /\ DOMAIN files \subseteq Nat /\ \A i \in DOMAIN files : depth[i] \in Nat
  <2>1. files \in Seq(Paths) /\ \A path \in Paths : path \in Seq(STRING)
    BY DocsAssumption DEF Paths
  <2> QED
    BY <2>1
<1>2. P!ByDepth(files) = [n \in DOMAIN files |-> files[CHOOSE i \in DOMAIN files :
          Cardinality({j \in DOMAIN files : \/ Len(files[j]) < Len(files[i])
                                            \/ Len(files[j]) = Len(files[i]) /\ j < i}) = n - 1]]
  BY DEF P!ByDepth, P!Sorted, P!Cardinality, Cardinality
<1>3. P!ByDepth(files) = [n \in DOMAIN files |-> files[CHOOSE i \in DOMAIN files : Cardinality(below[i]) = n - 1]]
  BY <1>2
<1>4. /\ below \in [DOMAIN files -> SUBSET DOMAIN files]
      /\ \A i \in DOMAIN files : below[i] = {j \in DOMAIN files : \/ depth[j] < depth[i]
                                                                  \/ depth[j] = depth[i] /\ j < i}
  OBVIOUS
<1> HIDE DEF below, depth
<1>5. /\ \A x \in DOMAIN files : x \notin below[x]
      /\ \A x, y \in DOMAIN files : x \in below[y] => below[x] \subseteq below[y]
      /\ \A x, y \in DOMAIN files : x = y \/ x \in below[y] \/ y \in below[x]
  BY <1>1, <1>4
<1> QED
  BY <1>1, <1>3, <1>4, <1>5, PlacesPermute

(***************************************************************************)
(* One page.                                                               *)
(***************************************************************************)
\* The page of the files from the offset on, where the last ends.
IsPage(page, files, offset) ==
    /\ page.files \in Seq(Paths) /\ offset + Len(page.files) <= Len(files)
    /\ page.files = SubSeq(P!ByDepth(files), offset + 1, offset + Len(page.files))
    /\ page.header.first = offset + 1
    /\ page.header.kind = "next" => page.header.next = offset + Len(page.files)
    /\ page.header.kind # "next" => offset + Len(page.files) = Len(files)

\* Its sections are told from its files.
IsTold(page) ==
    \E total, args : page.document \in P!render_document(page.files, Analysis, total, args)

LEMMA HeaderParts ==
    ASSUME NEW max, NEW fileOffset, NEW data
    PROVE  LET header == P!render_pagination_header(max, fileOffset, data)
           IN /\ header.first = data.offset + 1
              /\ header.kind = "next" => header.next = data.offset + Len(data.selected)
              /\ header.kind # "next" => ~(data.total > max \/ fileOffset > 0) \/ ~data.hasNext
  BY Zenon DEF P!render_pagination_header, P!Header

LEMMA PageGiven ==
    ASSUME NEW files \in Indexes, NEW r, r.maxFiles \in Nat, r.fileOffset \in Nat,
           NEW page \in P!generate_project_docs(files, Analysis, r), page.kind = "page"
    PROVE  /\ r.fileOffset < Len(files) /\ IsPage(page, files, r.fileOffset) /\ IsTold(page)
<1> DEFINE order == P!ByDepth(files)
           total == Len(files)
           max == IF r.maxFiles < 150 THEN r.maxFiles ELSE 150
           offset == IF r.fileOffset < total THEN r.fileOffset ELSE total
           left == total - offset
           some == IF max < left THEN max ELSE left
           rest == SubSeq(order, offset + 1, total)
           selected == P!Truncated(rest, max)
           data == P!collect_project_docs_data(files, max, r.fileOffset)
           header == P!render_pagination_header(max, r.fileOffset, data)
<1>1. /\ total \in Nat /\ max \in Nat /\ offset \in Nat /\ offset <= total /\ left \in Nat
      /\ some \in Nat /\ some <= left
  <2>1. total \in Nat
    BY DocsAssumption
  <2> HIDE DEF total
  <2> QED
    BY <2>1
<1>2. order \in Seq(Paths) /\ Len(order) = total
  BY ByDepthPermutes DEF Permuted
<1>3. /\ data.total = total /\ data.offset = offset /\ data.selected = selected
      /\ data.hasNext <=> offset + Len(selected) < total
  BY Zenon DEF P!collect_project_docs_data
<1> HIDE DEF order, total, max, offset, data, rest, selected
<1>4. rest \in Seq(Paths) /\ Len(rest) = left /\ \A i \in 1 .. left : rest[i] = order[offset + i]
  <2>1. offset + 1 \in Nat \ {0} /\ offset + 1 <= total + 1 /\ total - (offset + 1) + 1 = left
    BY <1>1
  <2>2. rest \in Seq(Paths) /\ Len(rest) = total - (offset + 1) + 1
    BY <1>1, <1>2, <2>1, SubSeqParts DEF rest
  <2>3. \A i \in 1 .. total - (offset + 1) + 1 : rest[i] = order[(offset + 1) + i - 1]
    BY <1>1, <1>2, <2>1, SubSeqParts DEF rest
  <2>4. \A i \in 1 .. left : (offset + 1) + i - 1 = offset + i
    BY <1>1
  <2> QED
    BY <2>1, <2>2, <2>3, <2>4
<1>5. selected = SubSeq(order, offset + 1, offset + some) /\ selected \in Seq(Paths) /\ Len(selected) = some
  <2>1. selected = SubSeq(rest, 1, some)
    BY <1>4, Zenon DEF selected, P!Truncated
  <2>2. some <= Len(rest) /\ 1 <= some + 1 /\ 1 \in Nat \ {0} /\ some - 1 + 1 = some
    BY <1>1, <1>4
  <2>3. selected \in Seq(Paths) /\ Len(selected) = some /\ \A i \in 1 .. some : selected[i] = rest[1 + i - 1]
    <3> HIDE DEF some
    <3>1. SubSeq(rest, 1, some) \in Seq(Paths) /\ Len(SubSeq(rest, 1, some)) = some - 1 + 1
      BY <1>1, <1>4, <2>2, SubSeqParts
    <3>2. \A i \in 1 .. some - 1 + 1 : SubSeq(rest, 1, some)[i] = rest[1 + i - 1]
      BY <1>1, <1>4, <2>2, SubSeqParts
    <3> QED
      BY <2>1, <2>2, <3>1, <3>2
  <2> DEFINE piece == SubSeq(order, offset + 1, offset + some)
  <2>4. piece \in Seq(Paths) /\ Len(piece) = some /\ \A i \in 1 .. some : piece[i] = order[offset + i]
    <3>1. /\ offset + 1 \in Nat \ {0} /\ offset + some \in Nat /\ offset + 1 <= (offset + some) + 1
          /\ offset + some <= total /\ (offset + some) - (offset + 1) + 1 = some
          /\ \A i \in 1 .. some : (offset + 1) + i - 1 = offset + i
      BY <1>1
    <3>2. piece \in Seq(Paths) /\ Len(piece) = (offset + some) - (offset + 1) + 1
      BY <1>2, <3>1, SubSeqParts
    <3>3. \A i \in 1 .. (offset + some) - (offset + 1) + 1 : piece[i] = order[(offset + 1) + i - 1]
      BY <1>2, <3>1, SubSeqParts
    <3> HIDE DEF piece, some
    <3> QED
      BY <3>1, <3>2, <3>3
  <2> HIDE DEF piece
  <2>5. ASSUME NEW i \in 1 .. some PROVE selected[i] = piece[i]
    <3>1. selected[i] = rest[1 + i - 1] /\ 1 + i - 1 = i /\ i \in 1 .. left
      BY <1>1, <2>3
    <3> QED
      BY <1>4, <2>4, <3>1
  <2> HIDE DEF some
  <2>6. selected = piece
    BY <1>1, <2>3, <2>4, <2>5
  <2> QED
    BY <2>3, <2>6, Zenon DEF piece
<1>6. /\ page.kind = "page" /\ page.files = selected /\ page.header = header /\ selected # <<>>
      /\ page.document \in P!render_document(selected, Analysis, total, r)
  <2>1. \A kind : \A notice \in P!Notice(kind) : notice.kind = kind
    BY DEF P!Notice
  <2>2. page \notin P!Notice("no accessible files") /\ page \notin P!Notice("no files analysed")
    <3>1. page \in P!Notice("no accessible files") => page.kind = "no accessible files"
      BY <2>1, Zenon
    <3>2. page \in P!Notice("no files analysed") => page.kind = "no files analysed"
      BY <2>1, Zenon
    <3> QED
      BY <3>1, <3>2
  <2>3. data.selected # <<>> /\
        page \in {[kind |-> "page", files |-> data.selected, document |-> document, header |-> header] :
                    document \in P!render_document(data.selected, Analysis, data.total, r)}
    BY <2>2, Zenon DEF P!generate_project_docs, data, max
  <2> QED
    BY <1>3, <2>3
<1>7. r.fileOffset < total
  <2>1. some # 0
    BY <1>5, <1>6
  <2> QED
    BY <1>1, <2>1 DEF offset
<1>8. offset = r.fileOffset
  BY <1>7 DEF offset
<1>9. /\ page.header.first = offset + 1
      /\ page.header.kind = "next" => page.header.next = offset + some
      /\ page.header.kind # "next" => ~(total > max \/ r.fileOffset > 0) \/ ~(offset + some < total)
  BY <1>3, <1>5, <1>6, HeaderParts
<1>10. page.header.kind # "next" => offset + some = total
  <2>1. ASSUME ~(total > max \/ r.fileOffset > 0) PROVE offset + some = total
    BY <1>1, <1>8, <2>1
  <2>2. ASSUME ~(offset + some < total) PROVE offset + some = total
    BY <1>1, <2>2
  <2> QED
    BY <1>9, <2>1, <2>2
<1>11. IsTold(page)
  BY <1>6, Zenon DEF IsTold
<1>12. offset + some <= total
  BY <1>1
<1> HIDE DEF some
<1> QED
  BY <1>5, <1>6, <1>7, <1>8, <1>9, <1>10, <1>11, <1>12 DEF IsPage, order, total

(***************************************************************************)
(* The API section.                                                        *)
(***************************************************************************)
Holds(seq, x) == \E i \in DOMAIN seq : seq[i] = x
Symbols(f) == Range(Analysis[f].functions) \cup Range(Analysis[f].types)
AllSymbols == UNION {Symbols(f) : f \in Paths}

LEMMA PublicHolds ==
    ASSUME NEW S, NEW symbols \in Seq(S)
    PROVE  P!Public(symbols) \in Seq(S) /\ \A s : s.public /\ Holds(symbols, s) => Holds(P!Public(symbols), s)
<1> DEFINE places == {i \in DOMAIN symbols : symbols[i].public}
           out == At(symbols, places)[Len(symbols)]
<1>1. out \in Seq(S) /\ Taken(out, symbols, places)
  BY AtPlaces
<1>2. P!Public(symbols) = P!At(symbols, places)[Len(symbols)]
  BY DEF P!Public, P!Where
<1>3. P!Public(symbols) = out
  BY <1>2, SameAt, Zenon
<1>4. ASSUME NEW s, s.public, Holds(symbols, s) PROVE Holds(out, s)
  <2>1. \E i \in DOMAIN symbols \cap places : symbols[i] = s
    BY <1>4, Zenon DEF Holds
  <2> HIDE DEF out, places
  <2> QED
    BY <1>1, <2>1, Zenon DEF Taken, Holds
<1> HIDE DEF out
<1> QED
  BY <1>1, <1>3, <1>4

\* The public symbols of a file are listed.
LEMMA FileListed ==
    ASSUME NEW f \in Paths, NEW types, NEW functions, NEW publicOnly,
           types = (IF publicOnly THEN P!Public(Analysis[f].types) ELSE Analysis[f].types),
           functions = (IF publicOnly THEN P!Public(Analysis[f].functions) ELSE Analysis[f].functions)
    PROVE  /\ types \o functions \in Seq(AllSymbols)
           /\ \A s \in Symbols(f) : s.public => Holds(types \o functions, s)
<1>1. Analysis[f].functions \in Seq(AllSymbols) /\ Analysis[f].types \in Seq(AllSymbols)
  <2>1. IsAnalysis(Analysis[f]) /\ Symbols(f) \subseteq AllSymbols
    BY DocsAssumption DEF AllSymbols, Paths
  <2>2. \A T, U, seq : seq \in Seq(T) /\ T \subseteq U => seq \in Seq(U)
    OBVIOUS
  <2> QED
    BY <2>1, <2>2 DEF IsAnalysis, Symbols
<1>2. \A s \in Symbols(f) : Holds(Analysis[f].functions, s) \/ Holds(Analysis[f].types, s)
  BY DEF Symbols, Holds, Range
<1>3. /\ types \in Seq(AllSymbols) /\ functions \in Seq(AllSymbols)
      /\ \A s : s.public /\ Holds(Analysis[f].types, s) => Holds(types, s)
      /\ \A s : s.public /\ Holds(Analysis[f].functions, s) => Holds(functions, s)
  <2>1. CASE publicOnly
    BY <1>1, <2>1, PublicHolds
  <2>2. CASE ~publicOnly
    BY <1>1, <2>2
  <2> QED
    BY <2>1, <2>2
<1>4. types \o functions \in Seq(AllSymbols) /\ Both(types \o functions, types, functions)
  BY <1>3, ConcatGathers
<1>5. \A s : Holds(types, s) \/ Holds(functions, s) => Holds(types \o functions, s)
  BY <1>4, Zenon DEF Both, Holds
<1> QED
  BY <1>2, <1>3, <1>4, <1>5

LEMMA ApiLists ==
    ASSUME NEW files \in Seq(Paths), NEW publicOnly, ~P!render_api(files, Analysis, publicOnly).cut,
           NEW f, Holds(files, f), NEW s \in Symbols(f), s.public
    PROVE  Holds(P!render_api(files, Analysis, publicOnly).entries, [file |-> f, name |-> s.name])
<1> DEFINE Types(g) == IF publicOnly THEN P!Public(Analysis[g].types) ELSE Analysis[g].types
           Functions(g) == IF publicOnly THEN P!Public(Analysis[g].functions) ELSE Analysis[g].functions
           listed(g) == Types(g) \o Functions(g)
           Entries == [file : Paths, name : {t.name : t \in AllSymbols}]
           EntriesOf(g) == [i \in DOMAIN listed(g) |-> [file |-> g, name |-> listed(g)[i].name]]
           seqs == [i \in DOMAIN files |-> EntriesOf(files[i])]
           entries == FlattenSeq(seqs)
           api == P!render_api(files, Analysis, publicOnly)
<1>1. api = [entries |-> P!Truncated(P!FlattenSeq(seqs), MaxApiEntries), cut |-> Len(P!FlattenSeq(seqs)) >= MaxApiEntries]
  BY Zenon DEF P!render_api
<1>2. api.entries = P!Truncated(entries, MaxApiEntries) /\ (api.cut <=> Len(entries) >= MaxApiEntries)
  <2>1. P!FlattenSeq(seqs) = entries
    BY SameFlattenSeq, Zenon
  <2> DEFINE cut == P!Truncated(entries, MaxApiEntries)
             full == Len(entries) >= MaxApiEntries
  <2>2. api = [entries |-> cut, cut |-> full]
    BY <1>1, <2>1, Zenon
  <2> HIDE DEF api, cut, full
  <2> QED
    BY <2>2, Zenon DEF cut, full
<1>3. ASSUME NEW g \in Paths
      PROVE  /\ EntriesOf(g) \in Seq(Entries)
             /\ \A t \in Symbols(g) : t.public => Holds(EntriesOf(g), [file |-> g, name |-> t.name])
  <2>1. /\ listed(g) \in Seq(AllSymbols)
        /\ \A t \in Symbols(g) : t.public => Holds(listed(g), t)
    BY FileListed
  <2> HIDE DEF listed
  <2> DEFINE es == EntriesOf(g)
  <2>2. /\ DOMAIN listed(g) = 1 .. Len(listed(g)) /\ Len(listed(g)) \in Nat
        /\ \A i \in DOMAIN listed(g) : listed(g)[i] \in AllSymbols
    BY <2>1
  <2>3. \A i \in DOMAIN listed(g) : [file |-> g, name |-> listed(g)[i].name] \in Entries
    BY <2>2
  <2>4. es \in [1 .. Len(listed(g)) -> Entries]
    BY <2>2, <2>3, Zenon
  <2>5. es \in Seq(Entries) /\ DOMAIN es = DOMAIN listed(g)
    <3> HIDE DEF es, Entries
    <3> QED
      BY <2>2, <2>4
  <2>6. ASSUME NEW t \in Symbols(g), t.public PROVE Holds(es, [file |-> g, name |-> t.name])
    <3>1. PICK i \in DOMAIN listed(g) : listed(g)[i] = t
      BY <2>1, <2>6, Zenon DEF Holds
    <3>2. es[i] = [file |-> g, name |-> t.name]
      BY <3>1, Zenon
    <3> QED
      BY <2>5, <3>1, <3>2, Zenon DEF Holds
  <2> QED
    BY <2>5, <2>6
<1> HIDE DEF EntriesOf, Entries, api
<1>4. seqs \in Seq(Seq(Entries)) /\ DOMAIN seqs = DOMAIN files
  <2>1. \A i \in DOMAIN files : EntriesOf(files[i]) \in Seq(Entries)
    BY <1>3
  <2>2. DOMAIN files = 1 .. Len(files) /\ Len(files) \in Nat
    OBVIOUS
  <2>3. seqs \in [1 .. Len(files) -> Seq(Entries)]
    BY <2>1, <2>2, Zenon
  <2> HIDE DEF seqs
  <2> QED
    BY <2>2, <2>3
<1>5. entries \in Seq(Entries) /\ Gathered(entries, seqs)
  <2> HIDE DEF seqs
  <2> QED
    BY <1>4, FlattenGathers
<1>6. PICK i \in DOMAIN files : files[i] = f
  BY DEF Holds
<1>7. f \in Paths /\ seqs[i] = EntriesOf(f)
  BY <1>6
<1>8. Holds(EntriesOf(f), [file |-> f, name |-> s.name])
  BY <1>3, <1>7
<1>9. Holds(entries, [file |-> f, name |-> s.name])
  <2> HIDE DEF seqs, entries
  <2> QED
    <3> DEFINE x == [file |-> f, name |-> s.name]
    <3> HIDE DEF x
    <3>1. PICK k \in DOMAIN seqs[i] : seqs[i][k] = x
      BY <1>7, <1>8, Zenon DEF Holds, x
    <3>2. i \in DOMAIN seqs
      BY <1>4
    <3>3. Holds(entries, x)
      BY <1>5, <3>1, <3>2, Zenon DEF Holds, Gathered
    <3> QED
      BY <3>3 DEF x
<1>10. P!Truncated(entries, MaxApiEntries) = entries
  <2> HIDE DEF entries
  <2>1. ~(Len(entries) >= MaxApiEntries) /\ MaxApiEntries \in Nat /\ Len(entries) \in Nat
    BY <1>2, <1>5, DocsAssumption DEF api
  <2>2. ~(MaxApiEntries < Len(entries))
    BY <2>1
  <2>3. SubSeq(entries, 1, Len(entries)) = entries
    BY <1>5
  <2> QED
    BY <2>2, <2>3, Zenon DEF P!Truncated
<1> QED
  BY <1>2, <1>9, <1>10, Zenon DEF api

(***************************************************************************)
(* The conversation of a client that follows the offsets.                  *)
(***************************************************************************)
FilesRead(pages) == FlattenSeq([i \in DOMAIN pages |-> pages[i].files])

\* The pages go from where the first begins up to where the next begins.
Reads(pages, files, next) ==
    /\ pages \in Seq(Range(pages)) /\ pages # <<>>
    /\ \A i \in DOMAIN pages : pages[i].files \in Seq(Paths) /\ IsTold(pages[i])
    /\ pages[1].header.first \in Nat \ {0} /\ next \in Nat
    /\ pages[1].header.first <= next + 1 /\ next <= Len(files)
    /\ FilesRead(pages) = SubSeq(P!ByDepth(files), pages[1].header.first, next)

DocsRequest(r) == {"maxFiles", "fileOffset"} \subseteq DOMAIN r /\ r.maxFiles \in Nat /\ r.fileOffset \in Nat

PagesInv ==
    tool = "generate_project_docs" =>
        /\ index.files \in Indexes
        /\ index.steady =>
              /\ request # <<>> => request = <<Req>> /\ DocsRequest(Req)
              /\ answer # <<>> => /\ request # <<>> /\ answer = <<Ans>>
                                  /\ Ans \in P!generate_project_docs(index.files, Analysis, Req)
              /\ heard # <<>> => request # <<>> /\ Reads(heard, index.files, Req.fileOffset)

LEMMA FunctionIsSeq == \A S : \A n \in Nat : \A f \in [1 .. n -> S] : f \in Seq(S) /\ Len(f) = n
  OBVIOUS

\* A page from where the pages end continues them.
LEMMA PageContinues ==
    ASSUME NEW files \in Indexes, NEW pages, NEW next, NEW page,
           next \in Nat, IsPage(page, files, next), IsTold(page),
           pages = <<>> \/ Reads(pages, files, next)
    PROVE  Reads(Append(pages, page), files, next + Len(page.files))
<1> DEFINE more == Append(pages, page)
           order == P!ByDepth(files)
           first == more[1].header.first
           upto == next + Len(page.files)
           lists == [i \in DOMAIN pages |-> pages[i].files]
<1>1. /\ page.files \in Seq(Paths) /\ Len(page.files) \in Nat /\ upto \in Nat /\ upto <= Len(files)
      /\ page.files = SubSeq(order, next + 1, upto) /\ page.header.first = next + 1
  <2>1. page.files \in Seq(Paths) /\ Len(page.files) \in Nat
    BY DEF IsPage
  <2> QED
    BY <2>1 DEF IsPage
<1>2. order \in Seq(Paths) /\ Len(order) = Len(files)
  BY ByDepthPermutes DEF Permuted
<1>3. /\ pages \in Seq(Range(pages)) /\ Len(pages) \in Nat /\ DOMAIN pages = 1 .. Len(pages)
      /\ \A i \in DOMAIN pages : pages[i].files \in Seq(Paths) /\ IsTold(pages[i])
  <2>1. CASE pages = <<>>
    BY <2>1 DEF Range
  <2>2. CASE Reads(pages, files, next)
    BY <2>2 DEF Reads
  <2> QED
    BY <2>1, <2>2
<1>4. /\ DOMAIN more = 1 .. Len(pages) + 1 /\ Len(more) = Len(pages) + 1 /\ more # <<>>
      /\ more[Len(pages) + 1] = page /\ \A i \in 1 .. Len(pages) : more[i] = pages[i]
  <2>1. /\ Len(more) = Len(pages) + 1 /\ DOMAIN more = 1 .. Len(pages) + 1
        /\ more[Len(pages) + 1] = page /\ \A i \in 1 .. Len(pages) : more[i] = pages[i]
    BY <1>3
  <2> HIDE DEF more
  <2> QED
    BY <1>3, <2>1
<1>5. more \in Seq(Range(more))
  <2>1. \A i \in 1 .. Len(pages) + 1 : more[i] \in Range(more)
    BY <1>4 DEF Range
  <2>2. more \in Seq(Range(pages) \cup {page})
    BY <1>3
  <2> HIDE DEF more
  <2> QED
    BY <1>3, <1>4, <2>1, <2>2
<1> HIDE DEF order, upto, more
<1>6. \A i \in DOMAIN more : more[i].files \in Seq(Paths) /\ IsTold(more[i])
  <2>1. \A i \in DOMAIN more : i \in 1 .. Len(pages) \/ i = Len(pages) + 1
    BY <1>3, <1>4
  <2> QED
    BY <1>1, <1>3, <1>4, <2>1, Zenon
<1>7. lists \in Seq(Seq(Paths)) /\ Len(lists) = Len(pages)
  <2>1. lists \in [1 .. Len(pages) -> Seq(Paths)]
    BY <1>3
  <2> HIDE DEF lists
  <2> QED
    BY <1>3, <2>1
<1>8. [i \in DOMAIN more |-> more[i].files] = Append(lists, page.files)
  <2> DEFINE both == [i \in DOMAIN more |-> more[i].files]
  <2>1. \A i \in 1 .. Len(pages) : both[i] = lists[i]
    BY <1>3, <1>4
  <2>2. both[Len(pages) + 1] = page.files
    BY <1>3, <1>4
  <2>3. both \in Seq(Seq(Paths)) /\ Len(both) = Len(pages) + 1
    <3>1. both \in [1 .. Len(pages) + 1 -> Seq(Paths)]
      BY <1>4, <1>6
    <3> HIDE DEF both
    <3> QED
      BY <1>3, <3>1, FunctionIsSeq
  <2>4. /\ Append(lists, page.files) \in Seq(Seq(Paths)) /\ Len(Append(lists, page.files)) = Len(pages) + 1
        /\ \A i \in 1 .. Len(pages) : Append(lists, page.files)[i] = lists[i]
        /\ Append(lists, page.files)[Len(pages) + 1] = page.files
    <3> HIDE DEF lists
    <3> QED
      BY <1>1, <1>3, <1>7
  <2>5. \A i \in 1 .. Len(pages) + 1 : i \in 1 .. Len(pages) \/ i = Len(pages) + 1
    BY <1>3
  <2> HIDE DEF both, lists
  <2>6. \A i \in 1 .. Len(pages) + 1 : both[i] = Append(lists, page.files)[i]
    BY <2>1, <2>2, <2>4, <2>5, Zenon
  <2> QED
    BY <2>3, <2>4, <2>6 DEF both
<1>9. FilesRead(more) = FilesRead(pages) \o page.files
  <2> HIDE DEF lists
  <2>1. FlattenSeq(Append(lists, page.files)) = FlattenSeq(lists) \o page.files
    BY <1>1, <1>7, FlattenAppend
  <2> QED
    BY <1>8, <2>1, Zenon DEF FilesRead, lists
<1>10. CASE pages = <<>>
  <2>1. first = next + 1 /\ lists = <<>>
    BY <1>1, <1>4, <1>10
  <2>2. FlattenSeq(<<>>) = <<>>
    <3>1. <<>> \in Seq(Seq(Paths)) /\ Len(<<>>) = 0
      OBVIOUS
    <3> QED
      BY <3>1, FlattenJoins DEF Joined
  <2>3. FilesRead(more) = page.files
    BY <1>1, <1>9, <2>1, <2>2 DEF FilesRead
  <2> QED
    BY <1>1, <1>4, <1>5, <1>6, <2>1, <2>3 DEF Reads, more, order, upto
<1>11. CASE pages # <<>>
  <2>1. Reads(pages, files, next) /\ first = pages[1].header.first
    BY <1>3, <1>4, <1>11
  <2>2. /\ FilesRead(pages) = SubSeq(order, first, next)
        /\ first \in Nat \ {0} /\ first <= next + 1 /\ next <= upto
    BY <1>1, <2>1 DEF Reads, order, upto
  <2>3. SubSeq(order, first, next) \o SubSeq(order, next + 1, upto) = SubSeq(order, first, upto)
    <3> HIDE DEF first
    <3> QED
      BY <1>1, <1>2, <2>2, SubSeqJoins
  <2>4. FilesRead(more) = SubSeq(order, first, upto)
    BY <1>1, <1>9, <2>2, <2>3
  <2>5. first <= upto + 1
    BY <1>1, <2>2
  <2> QED
    BY <1>1, <1>4, <1>5, <1>6, <2>2, <2>4, <2>5 DEF Reads, more, order, upto
<1> QED
  BY <1>10, <1>11

LEMMA PagesInit == Init => PagesInv
<1> SUFFICES ASSUME Init, tool = "generate_project_docs" PROVE index.files \in Indexes
  BY DEF Init, PagesInv
<1> QED
  BY DEF Init

LEMMA PagesNext ==
    ASSUME PagesInv, [Next]_vars
    PROVE  PagesInv'
<1>1. CASE UNCHANGED <<tool, call, index>>
  BY <1>1 DEF PagesInv, call, Req, Ans
<1> SUFFICES ASSUME tool = "generate_project_docs", tool' = tool PROVE PagesInv'
  BY DEF PagesInv, Next, vars, Ask, Answer, Return, NextPage, InspectListed, RefreshIndex, ChangeSettings, BeginPass, LoadOverrides, ApplyRules, GiveResult, ObserveTree, Restart
<1>2. CASE Ask
  <2>1. PICK r \in Requests[tool] : request' = <<r>>
    BY <1>2 DEF Ask
  <2>2. request'[1] = r
    BY <2>1
  <2>3. UNCHANGED <<tool, answer, heard, index>> /\ request = <<>> /\ tool \in DOMAIN Requests
    BY <1>2 DEF Ask
  <2>4. DocsRequest(r)
    BY <2>3, DocsAssumption DEF DocsRequest
  <2> QED
    BY <2>1, <2>2, <2>3, <2>4 DEF PagesInv, Req
<1>3. CASE Answer
  <2>1. UNCHANGED <<tool, request, heard, index>> /\ request # <<>>
    BY <1>3 DEF Answer
  <2>2. Respond(request[1]) = P!generate_project_docs(index.files, Analysis, request[1])
    BY DEF Respond
  <2>3. PICK a \in P!generate_project_docs(index.files, Analysis, request[1]) : answer' = <<a>>
    BY <1>3, <2>2 DEF Answer
  <2>4. answer'[1] = a
    BY <2>3
  <2> QED
    BY <2>1, <2>3, <2>4 DEF PagesInv, Req, Ans
<1>4. CASE Return
  BY <1>4 DEF Return, PagesInv
<1>5. CASE NextPage
  <2>1. /\ answer # <<>> /\ answer[1].kind = "page" /\ answer[1].header.kind = "next"
        /\ heard' = Append(heard, answer[1]) /\ answer' = <<>> /\ UNCHANGED index
        /\ request' = <<[request[1] EXCEPT !.fileOffset = answer[1].header.next]>>
    BY <1>5 DEF NextPage
  <2> SUFFICES ASSUME index.steady
               PROVE  /\ request' = <<Req'>> /\ DocsRequest(Req')
                      /\ Reads(heard', index.files, Req'.fileOffset)
    BY <2>1, Zenon DEF PagesInv
  <2> DEFINE r == Req
             page == Ans
             files == index.files
  <2>2. /\ DocsRequest(r) /\ page \in P!generate_project_docs(files, Analysis, r)
        /\ files \in Indexes
    BY <2>1, Zenon DEF PagesInv
  <2>9. heard = <<>> \/ Reads(heard, files, r.fileOffset)
    BY <2>1, Zenon DEF PagesInv
  <2>3. page.kind = "page" /\ page.header.kind = "next"
    BY <2>1 DEF Ans
  <2>10. heard' = Append(heard, page)
    BY <2>1 DEF Ans
  <2> DEFINE s == [r EXCEPT !.fileOffset = page.header.next]
  <2>4. request' = <<s>> /\ Req' = s
    BY <2>1 DEF Req, Ans
  <2> HIDE DEF r, page, files
  <2>5. IsPage(page, files, r.fileOffset) /\ IsTold(page)
    BY <2>2, <2>3, PageGiven DEF DocsRequest
  <2>6. page.header.next = r.fileOffset + Len(page.files) /\ page.header.next \in Nat
    BY <2>2, <2>3, <2>5 DEF IsPage, DocsRequest
  <2>7. s.fileOffset = page.header.next /\ s.maxFiles = r.maxFiles /\ DOMAIN s = DOMAIN r
    BY <2>2 DEF DocsRequest
  <2>8. Reads(Append(heard, page), files, r.fileOffset + Len(page.files))
    BY <2>2, <2>5, <2>9, PageContinues DEF DocsRequest
  <2> HIDE DEF s
  <2> QED
    BY <2>2, <2>3, <2>4, <2>6, <2>7, <2>8, <2>10 DEF DocsRequest, files
<1>6. CASE RefreshIndex
  <2>1. PICK files \in Indexes : index' = [files |-> files, steady |-> heard = <<>> /\ answer = <<>>]
    BY <1>6, Zenon DEF RefreshIndex
  <2>2. index'.files = files /\ (index'.steady <=> heard = <<>> /\ answer = <<>>)
    BY <2>1, Zenon
  <2>3. UNCHANGED <<request, answer, heard>> /\ index.steady
    BY <1>6, Zenon DEF RefreshIndex, call
  <2> QED
    BY <2>1, <2>2, <2>3, Zenon DEF PagesInv, Req
<1>7. CASE InspectListed \/ ChangeSettings \/ ObserveTree \/ Restart \/ UNCHANGED vars
  <2>1. CASE UNCHANGED vars
    BY <1>1, <2>1 DEF vars
  <2> QED
    BY <1>7, <2>1 DEF InspectListed, ChangeSettings, ObserveTree, Restart
<1>8. CASE \E c \in Callers : BeginPass(c) \/ LoadOverrides(c) \/ ApplyRules(c) \/ GiveResult(c)
  <2>1. UNCHANGED <<tool, call, index>>
    BY <1>8, Zenon DEF BeginPass, LoadOverrides, ApplyRules, GiveResult
  <2> QED
    BY <1>1, <2>1
<1> QED
  BY <1>2, <1>3, <1>4, <1>5, <1>6, <1>7, <1>8 DEF Next

\* The pages tell all (render_pagination_header, project_docs.rs): for every index and
\* page size, a client that follows the offsets while the index stays the same has read
\* every file once by the last page, and each public symbol unless the section is cut.
THEOREM PagesTell == Spec => []PagesTellAll
<1>1. PagesInv => PagesTellAll
  <2> SUFFICES ASSUME PagesInv, Answered("generate_project_docs"), index.steady, Ans.kind = "page",
                      Ans.header.kind # "next", Append(heard, Ans)[1].header.first = 1
               PROVE  /\ Len(FilesRead(Append(heard, Ans))) = Len(index.files)
                      /\ Range(FilesRead(Append(heard, Ans))) = Range(index.files)
                      /\ \A i \in DOMAIN Append(heard, Ans) : LET doc == Append(heard, Ans)[i].document
                                                              IN "api" \in DOMAIN doc /\ ~doc.api.cut =>
                            \A f \in Range(Append(heard, Ans)[i].files) : \A s \in Symbols(f) :
                                s.public => [file |-> f, name |-> s.name] \in Range(doc.api.entries)
    BY Zenon DEF PagesTellAll, FilesRead, Symbols
  <2> DEFINE pages == Append(heard, Ans)
             files == index.files
             r == Req
             order == P!ByDepth(files)
  <2>1. /\ files \in Indexes /\ DocsRequest(r) /\ Ans \in P!generate_project_docs(files, Analysis, r)
        /\ heard = <<>> \/ Reads(heard, files, r.fileOffset)
    BY Zenon DEF PagesInv, Answered
  <2> HIDE DEF r, files
  <2>2. IsPage(Ans, files, r.fileOffset) /\ IsTold(Ans)
    BY <2>1, PageGiven DEF DocsRequest
  <2>3. r.fileOffset + Len(Ans.files) = Len(files)
    BY <2>2 DEF IsPage
  <2>4. Reads(pages, files, Len(files))
    BY <2>1, <2>2, <2>3, PageContinues DEF DocsRequest
  <2> HIDE DEF pages
  <2>5. Permuted(order, files, Paths)
    BY <2>1, ByDepthPermutes
  <2>6. FilesRead(pages) = order
    <3>1. FilesRead(pages) = SubSeq(order, 1, Len(order))
      BY <2>4, <2>5 DEF Reads, Permuted, pages
    <3> QED
      BY <2>5, <3>1 DEF Permuted
  <2>7. Len(order) = Len(files) /\ Range(order) = Range(files)
    <3> HIDE DEF order
    <3>1. \A x : x \in Range(order) <=> x \in Range(files)
      BY <2>5, Zenon DEF Permuted, Range
    <3> QED
      BY <2>5, <3>1 DEF Permuted
  <2>8. ASSUME NEW i \in DOMAIN pages, "api" \in DOMAIN pages[i].document, ~pages[i].document.api.cut,
               NEW f \in Range(pages[i].files), NEW s \in Symbols(f), s.public
        PROVE  [file |-> f, name |-> s.name] \in Range(pages[i].document.api.entries)
    <3> DEFINE page == pages[i]
    <3>1. page.files \in Seq(Paths) /\ IsTold(page)
      BY <2>4 DEF Reads
    <3>2. PICK total, args : page.document \in P!render_document(page.files, Analysis, total, args)
      BY <3>1, Zenon DEF IsTold
    <3>3. page.document.api = P!render_api(page.files, Analysis, args.publicOnly)
      <4> HIDE DEF page
      <4> QED
        BY <2>8, <3>2 DEF P!render_document, page
    <3>4. Holds(page.files, f)
      BY DEF Range, Holds
    <3>5. ~P!render_api(page.files, Analysis, args.publicOnly).cut
      BY <2>8, <3>3, Zenon
    <3> HIDE DEF page
    <3>6. Holds(P!render_api(page.files, Analysis, args.publicOnly).entries, [file |-> f, name |-> s.name])
      BY <2>8, <3>1, <3>4, <3>5, ApiLists
    <3> QED
      BY <3>3, <3>6, Zenon DEF Holds, Range, page
  <2> QED
    BY <2>6, <2>7, <2>8 DEF pages, files
<1>2. PagesInv /\ [Next]_vars => PagesInv'
  BY PagesNext
<1> QED
  BY PagesInit, <1>1, <1>2, PTL DEF Spec

(***************************************************************************)
(* The code of a line.                                                     *)
(***************************************************************************)
\* At a place the columns of code from there on: none, those from a later place, or this
\* one and those from the next.
Columns(g, N, add, next) ==
    /\ g[N + 1] = {}
    /\ \A i \in 1 .. N : g[i] = add[i] \cup (IF next[i] = 0 THEN {} ELSE g[next[i]])

LEMMA ColumnsExist ==
    ASSUME NEW N \in Nat, NEW add \in [1 .. N -> SUBSET (1 .. N)], NEW next \in [1 .. N -> 0 .. N + 1],
           \A i \in 1 .. N : next[i] # 0 => next[i] > i
    PROVE  \E g \in [1 .. N + 1 -> SUBSET (1 .. N)] : Columns(g, N, add, next)
<1> DEFINE Good(g, i) == g[i] = IF i = N + 1 THEN {} ELSE add[i] \cup (IF next[i] = 0 THEN {} ELSE g[next[i]])
           Tables == [1 .. N + 1 -> SUBSET (1 .. N)]
           Known == {k \in 0 .. N : \E g \in Tables : \A i \in N + 1 - k .. N + 1 : Good(g, i)}
<1>1. 0 \in Known
  <2> DEFINE g == [i \in 1 .. N + 1 |-> {}]
  <2>1. g \in Tables /\ \A i \in 1 .. N + 1 : g[i] = {}
    OBVIOUS
  <2>2. N + 1 - 0 .. N + 1 = {N + 1} /\ N + 1 \in 1 .. N + 1 /\ 0 \in 0 .. N
    OBVIOUS
  <2> HIDE DEF g, Tables
  <2>3. \A i \in N + 1 - 0 .. N + 1 : Good(g, i)
    BY <2>1, <2>2
  <2> QED
    BY <2>1, <2>2, <2>3
<1>2. ASSUME NEW k \in 1 .. N, k - 1 \in Known PROVE k \in Known
  <2>1. PICK g \in Tables : \A i \in N + 1 - (k - 1) .. N + 1 : Good(g, i)
    BY <1>2
  <2> DEFINE at == N + 1 - k
             value == add[at] \cup (IF next[at] = 0 THEN {} ELSE g[next[at]])
             h == [i \in 1 .. N + 1 |-> IF i = at THEN value ELSE g[i]]
  <2>2. /\ at \in 1 .. N /\ N + 1 - (k - 1) = at + 1 /\ k \in 0 .. N
        /\ \A i \in at .. N + 1 : i \in 1 .. N + 1 /\ (i = at \/ i \in at + 1 .. N + 1)
        /\ \A i \in at + 1 .. N + 1 : i # at
    OBVIOUS
  <2>3. value \in SUBSET (1 .. N)
    <3>1. add[at] \in SUBSET (1 .. N) /\ next[at] \in 0 .. N + 1 /\ (next[at] # 0 => next[at] \in 1 .. N + 1)
      BY <2>2
    <3>2. next[at] # 0 => g[next[at]] \in SUBSET (1 .. N)
      BY <2>1, <3>1
    <3> HIDE DEF at
    <3> QED
      BY <3>1, <3>2
  <2>4. h \in Tables /\ h[at] = value /\ \A i \in at + 1 .. N + 1 : h[i] = g[i]
    <3> HIDE DEF value, at
    <3> QED
      BY <2>1, <2>2, <2>3
  <2> HIDE DEF h
  <2>5. ASSUME NEW i \in at .. N + 1 PROVE Good(h, i)
    <3>1. CASE i = at
      <4>1. next[at] # 0 => next[at] \in at + 1 .. N + 1
        BY <2>2
      <4>2. next[at] # 0 => h[next[at]] = g[next[at]]
        BY <2>4, <4>1
      <4>3. at # N + 1
        BY <2>2
      <4> QED
        BY <2>4, <3>1, <4>2, <4>3
    <3>2. CASE i # at
      <4>1. i \in at + 1 .. N + 1
        BY <2>2, <3>2
      <4>2. i # N + 1 => i \in 1 .. N /\ (next[i] # 0 => next[i] \in at + 1 .. N + 1)
        BY <2>2, <4>1
      <4>3. Good(g, i)
        BY <2>1, <2>2, <4>1
      <4> HIDE DEF at
      <4>4. h[i] = g[i] /\ (i # N + 1 /\ next[i] # 0 => h[next[i]] = g[next[i]])
        BY <2>4, <4>1, <4>2
      <4> QED
        BY <4>3, <4>4
    <3> QED
      BY <3>1, <3>2
  <2> HIDE DEF Good, Tables
  <2> QED
    BY <2>2, <2>4, <2>5
<1>3. N \in Known
  <2> HIDE DEF Known
  <2>1. 0 .. N \subseteq Known
    BY <1>1, <1>2, Stepwise
  <2> QED
    BY <2>1
<1>4. PICK g \in Tables : \A i \in N + 1 - N .. N + 1 : Good(g, i)
  BY <1>3
<1>5. \A i \in 1 .. N + 1 : Good(g, i)
  BY <1>4
<1>6. N + 1 \in 1 .. N + 1 /\ \A i \in 1 .. N : i \in 1 .. N + 1 /\ i # N + 1
  OBVIOUS
<1>7. g[N + 1] = {} /\ \A i \in 1 .. N : g[i] = add[i] \cup (IF next[i] = 0 THEN {} ELSE g[next[i]])
  BY <1>5, <1>6, Zenon
<1> QED
  BY <1>7 DEF Columns

(***************************************************************************)
(* The states of the scanner.                                              *)
(***************************************************************************)
NoQuote == ""
States(line) ==
    [mode : {"code", "literal", "escape", "comment"}, quote : Range(line) \cup {NoQuote}, seen : SUBSET DOMAIN line]

\* After is what the scanner knows after each character.
Scans(After, line, language) ==
    /\ After \in [0 .. Len(line) -> States(line)] /\ After[0] = L!Reading("code", NoQuote, {})
    /\ \A i \in 1 .. Len(line) : After[i] = L!ReadOn(After[i - 1], line, i, language)

LEMMA ReadOnType ==
    ASSUME NEW line, NEW i \in DOMAIN line, NEW language, NEW s \in States(line)
    PROVE  L!ReadOn(s, line, i, language) \in States(line)
<1>1. line[i] \in Range(line) \cup {NoQuote} /\ NoQuote \in Range(line) \cup {NoQuote}
  BY DEF Range
<1>2. s.quote \in Range(line) \cup {NoQuote} /\ s.seen \in SUBSET DOMAIN line
  BY DEF States
<1>3. \A mode \in {"code", "literal", "escape", "comment"} : \A quote \in Range(line) \cup {NoQuote}, seen \in SUBSET DOMAIN line :
         L!Reading(mode, quote, seen) \in States(line)
  BY DEF L!Reading, States
<1>4. s.seen \cup {i} \in SUBSET DOMAIN line
  BY <1>2
<1> QED
  BY <1>1, <1>2, <1>3, <1>4 DEF L!ReadOn, NoQuote

LEMMA ScansLine ==
    ASSUME NEW S, NEW line \in Seq(S), NEW language
    PROVE  Scans(L!Readings(line, language), line, language)
<1> DEFINE N == Len(line)
           Vals == States(line)
           base == L!Reading("code", NoQuote, {})
           step == [n \in 1 .. N |-> [s \in Vals |-> L!ReadOn(s, line, n, language)]]
           Body(g) == [n \in 0 .. N |-> IF n = 0 THEN base ELSE L!ReadOn(g[n - 1], line, n, language)]
           After == L!Readings(line, language)
<1>1. N \in Nat /\ DOMAIN line = 1 .. N
  OBVIOUS
<1>2. After = CHOOSE g : g = Body(g)
  BY DEF L!Readings, NoQuote
<1>3. base \in Vals
  BY DEF States, L!Reading
<1>4. step \in [1 .. N -> [Vals -> Vals]]
  BY <1>1, ReadOnType
<1> HIDE DEF N, step, Body, base, After, Vals
<1>5. PICK f : Follows(f, N, Vals, base, step)
  BY <1>1, <1>3, <1>4, RecursionExists
<1>6. ASSUME NEW n \in 1 .. N PROVE f[n] = L!ReadOn(f[n - 1], line, n, language)
  <2>1. n - 1 \in 0 .. N
    BY <1>1
  <2>2. f[n - 1] \in Vals /\ f[n] = step[n][f[n - 1]]
    BY <1>5, <2>1 DEF Follows
  <2> QED
    BY <2>2 DEF step
<1>7. f = Body(f)
  <2>1. \A n \in 0 .. N : n = 0 \/ n \in 1 .. N
    BY <1>1
  <2>2. \A n \in 0 .. N : f[n] = IF n = 0 THEN base ELSE L!ReadOn(f[n - 1], line, n, language)
    BY <1>5, <1>6, <2>1, Zenon DEF Follows
  <2> QED
    BY <1>5, <2>2, Zenon DEF Follows, Body
<1>8. After = Body(After)
  BY <1>2, <1>7, Zenon
<1>9. After[0] = base /\ \A n \in 1 .. N : After[n] = L!ReadOn(After[n - 1], line, n, language)
  <2>1. 0 \in 0 .. N /\ \A n \in 1 .. N : n \in 0 .. N /\ n # 0
    BY <1>1
  <2>2. Body(After)[0] = base /\ \A n \in 1 .. N : Body(After)[n] = L!ReadOn(After[n - 1], line, n, language)
    BY <2>1 DEF Body
  <2> QED
    BY <1>8, <2>2, Zenon
<1>10. ASSUME NEW n \in 0 .. N PROVE After[n] \in Vals
  <2> DEFINE Right == {m \in 0 .. N : After[m] \in Vals}
  <2>1. 0 \in Right
    BY <1>1, <1>3, <1>9
  <2>2. ASSUME NEW m \in 1 .. N, m - 1 \in Right PROVE m \in Right
    <3>1. After[m - 1] \in Vals /\ m \in DOMAIN line /\ m \in 0 .. N
      BY <1>1, <2>2
    <3>2. L!ReadOn(After[m - 1], line, m, language) \in Vals
      BY <3>1, ReadOnType DEF Vals
    <3> QED
      BY <1>9, <3>1, <3>2
  <2>3. 0 .. N \subseteq Right
    <3> HIDE DEF Right
    <3> QED
      BY <1>1, <2>1, <2>2, Stepwise
  <2> QED
    BY <2>3
<1>11. After \in [0 .. N -> Vals]
  <2>1. After = [n \in 0 .. N |-> After[n]]
    <3>1. DOMAIN Body(After) = 0 .. N
      BY DEF Body
    <3>2. After = [n \in 0 .. N |-> Body(After)[n]]
      BY <1>8, <3>1 DEF Body
    <3> QED
      BY <1>8, <3>2, Zenon
  <2> QED
    BY <1>10, <2>1
<1> QED
  BY <1>9, <1>11, Zenon DEF Scans, N, Vals, base, After

IsQuote(char) == char \in {"'", "\""}

LEMMA QuoteIsNoBackslash == \A char : IsQuote(char) => char # "\\"
  BY Zenon DEF IsQuote

\* How the scanner reads on from s at place i, mode by mode.
ReadsOn(next, s, line, i, language) ==
    /\ s.mode = "comment" => next = s
    /\ s.mode = "escape" => next = L!Reading("literal", s.quote, s.seen)
    /\ s.mode = "literal" /\ line[i] = "\\" => next = L!Reading("escape", s.quote, s.seen)
    /\ s.mode = "literal" /\ line[i] # "\\" =>
          next = IF line[i] = s.quote THEN L!Reading("code", NoQuote, s.seen) ELSE s
    /\ s.mode = "code" =>
          next = IF L!is_line_comment_start(line, i, language) THEN L!Reading("comment", NoQuote, s.seen)
                 ELSE IF IsQuote(line[i]) THEN L!Reading("literal", line[i], s.seen)
                 ELSE L!Reading("code", NoQuote, s.seen \cup {i})

LEMMA ReadOnModes ==
    ASSUME NEW s, NEW line, NEW i, NEW language
    PROVE  ReadsOn(L!ReadOn(s, line, i, language), s, line, i, language)
<1>1. s.mode = "comment" => L!ReadOn(s, line, i, language) = s
  BY Zenon DEF L!ReadOn, NoQuote
<1>2. s.mode = "escape" => L!ReadOn(s, line, i, language) = L!Reading("literal", s.quote, s.seen)
  BY Zenon DEF L!ReadOn, NoQuote
<1>3. s.mode = "literal" /\ line[i] = "\\" => L!ReadOn(s, line, i, language) = L!Reading("escape", s.quote, s.seen)
  BY Zenon DEF L!ReadOn, NoQuote
<1>4. s.mode = "literal" /\ line[i] # "\\" =>
          L!ReadOn(s, line, i, language) = IF line[i] = s.quote THEN L!Reading("code", NoQuote, s.seen) ELSE s
  BY Zenon DEF L!ReadOn, NoQuote
<1>5. s.mode = "code" =>
          L!ReadOn(s, line, i, language) =
              IF L!is_line_comment_start(line, i, language) THEN L!Reading("comment", NoQuote, s.seen)
              ELSE IF IsQuote(line[i]) THEN L!Reading("literal", line[i], s.seen)
              ELSE L!Reading("code", NoQuote, s.seen \cup {i})
  BY Zenon DEF L!ReadOn, IsQuote, NoQuote
<1> QED
  BY <1>1, <1>2, <1>3, <1>4, <1>5, Zenon DEF ReadsOn

LEMMA ReadingParts ==
    \A mode, quote, seen : /\ L!Reading(mode, quote, seen).mode = mode /\ L!Reading(mode, quote, seen).quote = quote
                           /\ L!Reading(mode, quote, seen).seen = seen
  BY DEF L!Reading

LEMMA Parity == \A n \in Nat : (n + 1) % 2 = 0 <=> n % 2 # 0
  OBVIOUS

\* The backslashes that end just before place k, in a literal that began at i.
Backslashes(line, i, k) == {j \in i + 1 .. k - 1 : \A h \in j .. k - 1 : line[h] = "\\"}
Closings(line, i) ==
    {k \in i + 1 .. Len(line) : line[k] = line[i] /\ Cardinality(Backslashes(line, i, k)) % 2 = 0}

LEMMA BackslashesGrow ==
    ASSUME NEW line, NEW i \in Nat, NEW k \in Nat, i <= k
    PROVE  LET before == Backslashes(line, i, k + 1)
               after == Backslashes(line, i, k + 2)
           IN /\ IsFiniteSet(before) /\ Cardinality(before) \in Nat
              /\ line[k + 1] = "\\" => Cardinality(after) = Cardinality(before) + 1
              /\ line[k + 1] # "\\" => Cardinality(after) = 0
<1> DEFINE before == Backslashes(line, i, k + 1)
           after == Backslashes(line, i, k + 2)
<1>1. IsFiniteSet(before) /\ Cardinality(before) \in Nat
  <2>1. before \subseteq i + 1 .. k /\ IsFiniteSet(i + 1 .. k)
    BY FS_Interval DEF Backslashes
  <2> HIDE DEF before
  <2> QED
    BY <2>1, FS_Subset, FS_CardinalityType
<1>2. ASSUME line[k + 1] = "\\" PROVE Cardinality(after) = Cardinality(before) + 1
  <2>1. after = before \cup {k + 1} /\ k + 1 \notin before
    BY <1>2 DEF Backslashes
  <2> HIDE DEF before, after
  <2> QED
    BY <1>1, <2>1, FS_AddElement
<1>3. ASSUME line[k + 1] # "\\" PROVE Cardinality(after) = 0
  <2>1. after = {}
    BY <1>3 DEF Backslashes
  <2> HIDE DEF after
  <2> QED
    BY <2>1, FS_EmptySet
<1> QED
  BY <1>1, <1>2, <1>3

\* In a literal that began at i and is not closed up to k.
InLiteral(s, quote, seen, even) ==
    /\ even => s = L!Reading("literal", quote, seen)
    /\ ~even => s = L!Reading("escape", quote, seen)

LEMMA LiteralGoesOn ==
    ASSUME NEW S, NEW line \in Seq(S), NEW language, NEW After, Scans(After, line, language),
           NEW i \in 1 .. Len(line), IsQuote(line[i]),
           After[i] = L!Reading("literal", line[i], After[i].seen),
           NEW k \in i .. Len(line), \A c \in i + 1 .. k : c \notin Closings(line, i)
    PROVE  InLiteral(After[k], line[i], After[i].seen, Cardinality(Backslashes(line, i, k + 1)) % 2 = 0)
<1> DEFINE N == Len(line)
           Even(n) == Cardinality(Backslashes(line, i, n + 1)) % 2 = 0
           seen == After[i].seen
           Right == {n \in 0 .. k - i : InLiteral(After[i + n], line[i], seen, Even(i + n))}
<1>1. N \in Nat /\ i \in Nat /\ k \in Nat /\ i <= k /\ k <= N /\ k - i \in Nat
  OBVIOUS
<1>2. 0 \in Right
  <2>1. Backslashes(line, i, i + 1) = {}
    BY <1>1 DEF Backslashes
  <2>2. Even(i)
    <3>1. Cardinality({}) = 0 /\ 0 % 2 = 0
      BY FS_EmptySet
    <3> QED
      BY <2>1, <3>1
  <2> HIDE DEF Even, seen
  <2>3. InLiteral(After[i], line[i], seen, Even(i))
    BY <2>2 DEF InLiteral, seen
  <2>4. i + 0 = i /\ 0 \in 0 .. k - i
    BY <1>1
  <2> QED
    BY <2>3, <2>4
<1>3. ASSUME NEW n \in 1 .. k - i, n - 1 \in Right PROVE n \in Right
  <2> DEFINE m == i + (n - 1)
  <2>1. m \in Nat /\ i <= m /\ i + n = m + 1 /\ m + 1 \in i + 1 .. k /\ m + 1 \in 1 .. N /\ n \in 0 .. k - i
        /\ (m + 1) - 1 = m /\ (m + 1) + 1 = m + 2
    BY <1>1
  <2>2. InLiteral(After[m], line[i], seen, Even(m))
    BY <1>3
  <2>3. After[m + 1] = L!ReadOn(After[m], line, m + 1, language)
    <3> HIDE DEF m
    <3>1. After[m + 1] = L!ReadOn(After[(m + 1) - 1], line, m + 1, language)
      BY <2>1, Zenon DEF Scans
    <3> QED
      BY <2>1, <3>1
  <2> HIDE DEF m, Even, seen
  <2>9. ReadsOn(After[m + 1], After[m], line, m + 1, language)
    BY <2>3, ReadOnModes
  <2>4. line[m + 1] = "\\" => (Even(m + 1) <=> ~Even(m))
    <3>1. /\ Cardinality(Backslashes(line, i, m + 1)) \in Nat
          /\ line[m + 1] = "\\" => Cardinality(Backslashes(line, i, m + 2)) = Cardinality(Backslashes(line, i, m + 1)) + 1
      BY <1>1, <2>1, BackslashesGrow
    <3> QED
      BY <2>1, <3>1, Parity DEF Even
  <2>5. line[m + 1] # "\\" => Even(m + 1)
    <3>1. line[m + 1] # "\\" => Cardinality(Backslashes(line, i, m + 2)) = 0
      BY <1>1, <2>1, BackslashesGrow
    <3> QED
      BY <2>1, <3>1 DEF Even
  <2>6. line[m + 1] = line[i] => ~Even(m)
    <3>1. m + 1 \notin Closings(line, i)
      BY <2>1
    <3> QED
      BY <2>1, <3>1 DEF Closings, Even, N
  <2>7. CASE Even(m)
    <3>1. After[m] = L!Reading("literal", line[i], seen)
      BY <2>2, <2>7 DEF InLiteral
    <3>2. /\ After[m].mode = "literal" /\ After[m].quote = line[i] /\ After[m].seen = seen
      BY <3>1, ReadingParts
    <3>3. CASE line[m + 1] = "\\"
      <4>1. After[m + 1] = L!Reading("escape", line[i], seen)
        BY <2>9, <3>2, <3>3 DEF ReadsOn
      <4> QED
        BY <2>1, <2>4, <2>7, <3>3, <4>1 DEF InLiteral
    <3>4. CASE line[m + 1] # "\\"
      <4>1. After[m + 1] = After[m]
        BY <2>6, <2>7, <2>9, <3>2, <3>4 DEF ReadsOn
      <4> QED
        BY <2>1, <2>5, <3>1, <3>4, <4>1 DEF InLiteral
    <3> QED
      BY <3>3, <3>4
  <2>8. CASE ~Even(m)
    <3>1. After[m] = L!Reading("escape", line[i], seen)
      BY <2>2, <2>8 DEF InLiteral
    <3>2. After[m].mode = "escape" /\ After[m].quote = line[i] /\ After[m].seen = seen
      BY <3>1, ReadingParts
    <3>3. After[m + 1] = L!Reading("literal", line[i], seen)
      BY <2>9, <3>2 DEF ReadsOn
    <3>4. Even(m + 1)
      BY <2>4, <2>5, <2>8
    <3> QED
      BY <2>1, <3>3, <3>4 DEF InLiteral
  <2> QED
    BY <2>7, <2>8
<1>4. 0 .. k - i \subseteq Right
  <2> HIDE DEF Right
  <2> QED
    BY <1>1, <1>2, <1>3, Stepwise
<1>5. k - i \in 0 .. k - i /\ i + (k - i) = k
  BY <1>1
<1>6. k - i \in Right
  BY <1>4, <1>5
<1> QED
  BY <1>5, <1>6

LEMMA CommentGoesOn ==
    ASSUME NEW S, NEW line \in Seq(S), NEW language, NEW After, Scans(After, line, language),
           NEW i \in 1 .. Len(line), After[i].mode = "comment"
    PROVE  After[Len(line)] = After[i]
<1> DEFINE N == Len(line)
           Right == {n \in 0 .. N - i : After[i + n] = After[i]}
<1>1. N \in Nat /\ i \in Nat /\ i <= N /\ N - i \in Nat /\ i + 0 = i /\ 0 \in 0 .. N - i
  OBVIOUS
<1>2. 0 \in Right
  BY <1>1
<1>3. ASSUME NEW n \in 1 .. N - i, n - 1 \in Right PROVE n \in Right
  <2> DEFINE m == i + n
  <2>1. m \in 1 .. N /\ m - 1 = i + (n - 1) /\ n \in 0 .. N - i
    BY <1>1
  <2>2. After[m - 1] = After[i]
    BY <1>3, <2>1
  <2>3. ReadsOn(After[m], After[m - 1], line, m, language)
    <3> HIDE DEF m
    <3>1. After[m] = L!ReadOn(After[m - 1], line, m, language)
      BY <2>1, Zenon DEF Scans
    <3> QED
      BY <3>1, ReadOnModes
  <2>4. After[m] = After[i]
    BY <2>2, <2>3 DEF ReadsOn
  <2> QED
    BY <2>1, <2>4
<1>4. 0 .. N - i \subseteq Right
  <2> HIDE DEF Right
  <2> QED
    BY <1>1, <1>2, <1>3, Stepwise
<1>5. N - i \in 0 .. N - i /\ i + (N - i) = N
  BY <1>1
<1>6. N - i \in Right
  BY <1>4, <1>5
<1> QED
  BY <1>5, <1>6

(***************************************************************************)
(* The columns of code are what the scanner has seen.                      *)
(***************************************************************************)
First(S) == CHOOSE k \in S : \A l \in S : k <= l
Adds(line, i, language) ==
    IF L!is_line_comment_start(line, i, language) \/ IsQuote(line[i]) THEN {} ELSE {i}
Onward(line, i, language) ==
    IF L!is_line_comment_start(line, i, language) THEN 0
    ELSE IF ~IsQuote(line[i]) THEN i + 1
    ELSE IF Closings(line, i) = {} THEN 0 ELSE First(Closings(line, i)) + 1

\* The columns of a line of code, from each place on.
Codes(g, line, language) ==
    Columns(g, Len(line), [i \in 1 .. Len(line) |-> Adds(line, i, language)],
            [i \in 1 .. Len(line) |-> Onward(line, i, language)])

LEMMA FirstOf ==
    ASSUME NEW T, T \subseteq Nat, T # {}
    PROVE  First(T) \in T /\ \A l \in T : First(T) <= l
<1>1. PICK k \in T : \A l \in T : ~(l < k)
  <2>1. \E k \in T : \A l \in T : <<l, k>> \notin OpToRel(<, Nat)
    BY NatLessThanWellFounded, WFMin
  <2> QED
    BY <2>1 DEF OpToRel
<1>2. k \in T /\ \A l \in T : k <= l
  BY <1>1
<1> QED
  BY <1>2 DEF First

LEMMA FirstClosing ==
    ASSUME NEW S, NEW line \in Seq(S), NEW i \in 1 .. Len(line), Closings(line, i) # {}
    PROVE  LET c == First(Closings(line, i))
           IN /\ c \in Closings(line, i) /\ c \in i + 1 .. Len(line)
              /\ \A k \in i + 1 .. c - 1 : k \notin Closings(line, i)
<1>1. Closings(line, i) \subseteq i + 1 .. Len(line) /\ i + 1 .. Len(line) \subseteq Nat
  BY DEF Closings
<1>2. First(Closings(line, i)) \in Closings(line, i) /\ \A l \in Closings(line, i) : First(Closings(line, i)) <= l
  BY <1>1, FirstOf
<1> DEFINE c == First(Closings(line, i))
<1> HIDE DEF c
<1>3. c \in i + 1 .. Len(line) /\ c \in Nat /\ \A l \in Closings(line, i) : c <= l
  BY <1>1, <1>2 DEF c
<1>4. \A k \in i + 1 .. c - 1 : ~(c <= k)
  BY <1>3
<1> QED
  BY <1>2, <1>3, <1>4 DEF c

LEMMA CodesExist ==
    ASSUME NEW S, NEW line \in Seq(S), NEW language
    PROVE  \E g : Codes(g, line, language) /\ g \in [1 .. Len(line) + 1 -> SUBSET (1 .. Len(line))]
<1> DEFINE N == Len(line)
           add == [i \in 1 .. N |-> Adds(line, i, language)]
           next == [i \in 1 .. N |-> Onward(line, i, language)]
<1>1. N \in Nat
  OBVIOUS
<1>2. add \in [1 .. N -> SUBSET (1 .. N)]
  BY DEF Adds
<1>3. ASSUME NEW i \in 1 .. N PROVE Onward(line, i, language) \in 0 .. N + 1 /\ (Onward(line, i, language) # 0 => Onward(line, i, language) > i)
  <2>1. Closings(line, i) # {} => First(Closings(line, i)) \in i + 1 .. N
    BY FirstClosing
  <2> QED
    BY <1>1, <2>1 DEF Onward
<1>4. next \in [1 .. N -> 0 .. N + 1] /\ \A i \in 1 .. N : next[i] # 0 => next[i] > i
  BY <1>3
<1> HIDE DEF add, next, N
<1>5. \E g \in [1 .. N + 1 -> SUBSET (1 .. N)] : Columns(g, N, add, next)
  BY <1>1, <1>2, <1>4, ColumnsExist
<1> QED
  BY <1>5 DEF Codes, add, next, N

LEMMA ScannerSeesCode ==
    ASSUME NEW S, NEW line \in Seq(S), NEW language, NEW After, Scans(After, line, language),
           NEW g, Codes(g, line, language)
    PROVE  After[Len(line)].seen = g[1]
<1> DEFINE N == Len(line)
           Told(i) == After[i - 1].mode = "code" => After[N].seen = After[i - 1].seen \cup g[i]
           Right == {k \in 0 .. N : \A i \in N + 1 - k .. N + 1 : Told(i)}
<1>1. N \in Nat /\ DOMAIN line = 1 .. N
  OBVIOUS
<1>2. /\ g[N + 1] = {}
      /\ \A i \in 1 .. N : g[i] = Adds(line, i, language) \cup
                  (IF Onward(line, i, language) = 0 THEN {} ELSE g[Onward(line, i, language)])
  BY DEF Codes, Columns
<1>3. 0 \in Right
  <2>1. N + 1 - 0 .. N + 1 = {N + 1} /\ (N + 1) - 1 = N /\ 0 \in 0 .. N
    BY <1>1
  <2>2. Told(N + 1)
    BY <1>2, <2>1
  <2> HIDE DEF Told
  <2> QED
    BY <2>1, <2>2
<1>4. ASSUME NEW i \in 1 .. N, \A j \in i + 1 .. N + 1 : Told(j), After[i - 1].mode = "code"
      PROVE  After[N].seen = After[i - 1].seen \cup g[i]
  <2> DEFINE seen == After[i - 1].seen
  <2>1. ReadsOn(After[i], After[i - 1], line, i, language)
    <3>1. After[i] = L!ReadOn(After[i - 1], line, i, language)
      BY Zenon DEF Scans
    <3> QED
      BY <3>1, ReadOnModes
  <2>2. i \in Nat /\ i + 1 \in i + 1 .. N + 1 /\ (i + 1) - 1 = i /\ i + 1 # 0
    BY <1>1
  <2>3. CASE L!is_line_comment_start(line, i, language)
    <3>1. After[i] = L!Reading("comment", NoQuote, seen)
      BY <1>4, <2>1, <2>3 DEF ReadsOn
    <3>2. After[N].seen = seen
      <4>1. After[i].mode = "comment" /\ After[i].seen = seen
        BY <3>1, ReadingParts
      <4> QED
        BY <4>1, CommentGoesOn
    <3>3. g[i] = {}
      BY <1>2, <2>3 DEF Adds, Onward
    <3> QED
      BY <3>2, <3>3
  <2>4. CASE ~L!is_line_comment_start(line, i, language) /\ ~IsQuote(line[i])
    <3>1. After[i] = L!Reading("code", NoQuote, seen \cup {i})
      BY <1>4, <2>1, <2>4 DEF ReadsOn
    <3>2. After[i].mode = "code" /\ After[i].seen = seen \cup {i}
      BY <3>1, ReadingParts
    <3>3. Told(i + 1)
      BY <1>4, <2>2
    <3>4. After[N].seen = After[i].seen \cup g[i + 1]
      BY <2>2, <3>2, <3>3
    <3>5. g[i] = {i} \cup g[i + 1]
      BY <1>2, <2>2, <2>4 DEF Adds, Onward
    <3> QED
      BY <3>2, <3>4, <3>5
  <2>5. CASE ~L!is_line_comment_start(line, i, language) /\ IsQuote(line[i])
    <3>1. After[i] = L!Reading("literal", line[i], seen)
      BY <1>4, <2>1, <2>5 DEF ReadsOn
    <3>2. After[i].seen = seen
      BY <3>1, ReadingParts
    <3>3. After[i] = L!Reading("literal", line[i], After[i].seen)
      BY <3>1, <3>2
    <3>4. Adds(line, i, language) = {}
      BY <2>5 DEF Adds
    <3>5. CASE Closings(line, i) = {}
      <4>1. g[i] = {}
        BY <1>2, <2>5, <3>4, <3>5 DEF Onward
      <4>2. InLiteral(After[N], line[i], seen, Cardinality(Backslashes(line, i, N + 1)) % 2 = 0)
        <5>1. N \in i .. Len(line) /\ \A c \in i + 1 .. N : c \notin Closings(line, i)
          BY <1>1, <3>5
        <5>2. InLiteral(After[N], line[i], After[i].seen, Cardinality(Backslashes(line, i, N + 1)) % 2 = 0)
          BY <2>5, <3>3, <5>1, LiteralGoesOn
        <5> QED
          BY <3>2, <5>2
      <4>3. After[N].seen = seen
        BY <4>2, ReadingParts DEF InLiteral
      <4> QED
        BY <4>1, <4>3
    <3>6. CASE Closings(line, i) # {}
      <4> DEFINE c == First(Closings(line, i))
      <4>1. /\ c \in Closings(line, i) /\ c \in i + 1 .. N /\ \A k \in i + 1 .. c - 1 : k \notin Closings(line, i)
        BY <3>6, FirstClosing
      <4>2. g[i] = g[c + 1]
        <5>1. Onward(line, i, language) = c + 1
          BY <2>5, <3>6 DEF Onward
        <5>2. c + 1 # 0
          BY <2>2, <4>1
        <5> HIDE DEF c
        <5> QED
          BY <1>2, <3>4, <5>1, <5>2
      <4> HIDE DEF c
      <4>3. /\ c \in 1 .. N /\ c - 1 \in i .. Len(line) /\ (c - 1) + 1 = c /\ c + 1 \in i + 1 .. N + 1 /\ (c + 1) - 1 = c
        BY <1>1, <4>1
      <4>4. line[c] = line[i] /\ Cardinality(Backslashes(line, i, c)) % 2 = 0
        BY <4>1 DEF Closings
      <4>5. After[c - 1] = L!Reading("literal", line[i], seen)
        <5> DEFINE k == c - 1
        <5>1. k \in i .. Len(line) /\ (\A l \in i + 1 .. k : l \notin Closings(line, i)) /\ k + 1 = c
          BY <4>1, <4>3
        <5> HIDE DEF k
        <5>2. InLiteral(After[k], line[i], After[i].seen, Cardinality(Backslashes(line, i, k + 1)) % 2 = 0)
          BY <2>5, <3>3, <5>1, LiteralGoesOn
        <5> QED
          BY <3>2, <4>4, <5>1, <5>2 DEF InLiteral, k
      <4>6. ReadsOn(After[c], After[c - 1], line, c, language)
        <5>1. After[c] = L!ReadOn(After[c - 1], line, c, language)
          BY <4>3, Zenon DEF Scans
        <5> QED
          BY <5>1, ReadOnModes
      <4>7. After[c - 1].mode = "literal" /\ After[c - 1].quote = line[i] /\ After[c - 1].seen = seen
        BY <4>5, ReadingParts
      <4>8. After[c] = L!Reading("code", NoQuote, seen)
        <5>1. line[c] # "\\"
          BY <2>5, <4>4, QuoteIsNoBackslash
        <5> QED
          BY <4>4, <4>6, <4>7, <5>1 DEF ReadsOn
      <4>9. After[c].mode = "code" /\ After[c].seen = seen
        BY <4>8, ReadingParts
      <4>10. Told(c + 1)
        BY <1>4, <4>3
      <4> QED
        BY <4>2, <4>3, <4>9, <4>10
    <3> QED
      BY <3>5, <3>6
  <2> QED
    BY <2>3, <2>4, <2>5
<1>5. ASSUME NEW k \in 1 .. N, k - 1 \in Right PROVE k \in Right
  <2> DEFINE i == N + 1 - k
  <2>1. /\ i \in 1 .. N /\ N + 1 - (k - 1) = i + 1 /\ k \in 0 .. N
        /\ \A j \in i .. N + 1 : j = i \/ j \in i + 1 .. N + 1
    BY <1>1
  <2>2. \A j \in i + 1 .. N + 1 : Told(j)
    BY <1>5, <2>1
  <2>3. Told(i)
    <3> HIDE DEF i
    <3> QED
      BY <1>4, <2>1, <2>2
  <2> HIDE DEF Told
  <2> QED
    BY <2>1, <2>2, <2>3
<1>6. 0 .. N \subseteq Right
  <2> HIDE DEF Right
  <2> QED
    BY <1>1, <1>3, <1>5, Stepwise
<1>7. Told(1)
  <2>1. N \in 0 .. N /\ 1 \in N + 1 - N .. N + 1
    BY <1>1
  <2> HIDE DEF Told
  <2> QED
    BY <1>6, <2>1
<1>8. After[0].mode = "code" /\ After[0].seen = {}
  <2>1. After[0] = L!Reading("code", NoQuote, {})
    BY DEF Scans
  <2> QED
    BY <2>1, ReadingParts
<1>9. 1 - 1 = 0
  OBVIOUS
<1> QED
  BY <1>7, <1>8, <1>9

SlashLanguages == {"rust", "javascript", "typescript", "tsx", "java", "c", "csharp"}

LEMMA CodeColumnsAreCodes ==
    ASSUME NEW S, NEW line \in Seq(S), NEW language, language = "python" \/ language \in SlashLanguages
    PROVE  \E g : Codes(g, line, language) /\ CodeColumns(line, language) = g[1]
<1> DEFINE N == Len(line)
           Opens(i) == IF language = "python" THEN line[i] = "#"
                       ELSE i < Len(line) /\ line[i] = "/" /\ line[i + 1] = "/"
           Body(g) == [i \in 1 .. Len(line) + 1 |->
                          IF i > Len(line) THEN {}
                          ELSE IF Opens(i) THEN {}
                          ELSE IF line[i] \notin {"'", "\""} THEN {i} \cup g[i + 1]
                          ELSE IF Closings(line, i) = {} THEN {}
                          ELSE g[First(Closings(line, i)) + 1]]
           From == CHOOSE g : g = Body(g)
           After(i) == Onward(line, i, language)
           Good(f, g, i) == f[i] = IF i > N THEN {}
                                   ELSE Adds(line, i, language) \cup (IF After(i) = 0 THEN {} ELSE g[After(i)])
<1>1. CodeColumns(line, language) = From[1]
  BY Zenon DEF CodeColumns, Closings, Backslashes, First
<1>2. N \in Nat /\ N + 1 > N /\ N + 1 \in 1 .. N + 1 /\ \A i \in 1 .. N : i \in 1 .. N + 1 /\ ~(i > N) /\ i + 1 # 0
  OBVIOUS
<1>3. \A i : L!is_line_comment_start(line, i, language) <=> Opens(i)
  BY Zenon DEF L!is_line_comment_start, SlashLanguages
<1> HIDE DEF Opens
<1>4. \A i : ~L!is_line_comment_start(line, i, language) /\ IsQuote(line[i]) /\ Closings(line, i) # {} /\ i \in 1 .. N
             => First(Closings(line, i)) + 1 # 0
  <2> SUFFICES ASSUME NEW i \in 1 .. N, Closings(line, i) # {} PROVE First(Closings(line, i)) + 1 # 0
    OBVIOUS
  <2>1. First(Closings(line, i)) \in i + 1 .. Len(line)
    BY FirstClosing
  <2> HIDE DEF First
  <2> QED
    BY <2>1
<1>5. ASSUME NEW g, NEW i \in 1 .. N + 1 PROVE Good(Body(g), g, i)
  <2> DEFINE value == Body(g)[i]
  <2>1. value = IF i > Len(line) THEN {}
                ELSE IF Opens(i) THEN {}
                ELSE IF line[i] \notin {"'", "\""} THEN {i} \cup g[i + 1]
                ELSE IF Closings(line, i) = {} THEN {}
                ELSE g[First(Closings(line, i)) + 1]
    BY Zenon
  <2> HIDE DEF value
  <2>2. CASE i > N
    BY <2>1, <2>2, Zenon DEF value, N
  <2>3. CASE ~(i > N)
    <3>1. i \in 1 .. N /\ i + 1 # 0
      BY <2>3
    <3>2. value = IF L!is_line_comment_start(line, i, language) THEN {}
                  ELSE IF ~IsQuote(line[i]) THEN {i} \cup g[i + 1]
                  ELSE IF Closings(line, i) = {} THEN {}
                  ELSE g[First(Closings(line, i)) + 1]
      BY <1>3, <2>1, <2>3, Zenon DEF IsQuote, N
    <3>3. value = Adds(line, i, language) \cup (IF After(i) = 0 THEN {} ELSE g[After(i)])
      <4> HIDE DEF Body, First
      <4> QED
        BY <1>4, <3>1, <3>2 DEF Adds, Onward
    <3> QED
      BY <2>3, <3>3, Zenon DEF value
  <2> QED
    BY <2>2, <2>3
<1>6. \A g : DOMAIN Body(g) = 1 .. N + 1 /\ Body(g) = [i \in 1 .. N + 1 |-> Body(g)[i]]
  OBVIOUS
<1> HIDE DEF Body, Good, After
<1>7. PICK f : Codes(f, line, language) /\ f \in [1 .. N + 1 -> SUBSET (1 .. N)]
  BY CodesExist
<1>8. ASSUME NEW i \in 1 .. N + 1 PROVE Good(f, f, i)
  <2>1. /\ f[N + 1] = {}
        /\ \A n \in 1 .. N : f[n] = Adds(line, n, language) \cup
                    (IF Onward(line, n, language) = 0 THEN {} ELSE f[Onward(line, n, language)])
    BY <1>7 DEF Codes, Columns
  <2>2. i = N + 1 \/ i \in 1 .. N
    BY <1>2
  <2> HIDE DEF N
  <2> QED
    BY <1>2, <2>1, <2>2 DEF Good, After
<1>9. f = Body(f)
  <2>1. \A i \in 1 .. N + 1 : f[i] = Body(f)[i]
    BY <1>5, <1>8 DEF Good
  <2>2. f = [i \in 1 .. N + 1 |-> f[i]]
    BY <1>7
  <2> QED
    BY <1>6, <2>1, <2>2
<1>10. From = Body(From)
  BY <1>9, Zenon
<1> HIDE DEF From
<1>11. \A i \in 1 .. N + 1 : Good(From, From, i)
  BY <1>5, <1>10
<1>12. Codes(From, line, language)
  <2>1. From[N + 1] = {}
    BY <1>2, <1>11 DEF Good
  <2>2. \A i \in 1 .. N : From[i] = Adds(line, i, language) \cup
                    (IF Onward(line, i, language) = 0 THEN {} ELSE From[Onward(line, i, language)])
    BY <1>2, <1>11 DEF Good, After
  <2> QED
    BY <2>1, <2>2 DEF Codes, Columns
<1> QED
  BY <1>1, <1>12

\* What the rules of level 1 read of a line are its columns of code.
LEMMA CodeIsRead ==
    ASSUME NEW S, NEW line \in Seq(S), NEW language, language = "python" \/ language \in SlashLanguages
    PROVE  L!sanitized_line_for_matching(line, language) = CodeColumns(line, language)
<1>1. Scans(L!Readings(line, language), line, language)
  BY ScansLine
<1>2. PICK g : Codes(g, line, language) /\ CodeColumns(line, language) = g[1]
  BY CodeColumnsAreCodes
<1>3. L!Readings(line, language)[Len(line)].seen = g[1]
  BY <1>1, <1>2, ScannerSeesCode
<1> QED
  BY <1>2, <1>3 DEF L!sanitized_line_for_matching

(***************************************************************************)
(* What level 1 finds.                                                     *)
(***************************************************************************)
CodeAt(line, language, rule) == {i \in L!sanitized_line_for_matching(line, language) : line[i] = rule}
Marker(n) == L!Diagnostic(n, 1, "INFO", "marker", "tree-sitter")
FoundAt(source, n, language, rule) ==
    L!Diagnostic(n, First(CodeAt(source[n], language, rule)), "WARN", rule, "tree-sitter")

\* The diagnostics that may be of a line.
OfLine(source, n, language) ==
    {Marker(n)} \cup {FoundAt(source, n, language, rule) : rule \in Range(L!language_rules(language))}
Possible(source, language) == UNION {OfLine(source, n, language) : n \in DOMAIN source}

\* The diagnostics of line n.
IsOfLine(found, source, n, language) ==
    /\ found \in Seq(OfLine(source, n, language))
    /\ \A rule \in Range(L!language_rules(language)) :
          CodeAt(source[n], language, rule) # {} => Holds(found, FoundAt(source, n, language, rule))
    /\ \A d : Holds(found, d) => \/ d = Marker(n)
                                 \/ \E rule \in Range(L!language_rules(language)) :
                                       CodeAt(source[n], language, rule) # {} /\ d = FoundAt(source, n, language, rule)

LEMMA RulesAreSeq == \A language : L!language_rules(language) \in Seq(Range(L!language_rules(language)))
<1> TAKE language
<1> DEFINE named == L!language_rules(language)
<1>1. \E a, b, c : named \in {<<>>, <<a>>, <<a, b>>, <<a, b, c>>}
  <2>1. \E a, b, c : named = <<>> \/ named = <<a>> \/ named = <<a, b>> \/ named = <<a, b, c>>
    BY Zenon DEF L!language_rules
  <2> QED
    BY <2>1, Zenon
<1>2. \A a, b, c : \A seq \in {<<>>, <<a>>, <<a, b>>, <<a, b, c>>} : seq \in Seq(Range(seq))
  <2> SUFFICES ASSUME NEW a, NEW b, NEW c
               PROVE  \A seq \in {<<>>, <<a>>, <<a, b>>, <<a, b, c>>} : seq \in Seq(Range(seq))
    OBVIOUS
  <2>1. <<>> \in Seq(Range(<<>>))
    OBVIOUS
  <2>2. <<a>> \in Seq(Range(<<a>>))
    BY DEF Range
  <2>3. <<a, b>> \in Seq(Range(<<a, b>>))
    BY DEF Range
  <2>4. <<a, b, c>> \in Seq(Range(<<a, b, c>>))
    BY DEF Range
  <2> QED
    BY <2>1, <2>2, <2>3, <2>4, Zenon
<1> HIDE DEF named
<1> QED
  BY <1>1, <1>2, Zenon DEF named

\* One rule on one line.
LEMMA RuleOfLine ==
    ASSUME NEW source, NEW n, NEW language, NEW rule \in Range(L!language_rules(language)), NEW found,
           found = IF CodeAt(source[n], language, rule) = {} THEN <<>>
                   ELSE <<FoundAt(source, n, language, rule)>>
    PROVE  /\ found \in Seq(OfLine(source, n, language))
           /\ \A d : Holds(found, d) <=> CodeAt(source[n], language, rule) # {} /\ d = FoundAt(source, n, language, rule)
<1> DEFINE one == FoundAt(source, n, language, rule)
           some == CodeAt(source[n], language, rule) # {}
<1>1. one \in OfLine(source, n, language)
  BY DEF OfLine
<1>2. found = IF ~some THEN <<>> ELSE <<one>>
  OBVIOUS
<1> HIDE DEF one, some
<1>3. CASE ~some
  <2>1. found = <<>>
    BY <1>2, <1>3
  <2> QED
    BY <1>3, <2>1 DEF Holds, some, one
<1>4. CASE some
  <2>1. found = <<one>>
    BY <1>2, <1>4
  <2>2. DOMAIN found = {1} /\ found[1] = one
    BY <2>1
  <2>3. found \in Seq(OfLine(source, n, language))
    BY <1>1, <2>1
  <2>4. \A d : Holds(found, d) <=> d = one
    BY <2>2, Zenon DEF Holds
  <2> QED
    BY <1>4, <2>3, <2>4, Zenon DEF some, one
<1> QED
  BY <1>3, <1>4

LEMMA LineFound ==
    ASSUME NEW source, NEW n, NEW language, NEW marked, marked = <<>> \/ marked = <<Marker(n)>>,
           NEW each, DOMAIN each = DOMAIN L!language_rules(language),
           each = [k \in DOMAIN L!language_rules(language) |->
                      IF CodeAt(source[n], language, L!language_rules(language)[k]) = {} THEN <<>>
                      ELSE <<FoundAt(source, n, language, L!language_rules(language)[k])>>]
    PROVE  IsOfLine(marked \o FlattenSeq(each), source, n, language)
<1> DEFINE named == L!language_rules(language)
           Here == OfLine(source, n, language)
           flat == FlattenSeq(each)
           Some(rule) == CodeAt(source[n], language, rule) # {}
           One(rule) == FoundAt(source, n, language, rule)
<1>1. named \in Seq(Range(named)) /\ DOMAIN each = DOMAIN named
  BY RulesAreSeq
<1>2. \A k \in DOMAIN named : named[k] \in Range(named)
  BY DEF Range
<1>3. ASSUME NEW k \in DOMAIN named
      PROVE  each[k] \in Seq(Here) /\ \A d : Holds(each[k], d) <=> Some(named[k]) /\ d = One(named[k])
  <2>1. each[k] = IF CodeAt(source[n], language, named[k]) = {} THEN <<>> ELSE <<FoundAt(source, n, language, named[k])>>
    OBVIOUS
  <2> HIDE DEF named
  <2> QED
    BY <1>2, <2>1, RuleOfLine DEF named
<1> HIDE DEF named, Here, Some, One
<1>4. each \in Seq(Seq(Here))
  <2>1. each = [k \in 1 .. Len(named) |-> each[k]] /\ Len(named) \in Nat /\ DOMAIN named = 1 .. Len(named)
    BY <1>1 DEF named
  <2> QED
    BY <1>3, <2>1
<1>5. flat \in Seq(Here) /\ Gathered(flat, each)
  BY <1>4, FlattenGathers
<1> HIDE DEF flat
<1>6. \A d : Holds(flat, d) <=> \E k \in DOMAIN named : Some(named[k]) /\ d = One(named[k])
  <2>1. \A d : Holds(flat, d) <=> \E k \in DOMAIN named : Holds(each[k], d)
    <3> SUFFICES ASSUME NEW d PROVE Holds(flat, d) <=> \E k \in DOMAIN named : Holds(each[k], d)
      OBVIOUS
    <3>1. Holds(flat, d) <=> \E k \in DOMAIN each : \E i \in DOMAIN each[k] : each[k][i] = d
      BY <1>5, Zenon DEF Gathered, Holds
    <3> QED
      BY <1>1, <3>1, Zenon DEF Holds
  <2> QED
    BY <1>3, <2>1, Zenon
<1>7. marked \in Seq(Here) /\ \A d : Holds(marked, d) => d = Marker(n)
  <2>1. Marker(n) \in Here
    BY DEF OfLine, Here
  <2>2. CASE marked = <<>>
    BY <2>2 DEF Holds
  <2>3. CASE marked = <<Marker(n)>>
    <3>1. DOMAIN marked = {1} /\ marked[1] = Marker(n)
      BY <2>3
    <3>2. marked \in Seq(Here)
      BY <2>1, <2>3
    <3> QED
      BY <3>1, <3>2, Zenon DEF Holds
  <2> QED
    BY <2>2, <2>3
<1>8. marked \o flat \in Seq(Here) /\ \A d : Holds(marked \o flat, d) <=> Holds(marked, d) \/ Holds(flat, d)
  <2>1. Both(marked \o flat, marked, flat)
    BY <1>5, <1>7, ConcatGathers
  <2>2. \A d : Holds(marked \o flat, d) <=> Holds(marked, d) \/ Holds(flat, d)
    BY <2>1, Zenon DEF Both, Holds
  <2> QED
    BY <1>5, <1>7, <2>2
<1>9. \A rule \in Range(named) : Some(rule) => Holds(flat, One(rule))
  <2>1. \A rule \in Range(named) : \E k \in DOMAIN named : named[k] = rule
    BY DEF Range
  <2> QED
    BY <1>6, <2>1, Zenon
<1>10. \A d : Holds(flat, d) => \E rule \in Range(named) : Some(rule) /\ d = One(rule)
  BY <1>2, <1>6, Zenon
<1> QED
  BY <1>7, <1>8, <1>9, <1>10, Zenon DEF IsOfLine, Here, Some, One, named, flat

RulesOf(language) == Range(L!language_rules(language))

\* What level 1 finds in the lines of a source.
IsChecked(checks, source, language) ==
    /\ checks \in Seq(Possible(source, language))
    /\ \A n \in DOMAIN source : \A rule \in RulesOf(language) :
          CodeAt(source[n], language, rule) # {} => Holds(checks, FoundAt(source, n, language, rule))
    /\ \A d : Holds(checks, d) =>
          \E n \in DOMAIN source : \/ d = Marker(n)
                                   \/ \E rule \in RulesOf(language) :
                                         CodeAt(source[n], language, rule) # {} /\ d = FoundAt(source, n, language, rule)

MarkedAt(source, n) == IF L!Range(source[n]) \cap L!Markers = {} THEN <<>> ELSE <<Marker(n)>>
RulesAt(source, n, language) ==
    [k \in DOMAIN L!language_rules(language) |->
        IF CodeAt(source[n], language, L!language_rules(language)[k]) = {} THEN <<>>
        ELSE <<FoundAt(source, n, language, L!language_rules(language)[k])>>]

LEMMA LinesChecked ==
    ASSUME NEW S, NEW source \in Seq(S), NEW language
    PROVE  IsChecked(L!run_tree_sitter_checks(source, language), source, language)
<1> DEFINE All == Possible(source, language)
           Line(n) == MarkedAt(source, n) \o FlattenSeq(RulesAt(source, n, language))
           lines == [n \in DOMAIN source |-> Line(n)]
           checks == L!run_tree_sitter_checks(source, language)
<1>1. checks = FlattenSeq(lines)
  BY Zenon DEF L!run_tree_sitter_checks, L!Mapped, MarkedAt, RulesAt, CodeAt, FoundAt, Marker, First, L!FlattenSeq, FlattenSeq
<1>2. ASSUME NEW n \in DOMAIN source PROVE IsOfLine(Line(n), source, n, language)
  <2>1. MarkedAt(source, n) = <<>> \/ MarkedAt(source, n) = <<Marker(n)>>
    BY DEF MarkedAt
  <2>2. DOMAIN RulesAt(source, n, language) = DOMAIN L!language_rules(language)
    BY DEF RulesAt
  <2> QED
    BY <2>1, <2>2, LineFound DEF RulesAt
<1> HIDE DEF checks, Line
<1>3. lines \in Seq(Seq(All)) /\ DOMAIN lines = DOMAIN source /\ \A n \in DOMAIN source : lines[n] = Line(n)
  <2>1. ASSUME NEW n \in DOMAIN source PROVE Line(n) \in Seq(All)
    <3>1. OfLine(source, n, language) \subseteq All
      BY DEF Possible
    <3>2. Line(n) \in Seq(OfLine(source, n, language))
      BY <1>2 DEF IsOfLine
    <3> HIDE DEF All
    <3> QED
      BY <3>1, <3>2
  <2> HIDE DEF All
  <2> QED
    BY <2>1
<1> HIDE DEF lines, All
<1>4. checks \in Seq(All) /\ Gathered(checks, lines)
  BY <1>1, <1>3, FlattenGathers
<1>5. \A d : Holds(checks, d) <=> \E n \in DOMAIN source : Holds(Line(n), d)
  <2> SUFFICES ASSUME NEW d PROVE Holds(checks, d) <=> \E n \in DOMAIN source : Holds(Line(n), d)
    OBVIOUS
  <2>1. Holds(checks, d) <=> \E n \in DOMAIN lines : \E i \in DOMAIN lines[n] : lines[n][i] = d
    BY <1>4, Zenon DEF Gathered, Holds
  <2>2. Holds(checks, d) <=> \E n \in DOMAIN lines : Holds(lines[n], d)
    BY <2>1, Zenon DEF Holds
  <2> QED
    BY <1>3, <2>2, Zenon
<1>6. ASSUME NEW n \in DOMAIN source, NEW rule \in RulesOf(language), CodeAt(source[n], language, rule) # {}
      PROVE  Holds(checks, FoundAt(source, n, language, rule))
  BY <1>2, <1>5, <1>6, Zenon DEF IsOfLine, RulesOf
<1>7. ASSUME NEW d, Holds(checks, d)
      PROVE  \E n \in DOMAIN source : \/ d = Marker(n)
                                      \/ \E rule \in RulesOf(language) :
                                            CodeAt(source[n], language, rule) # {} /\ d = FoundAt(source, n, language, rule)
  BY <1>2, <1>5, <1>7, Zenon DEF IsOfLine, RulesOf
<1> QED
  BY <1>4, <1>6, <1>7, Zenon DEF IsChecked, All, checks

IsDiagnostic(d) == d.line \in Nat /\ d.column \in Nat /\ d.source \in Range(L!Sources)

LEMMA SourcesDiffer ==
    /\ DOMAIN L!Sources = 1 .. 9
    /\ \A k, l \in 1 .. 9 : L!Sources[k] = L!Sources[l] => k = l
<1>1. L!Sources = <<"clippy", "cppcheck", "dotnet", "eslint", "javac", "kotlinc", "ktlint", "mypy", "tree-sitter">>
  BY Zenon DEF L!Sources
<1> QED
  BY <1>1

\* By the values of f, of g for the same value of f, and then of h.
Smaller(f, g, h, i, j) == f[i] < f[j] \/ (f[i] = f[j] /\ g[i] < g[j]) \/ (f[i] = f[j] /\ g[i] = g[j] /\ h[i] < h[j])

LEMMA SmallerIsOrder ==
    ASSUME NEW S, NEW f, NEW g, NEW h, \A i \in S : f[i] \in Nat /\ g[i] \in Nat /\ h[i] \in Nat
    PROVE  /\ \A i \in S : ~Smaller(f, g, h, i, i)
           /\ \A i, j, k \in S : /\ Smaller(f, g, h, i, j) /\ Smaller(f, g, h, j, k) => Smaller(f, g, h, i, k)
                                 /\ Smaller(f, g, h, i, k) => Smaller(f, g, h, i, j) \/ Smaller(f, g, h, j, k)
<1>1. \A i \in S : ~Smaller(f, g, h, i, i)
  BY DEF Smaller
<1>2. ASSUME NEW i \in S, NEW j \in S, NEW k \in S
      PROVE  /\ Smaller(f, g, h, i, j) /\ Smaller(f, g, h, j, k) => Smaller(f, g, h, i, k)
             /\ Smaller(f, g, h, i, k) => Smaller(f, g, h, i, j) \/ Smaller(f, g, h, j, k)
  <2> DEFINE a == f[i]
             b == g[i]
             c == h[i]
             u == f[j]
             v == g[j]
             w == h[j]
             x == f[k]
             y == g[k]
             z == h[k]
  <2>1. a \in Nat /\ b \in Nat /\ c \in Nat /\ u \in Nat /\ v \in Nat /\ w \in Nat /\ x \in Nat /\ y \in Nat /\ z \in Nat
    OBVIOUS
  <2>2. /\ Smaller(f, g, h, i, j) <=> a < u \/ (a = u /\ b < v) \/ (a = u /\ b = v /\ c < w)
        /\ Smaller(f, g, h, j, k) <=> u < x \/ (u = x /\ v < y) \/ (u = x /\ v = y /\ w < z)
        /\ Smaller(f, g, h, i, k) <=> a < x \/ (a = x /\ b < y) \/ (a = x /\ b = y /\ c < z)
    BY Zenon DEF Smaller
  <2> HIDE DEF a, b, c, u, v, w, x, y, z
  <2>3. Smaller(f, g, h, i, j) /\ Smaller(f, g, h, j, k) => Smaller(f, g, h, i, k)
    BY <2>1, <2>2
  <2>4. Smaller(f, g, h, i, k) => Smaller(f, g, h, i, j) \/ Smaller(f, g, h, j, k)
    BY <2>1, <2>2
  <2> QED
    BY <2>3, <2>4
<1> QED
  BY <1>1, <1>2

\* The diagnostics by line, column and source.
LEMMA InOrderPermutes ==
    ASSUME NEW S, NEW ds \in Seq(S), \A i \in DOMAIN ds : IsDiagnostic(ds[i])
    PROVE  Permuted(L!InOrder(ds), ds, S)
<1> DEFINE N == Len(ds)
           Before(i, j) == \/ L!Earlier(ds[i], ds[j])
                           \/ ~L!Earlier(ds[j], ds[i]) /\ i < j
           below == [i \in DOMAIN ds |-> {j \in DOMAIN ds : Before(j, i)}]
           line == [i \in 1 .. N |-> ds[i].line]
           column == [i \in 1 .. N |-> ds[i].column]
           rank == [i \in 1 .. N |-> CHOOSE k \in 1 .. 9 : L!Sources[k] = ds[i].source]
<1>1. N \in Nat /\ DOMAIN ds = 1 .. N
  OBVIOUS
<1>2. \A i \in 1 .. N : line[i] \in Nat /\ column[i] \in Nat /\ line[i] = ds[i].line /\ column[i] = ds[i].column
  BY <1>1 DEF IsDiagnostic
<1>3. \A i \in 1 .. N : rank[i] \in 1 .. 9 /\ L!Sources[rank[i]] = ds[i].source
  BY <1>1, SourcesDiffer DEF IsDiagnostic, Range
<1> DEFINE Sooner(i, j) == L!Earlier(ds[i], ds[j])
           Less(i, j) == Smaller(line, column, rank, i, j)
<1>4. ASSUME NEW i \in 1 .. N, NEW j \in 1 .. N PROVE Sooner(i, j) <=> Less(i, j)
  <2> HIDE DEF line, column, rank, N
  <2>1. (\E k, l \in DOMAIN L!Sources : k < l /\ ds[i].source = L!Sources[k] /\ ds[j].source = L!Sources[l])
           <=> rank[i] < rank[j]
    <3>1. ASSUME NEW k \in 1 .. 9, NEW l \in 1 .. 9, ds[i].source = L!Sources[k], ds[j].source = L!Sources[l]
          PROVE  k = rank[i] /\ l = rank[j]
      BY <1>3, <3>1, SourcesDiffer
    <3>2. ds[i].source = L!Sources[rank[i]] /\ ds[j].source = L!Sources[rank[j]] /\ rank[i] \in 1 .. 9 /\ rank[j] \in 1 .. 9
      BY <1>3
    <3>3. DOMAIN L!Sources = 1 .. 9
      BY SourcesDiffer
    <3> QED
      BY <3>1, <3>2, <3>3, Zenon
  <2> QED
    BY <1>2, <2>1 DEF L!Earlier, Smaller
<1>5. \A i \in 1 .. N : rank[i] \in Nat
  <2> HIDE DEF rank, N
  <2> QED
    BY <1>3
<1>6. ASSUME NEW i \in 1 .. N PROVE ~Sooner(i, i)
  <2> HIDE DEF Sooner, line, column, rank, N
  <2> QED
    BY <1>2, <1>4, <1>5, SmallerIsOrder DEF Less
<1>7. ASSUME NEW i \in 1 .. N, NEW j \in 1 .. N, NEW k \in 1 .. N
      PROVE  /\ Sooner(i, j) /\ Sooner(j, k) => Sooner(i, k)
             /\ Sooner(i, k) => Sooner(i, j) \/ Sooner(j, k)
  <2> HIDE DEF Sooner, Less, line, column, rank, N
  <2>1. /\ Less(i, j) /\ Less(j, k) => Less(i, k)
        /\ Less(i, k) => Less(i, j) \/ Less(j, k)
    BY <1>2, <1>5, SmallerIsOrder DEF Less
  <2> QED
    BY <1>4, <2>1, Zenon
<1>8. \A i, j \in 1 .. N : j \in below[i] <=> Before(j, i)
  BY <1>1
<1>9. L!InOrder(ds) = [n \in DOMAIN ds |-> ds[CHOOSE i \in DOMAIN ds : Cardinality(below[i]) = n - 1]]
  <2>1. L!InOrder(ds) = [n \in DOMAIN ds |-> ds[CHOOSE i \in DOMAIN ds : Cardinality({j \in DOMAIN ds : Before(j, i)}) = n - 1]]
    BY Zenon DEF L!InOrder, L!Sorted, L!Cardinality, Cardinality
  <2> HIDE DEF Before
  <2> QED
    BY <2>1
<1>10. below \in [DOMAIN ds -> SUBSET DOMAIN ds]
  OBVIOUS
<1> HIDE DEF below, N, Sooner, line, column, rank, Less
<1>11. \A i, j \in 1 .. N : j \in below[i] <=> Sooner(j, i) \/ (~Sooner(i, j) /\ j < i)
  BY <1>8 DEF Sooner
<1>12. \A i \in DOMAIN ds : i \notin below[i]
  BY <1>1, <1>6, <1>11
<1>13. \A i, j \in DOMAIN ds : i = j \/ i \in below[j] \/ j \in below[i]
  BY <1>1, <1>11
<1>14. \A i, j \in DOMAIN ds : i \in below[j] => below[i] \subseteq below[j]
  <2> SUFFICES ASSUME NEW i \in 1 .. N, NEW j \in 1 .. N, NEW k \in 1 .. N, k \in below[i], i \in below[j]
               PROVE  k \in below[j]
    BY <1>1, <1>10
  <2>1. /\ Sooner(k, i) \/ (~Sooner(i, k) /\ k < i)
        /\ Sooner(i, j) \/ (~Sooner(j, i) /\ i < j)
    BY <1>11
  <2>2. k < i /\ i < j => k < j
    BY <1>1
  <2>3. Sooner(k, j) \/ (~Sooner(j, k) /\ k < j)
    BY <1>6, <1>7, <2>1, <2>2
  <2> QED
    BY <1>11, <2>3
<1> QED
  BY <1>9, <1>10, <1>12, <1>13, <1>14, PlacesPermute

(***************************************************************************)
(* What the external linters report.                                       *)
(***************************************************************************)
IsMessage(m, linter) ==
    /\ m.spans \in Seq(Range(m.spans))
    /\ m.shape = "message" /\ linter # "clippy" => Len(m.spans) = 1
    /\ \A s \in Range(m.spans) : s.line \in Nat /\ s.column \in Nat
AreMessages(messages, linter) ==
    messages \in Seq(Range(messages)) /\ \A n \in DOMAIN messages : IsMessage(messages[n], linter)

AboutFile(m, path) == \E s \in Range(m.spans) : L!path_matches_target(s.file, path)
IsError(m, path) ==
    /\ m.shape = "message" /\ m.level = "error"
    /\ \E s \in Range(m.spans) : s.primary /\ s.line > 0 /\ s.column > 0 /\ L!path_matches_target(s.file, path)
IsOf(d, linter) == d.line \in Nat /\ d.column \in Nat /\ d.source = linter

\* These diagnostics of a linter are of messages about the file, and there is one if a
\* message is an error.
Reports(diags, linter, messages, path) ==
    /\ diags \in Seq(Range(diags))
    /\ \A i \in DOMAIN diags : IsOf(diags[i], linter)
    /\ \A i \in DOMAIN diags : \E n \in DOMAIN messages : AboutFile(messages[n], path)
    /\ diags = <<>> => \A n \in DOMAIN messages : ~IsError(messages[n], path)

\* One diagnostic for each accepted message.
LEMMA AcceptedReport ==
    ASSUME NEW messages, NEW linter, AreMessages(messages, linter), NEW path,
           NEW accepted \in SUBSET DOMAIN messages, \A n \in accepted : AboutFile(messages[n], path),
           \A n \in DOMAIN messages : IsError(messages[n], path) => n \in accepted,
           NEW about, about = L!At(messages, accepted)[Len(messages)],
           NEW diags, diags = [i \in DOMAIN about |-> diags[i]],
           \A i \in DOMAIN about : \A n \in accepted : about[i] = messages[n] => IsOf(diags[i], linter)
    PROVE  Reports(diags, linter, messages, path)
<1> DEFINE S == Range(messages)
<1>1. messages \in Seq(S)
  BY DEF AreMessages
<1> HIDE DEF S
<1>2. about = At(messages, accepted)[Len(messages)]
  BY SameAt, Zenon
<1>3. about \in Seq(S) /\ Taken(about, messages, accepted)
  BY <1>1, <1>2, AtPlaces
<1>4. \A i \in DOMAIN about : \E n \in accepted : about[i] = messages[n]
  BY <1>3, Zenon DEF Taken
<1>5. \A n \in accepted : \E i \in DOMAIN about : about[i] = messages[n]
  BY <1>3, Zenon DEF Taken
<1>6. DOMAIN about = 1 .. Len(about) /\ Len(about) \in Nat
  BY <1>3
<1>7. diags \in Seq(Range(diags)) /\ DOMAIN diags = DOMAIN about
  <2>1. diags \in [1 .. Len(about) -> Range(diags)]
    BY <1>6 DEF Range
  <2> QED
    BY <1>6, <2>1
<1>8. \A i \in DOMAIN diags : IsOf(diags[i], linter) /\ \E n \in DOMAIN messages : AboutFile(messages[n], path)
  BY <1>4, <1>7, Zenon
<1>9. ASSUME diags = <<>>, NEW n \in DOMAIN messages PROVE ~IsError(messages[n], path)
  <2>1. DOMAIN about = {}
    BY <1>7, <1>9
  <2> QED
    BY <1>5, <2>1, Zenon
<1> QED
  BY <1>7, <1>8, <1>9 DEF Reports

\* These diagnostics have the place of the first spans.
FromSpans(diags, about, linter) ==
    /\ diags = [i \in DOMAIN about |-> diags[i]]
    /\ \A i \in DOMAIN about :
          /\ diags[i].source = linter
          /\ diags[i].line \in {about[i].spans[1].line, L!OrOne(about[i].spans[1].line)}
          /\ diags[i].column \in {1, about[i].spans[1].column, L!OrOne(about[i].spans[1].column)}

\* A message that the parsers may accept.
Aimed(m, path) == m.shape = "message" /\ L!path_matches_target(m.spans[1].file, path)

LEMMA OneSpan ==
    ASSUME NEW m, NEW linter, IsMessage(m, linter), linter # "clippy", m.shape = "message", NEW path
    PROVE  /\ m.spans[1].line \in Nat /\ m.spans[1].column \in Nat
           /\ Aimed(m, path) => AboutFile(m, path)
           /\ IsError(m, path) => /\ Aimed(m, path) /\ m.level = "error"
                                  /\ m.spans[1].line # 0 /\ m.spans[1].column # 0
<1>1. m.spans \in Seq(Range(m.spans)) /\ Len(m.spans) = 1
  BY DEF IsMessage
<1>2. DOMAIN m.spans = {1}
  BY <1>1
<1>3. Range(m.spans) = {m.spans[1]}
  BY <1>2 DEF Range
<1>4. m.spans[1].line \in Nat /\ m.spans[1].column \in Nat
  BY <1>3 DEF IsMessage
<1>5. Aimed(m, path) => AboutFile(m, path)
  BY <1>3, Zenon DEF Aimed, AboutFile
<1>6. ASSUME IsError(m, path)
      PROVE  Aimed(m, path) /\ m.level = "error" /\ m.spans[1].line # 0 /\ m.spans[1].column # 0
  <2>1. PICK s \in Range(m.spans) : s.line > 0 /\ s.column > 0 /\ L!path_matches_target(s.file, path)
    BY <1>6 DEF IsError
  <2>2. s = m.spans[1]
    BY <1>3
  <2>3. m.level = "error"
    BY <1>6 DEF IsError
  <2> QED
    BY <2>1, <2>2, <2>3 DEF Aimed
<1> QED
  BY <1>4, <1>5, <1>6

LEMMA ParsedReport ==
    ASSUME NEW messages, NEW linter, AreMessages(messages, linter), linter # "clippy", NEW path,
           NEW accepted \in SUBSET {n \in DOMAIN messages : Aimed(messages[n], path)},
           \A n \in DOMAIN messages : IsError(messages[n], path) => n \in accepted,
           NEW diags, FromSpans(diags, L!At(messages, accepted)[Len(messages)], linter)
    PROVE  Reports(diags, linter, messages, path)
<1> DEFINE about == L!At(messages, accepted)[Len(messages)]
<1>1. \A n \in accepted : /\ n \in DOMAIN messages /\ Aimed(messages[n], path)
                          /\ messages[n].shape = "message" /\ IsMessage(messages[n], linter)
  BY DEF AreMessages, Aimed
<1>2. \A n \in accepted : /\ AboutFile(messages[n], path)
                          /\ messages[n].spans[1].line \in Nat /\ messages[n].spans[1].column \in Nat
  BY <1>1, OneSpan
<1>3. \A k \in Nat : L!OrOne(k) \in Nat
  BY DEF L!OrOne
<1> HIDE DEF about
<1>4. ASSUME NEW i \in DOMAIN about, NEW n \in accepted, about[i] = messages[n] PROVE IsOf(diags[i], linter)
  <2>1. /\ diags[i].source = linter
        /\ diags[i].line \in {about[i].spans[1].line, L!OrOne(about[i].spans[1].line)}
        /\ diags[i].column \in {1, about[i].spans[1].column, L!OrOne(about[i].spans[1].column)}
    BY DEF FromSpans, about
  <2> DEFINE line == about[i].spans[1].line
             column == about[i].spans[1].column
  <2>2. line \in Nat /\ column \in Nat
    BY <1>2, <1>4
  <2>3. /\ diags[i].source = linter /\ diags[i].line \in {line, L!OrOne(line)}
        /\ diags[i].column \in {1, column, L!OrOne(column)}
    BY <2>1
  <2> HIDE DEF line, column
  <2>4. L!OrOne(line) \in Nat /\ L!OrOne(column) \in Nat
    BY <1>3, <2>2, Zenon
  <2>5. diags[i].line \in Nat
    BY <2>2, <2>3, <2>4, Zenon
  <2>6. diags[i].column \in Nat
    <3>1. 1 \in Nat
      OBVIOUS
    <3> QED
      BY <2>2, <2>3, <2>4, <3>1, Zenon
  <2> QED
    BY <2>3, <2>5, <2>6, Zenon DEF IsOf
<1>5. diags = [i \in DOMAIN about |-> diags[i]]
  BY DEF FromSpans, about
<1>6. accepted \in SUBSET DOMAIN messages
  OBVIOUS
<1> QED
  BY <1>2, <1>4, <1>5, <1>6, AcceptedReport DEF about

LEMMA EslintReports ==
    ASSUME NEW messages, NEW path, AreMessages(messages, "eslint"),
           ~\E i \in DOMAIN messages : messages[i].shape # "message"
    PROVE  Reports(L!parse_eslint_output(messages, path), "eslint", messages, path)
<1> DEFINE Accepts(m) == TRUE
           accepted == {n \in DOMAIN messages : /\ messages[n].shape = "message"
                                                /\ L!path_matches_target(messages[n].spans[1].file, path)
                                                /\ Accepts(messages[n])}
           about == L!At(messages, accepted)[Len(messages)]
           diags == L!parse_eslint_output(messages, path)
<1>1. diags = [i \in DOMAIN about |-> L!Diagnostic(L!OrOne(about[i].spans[1].line), L!OrOne(about[i].spans[1].column),
                                                  L!map_eslint_severity(about[i].level), about[i].rule, "eslint")]
  BY Zenon DEF L!parse_eslint_output, L!Parsed, L!Where, L!Mapped
<1>2. accepted \in SUBSET {n \in DOMAIN messages : Aimed(messages[n], path)}
  BY Zenon DEF Aimed
<1>3. ASSUME NEW n \in DOMAIN messages, IsError(messages[n], path) PROVE n \in accepted
  <2>1. messages[n].shape = "message" /\ IsMessage(messages[n], "eslint")
    BY <1>3, Zenon DEF AreMessages, IsError
  <2>2. /\ Aimed(messages[n], path) /\ messages[n].level = "error"
        /\ messages[n].spans[1].line # 0 /\ messages[n].spans[1].column # 0
    BY <1>3, <2>1, OneSpan
  <2> QED
    BY <2>1, <2>2, Zenon DEF Aimed, L!HasPosition
<1> HIDE DEF about, diags
<1>4. FromSpans(diags, about, "eslint")
  BY <1>1 DEF FromSpans, L!Diagnostic
<1> HIDE DEF accepted
<1> QED
  BY <1>2, <1>3, <1>4, ParsedReport DEF about, diags

LEMMA MypyReports ==
    ASSUME NEW messages, NEW path, AreMessages(messages, "mypy")
    PROVE  Reports(L!parse_mypy_output(messages, path), "mypy", messages, path)
<1> DEFINE Accepts(m) == m.level # ""
           accepted == {n \in DOMAIN messages : /\ messages[n].shape = "message"
                                                /\ L!path_matches_target(messages[n].spans[1].file, path)
                                                /\ Accepts(messages[n])}
           about == L!At(messages, accepted)[Len(messages)]
           diags == L!parse_mypy_output(messages, path)
<1>1. diags = [i \in DOMAIN about |-> L!Diagnostic(L!OrOne(about[i].spans[1].line), L!OrOne(about[i].spans[1].column),
                                                  L!map_severity(about[i].level), about[i].rule, "mypy")]
  BY Zenon DEF L!parse_mypy_output, L!Parsed, L!Where, L!Mapped
<1>2. accepted \in SUBSET {n \in DOMAIN messages : Aimed(messages[n], path)}
  BY Zenon DEF Aimed
<1>3. ASSUME NEW n \in DOMAIN messages, IsError(messages[n], path) PROVE n \in accepted
  <2>1. messages[n].shape = "message" /\ IsMessage(messages[n], "mypy")
    BY <1>3, Zenon DEF AreMessages, IsError
  <2>2. /\ Aimed(messages[n], path) /\ messages[n].level = "error"
        /\ messages[n].spans[1].line # 0 /\ messages[n].spans[1].column # 0
    BY <1>3, <2>1, OneSpan
  <2> QED
    BY <2>1, <2>2, Zenon DEF Aimed, L!HasPosition
<1> HIDE DEF about, diags
<1>4. FromSpans(diags, about, "mypy")
  BY <1>1 DEF FromSpans, L!Diagnostic
<1> HIDE DEF accepted
<1> QED
  BY <1>2, <1>3, <1>4, ParsedReport DEF about, diags

LEMMA JavacReports ==
    ASSUME NEW messages, NEW path, AreMessages(messages, "javac")
    PROVE  Reports(L!parse_javac_output(messages, path), "javac", messages, path)
<1> DEFINE Accepts(m) == m.spans[1].line # 0 /\ m.level \in {"error", "warning"}
           accepted == {n \in DOMAIN messages : /\ messages[n].shape = "message"
                                                /\ L!path_matches_target(messages[n].spans[1].file, path)
                                                /\ Accepts(messages[n])}
           about == L!At(messages, accepted)[Len(messages)]
           diags == L!parse_javac_output(messages, path)
<1>1. diags = [i \in DOMAIN about |-> L!Diagnostic(about[i].spans[1].line, 1,
                                                  L!map_severity(about[i].level), about[i].level, "javac")]
  BY Zenon DEF L!parse_javac_output, L!Parsed, L!Where, L!Mapped
<1>2. accepted \in SUBSET {n \in DOMAIN messages : Aimed(messages[n], path)}
  BY Zenon DEF Aimed
<1>3. ASSUME NEW n \in DOMAIN messages, IsError(messages[n], path) PROVE n \in accepted
  <2>1. messages[n].shape = "message" /\ IsMessage(messages[n], "javac")
    BY <1>3, Zenon DEF AreMessages, IsError
  <2>2. /\ Aimed(messages[n], path) /\ messages[n].level = "error"
        /\ messages[n].spans[1].line # 0 /\ messages[n].spans[1].column # 0
    BY <1>3, <2>1, OneSpan
  <2> QED
    BY <2>1, <2>2, Zenon DEF Aimed, L!HasPosition
<1> HIDE DEF about, diags
<1>4. FromSpans(diags, about, "javac")
  BY <1>1 DEF FromSpans, L!Diagnostic
<1> HIDE DEF accepted
<1> QED
  BY <1>2, <1>3, <1>4, ParsedReport DEF about, diags

LEMMA KtlintReports ==
    ASSUME NEW messages, NEW path, AreMessages(messages, "ktlint")
    PROVE  Reports(L!parse_ktlint_output(messages, path), "ktlint", messages, path)
<1> DEFINE Accepts(m) == L!HasPosition(m)
           accepted == {n \in DOMAIN messages : /\ messages[n].shape = "message"
                                                /\ L!path_matches_target(messages[n].spans[1].file, path)
                                                /\ Accepts(messages[n])}
           about == L!At(messages, accepted)[Len(messages)]
           diags == L!parse_ktlint_output(messages, path)
<1>1. diags = [i \in DOMAIN about |-> L!Diagnostic(about[i].spans[1].line, about[i].spans[1].column,
                                                  "WARN", about[i].rule, "ktlint")]
  BY Zenon DEF L!parse_ktlint_output, L!Parsed, L!Where, L!Mapped
<1>2. accepted \in SUBSET {n \in DOMAIN messages : Aimed(messages[n], path)}
  BY Zenon DEF Aimed
<1>3. ASSUME NEW n \in DOMAIN messages, IsError(messages[n], path) PROVE n \in accepted
  <2>1. messages[n].shape = "message" /\ IsMessage(messages[n], "ktlint")
    BY <1>3, Zenon DEF AreMessages, IsError
  <2>2. /\ Aimed(messages[n], path) /\ messages[n].level = "error"
        /\ messages[n].spans[1].line # 0 /\ messages[n].spans[1].column # 0
    BY <1>3, <2>1, OneSpan
  <2> QED
    BY <2>1, <2>2, Zenon DEF Aimed, L!HasPosition
<1> HIDE DEF about, diags
<1>4. FromSpans(diags, about, "ktlint")
  BY <1>1 DEF FromSpans, L!Diagnostic
<1> HIDE DEF accepted
<1> QED
  BY <1>2, <1>3, <1>4, ParsedReport DEF about, diags

LEMMA KotlincReports ==
    ASSUME NEW messages, NEW path, AreMessages(messages, "kotlinc")
    PROVE  Reports(L!parse_kotlinc_output(messages, path), "kotlinc", messages, path)
<1> DEFINE Accepts(m) == L!HasPosition(m) /\ m.level \in {"error", "warning"}
           accepted == {n \in DOMAIN messages : /\ messages[n].shape = "message"
                                                /\ L!path_matches_target(messages[n].spans[1].file, path)
                                                /\ Accepts(messages[n])}
           about == L!At(messages, accepted)[Len(messages)]
           diags == L!parse_kotlinc_output(messages, path)
<1>1. diags = [i \in DOMAIN about |-> L!Diagnostic(about[i].spans[1].line, about[i].spans[1].column,
                                                  L!map_severity(about[i].level), about[i].level, "kotlinc")]
  BY Zenon DEF L!parse_kotlinc_output, L!Parsed, L!Where, L!Mapped
<1>2. accepted \in SUBSET {n \in DOMAIN messages : Aimed(messages[n], path)}
  BY Zenon DEF Aimed
<1>3. ASSUME NEW n \in DOMAIN messages, IsError(messages[n], path) PROVE n \in accepted
  <2>1. messages[n].shape = "message" /\ IsMessage(messages[n], "kotlinc")
    BY <1>3, Zenon DEF AreMessages, IsError
  <2>2. /\ Aimed(messages[n], path) /\ messages[n].level = "error"
        /\ messages[n].spans[1].line # 0 /\ messages[n].spans[1].column # 0
    BY <1>3, <2>1, OneSpan
  <2> QED
    BY <2>1, <2>2, Zenon DEF Aimed, L!HasPosition
<1> HIDE DEF about, diags
<1>4. FromSpans(diags, about, "kotlinc")
  BY <1>1 DEF FromSpans, L!Diagnostic
<1> HIDE DEF accepted
<1> QED
  BY <1>2, <1>3, <1>4, ParsedReport DEF about, diags

LEMMA CppcheckReports ==
    ASSUME NEW messages, NEW path, AreMessages(messages, "cppcheck")
    PROVE  Reports(L!parse_cppcheck_output(messages, path), "cppcheck", messages, path)
<1> DEFINE Accepts(m) == m.spans[1].line # 0
           accepted == {n \in DOMAIN messages : /\ messages[n].shape = "message"
                                                /\ L!path_matches_target(messages[n].spans[1].file, path)
                                                /\ Accepts(messages[n])}
           about == L!At(messages, accepted)[Len(messages)]
           diags == L!parse_cppcheck_output(messages, path)
<1>1. diags = [i \in DOMAIN about |-> L!Diagnostic(about[i].spans[1].line, L!OrOne(about[i].spans[1].column),
                                                  L!map_severity(about[i].level), about[i].rule, "cppcheck")]
  BY Zenon DEF L!parse_cppcheck_output, L!Parsed, L!Where, L!Mapped
<1>2. accepted \in SUBSET {n \in DOMAIN messages : Aimed(messages[n], path)}
  BY Zenon DEF Aimed
<1>3. ASSUME NEW n \in DOMAIN messages, IsError(messages[n], path) PROVE n \in accepted
  <2>1. messages[n].shape = "message" /\ IsMessage(messages[n], "cppcheck")
    BY <1>3, Zenon DEF AreMessages, IsError
  <2>2. /\ Aimed(messages[n], path) /\ messages[n].level = "error"
        /\ messages[n].spans[1].line # 0 /\ messages[n].spans[1].column # 0
    BY <1>3, <2>1, OneSpan
  <2> QED
    BY <2>1, <2>2, Zenon DEF Aimed, L!HasPosition
<1> HIDE DEF about, diags
<1>4. FromSpans(diags, about, "cppcheck")
  BY <1>1 DEF FromSpans, L!Diagnostic
<1> HIDE DEF accepted
<1> QED
  BY <1>2, <1>3, <1>4, ParsedReport DEF about, diags

LEMMA DotnetReports ==
    ASSUME NEW messages, NEW path, AreMessages(messages, "dotnet")
    PROVE  Reports(L!parse_dotnet_output(messages, path), "dotnet", messages, path)
<1> DEFINE Accepts(m) == L!HasPosition(m) /\ m.level \in {"error", "warning"}
           accepted == {n \in DOMAIN messages : /\ messages[n].shape = "message"
                                                /\ L!path_matches_target(messages[n].spans[1].file, path)
                                                /\ Accepts(messages[n])}
           about == L!At(messages, accepted)[Len(messages)]
           diags == L!parse_dotnet_output(messages, path)
<1>1. diags = [i \in DOMAIN about |-> L!Diagnostic(about[i].spans[1].line, about[i].spans[1].column,
                                                  L!map_severity(about[i].level), about[i].rule, "dotnet")]
  BY Zenon DEF L!parse_dotnet_output, L!Parsed, L!Where, L!Mapped
<1>2. accepted \in SUBSET {n \in DOMAIN messages : Aimed(messages[n], path)}
  BY Zenon DEF Aimed
<1>3. ASSUME NEW n \in DOMAIN messages, IsError(messages[n], path) PROVE n \in accepted
  <2>1. messages[n].shape = "message" /\ IsMessage(messages[n], "dotnet")
    BY <1>3, Zenon DEF AreMessages, IsError
  <2>2. /\ Aimed(messages[n], path) /\ messages[n].level = "error"
        /\ messages[n].spans[1].line # 0 /\ messages[n].spans[1].column # 0
    BY <1>3, <2>1, OneSpan
  <2> QED
    BY <2>1, <2>2, Zenon DEF Aimed, L!HasPosition
<1> HIDE DEF about, diags
<1>4. FromSpans(diags, about, "dotnet")
  BY <1>1 DEF FromSpans, L!Diagnostic
<1> HIDE DEF accepted
<1> QED
  BY <1>2, <1>3, <1>4, ParsedReport DEF about, diags

\* The primary spans of the file.
PrimarySpans(m, path) ==
    L!At(m.spans, {k \in DOMAIN m.spans : m.spans[k].primary /\ L!path_matches_target(m.spans[k].file, path)})[Len(m.spans)]

LEMMA SpansAbout ==
    ASSUME NEW m, IsMessage(m, "clippy"), NEW path
    PROVE  /\ IsError(m, path) => PrimarySpans(m, path) # <<>>
           /\ PrimarySpans(m, path) # <<>> =>
                 /\ AboutFile(m, path)
                 /\ PrimarySpans(m, path)[1].line \in Nat /\ PrimarySpans(m, path)[1].column \in Nat
<1> DEFINE spans == PrimarySpans(m, path)
           S == Range(m.spans)
           places == {k \in DOMAIN m.spans : m.spans[k].primary /\ L!path_matches_target(m.spans[k].file, path)}
<1>1. m.spans \in Seq(S) /\ \A s \in S : s.line \in Nat /\ s.column \in Nat
  BY DEF IsMessage
<1>2. \A s : s \in S <=> \E k \in DOMAIN m.spans : m.spans[k] = s
  BY Zenon DEF Range
<1>3. \A k : k \in places <=> k \in DOMAIN m.spans /\ m.spans[k].primary /\ L!path_matches_target(m.spans[k].file, path)
  OBVIOUS
<1>4. spans = At(m.spans, places)[Len(m.spans)]
  BY SameAt, Zenon DEF PrimarySpans
<1> HIDE DEF S, spans, places
<1>5. spans \in Seq(S) /\ Taken(spans, m.spans, places)
  BY <1>1, <1>4, AtPlaces
<1>6. ASSUME IsError(m, path) PROVE spans # <<>>
  <2>1. PICK s \in S : s.primary /\ L!path_matches_target(s.file, path)
    BY <1>6, Zenon DEF IsError, S
  <2>2. PICK k \in DOMAIN m.spans : m.spans[k] = s
    BY <1>2, <2>1, Zenon
  <2>3. k \in DOMAIN m.spans \cap places
    BY <1>3, <2>1, <2>2, Zenon
  <2>4. \E i \in DOMAIN spans : spans[i] = s
    BY <1>5, <2>2, <2>3, Zenon DEF Taken
  <2> QED
    BY <2>4
<1>7. ASSUME spans # <<>> PROVE AboutFile(m, path) /\ spans[1].line \in Nat /\ spans[1].column \in Nat
  <2>1. 1 \in DOMAIN spans /\ spans[1] \in S
    BY <1>5, <1>7
  <2>2. PICK k \in DOMAIN m.spans \cap places : m.spans[k] = spans[1]
    BY <1>5, <2>1, Zenon DEF Taken
  <2>3. L!path_matches_target(spans[1].file, path)
    BY <1>3, <2>2, Zenon
  <2>4. AboutFile(m, path)
    BY <2>1, <2>3, Zenon DEF AboutFile, S
  <2> QED
    BY <1>1, <2>1, <2>4
<1> QED
  BY <1>6, <1>7, Zenon DEF spans

LEMMA ClippyReports ==
    ASSUME NEW messages, NEW path, AreMessages(messages, "clippy")
    PROVE  Reports(L!parse_clippy_output(messages, path), "clippy", messages, path)
<1> DEFINE Of(m) == PrimarySpans(m, path)
           accepted == {n \in DOMAIN messages : messages[n].shape = "message" /\ Of(messages[n]) # <<>>}
           about == L!At(messages, accepted)[Len(messages)]
           diags == L!parse_clippy_output(messages, path)
<1>1. diags = [i \in DOMAIN about |-> L!Diagnostic(L!OrOne(Of(about[i])[1].line), L!OrOne(Of(about[i])[1].column),
                                                  L!map_severity(about[i].level), about[i].rule, "clippy")]
  BY Zenon DEF L!parse_clippy_output, L!Where, L!Mapped, PrimarySpans
<1>2. \A n \in DOMAIN messages : IsMessage(messages[n], "clippy")
  BY Zenon DEF AreMessages
<1>3. \A n : n \in accepted <=> n \in DOMAIN messages /\ messages[n].shape = "message" /\ Of(messages[n]) # <<>>
  OBVIOUS
<1> HIDE DEF accepted, about, diags, Of
<1>4. \A n \in accepted : /\ AboutFile(messages[n], path)
                          /\ Of(messages[n])[1].line \in Nat /\ Of(messages[n])[1].column \in Nat
  BY <1>2, <1>3, SpansAbout, Zenon DEF Of
<1>5. ASSUME NEW n \in DOMAIN messages, IsError(messages[n], path) PROVE n \in accepted
  <2>1. Of(messages[n]) # <<>> /\ messages[n].shape = "message"
    BY <1>2, <1>5, SpansAbout, Zenon DEF IsError, Of
  <2> QED
    BY <1>3, <2>1, Zenon
<1>6. \A k \in Nat : L!OrOne(k) \in Nat
  BY DEF L!OrOne
<1>7. /\ diags = [i \in DOMAIN about |-> diags[i]]
      /\ \A i \in DOMAIN about : /\ diags[i].source = "clippy" /\ diags[i].line = L!OrOne(Of(about[i])[1].line)
                                 /\ diags[i].column = L!OrOne(Of(about[i])[1].column)
  BY <1>1 DEF L!Diagnostic
<1>8. ASSUME NEW i \in DOMAIN about, NEW n \in accepted, about[i] = messages[n] PROVE IsOf(diags[i], "clippy")
  BY <1>4, <1>6, <1>7, <1>8 DEF IsOf
<1>9. accepted \in SUBSET DOMAIN messages
  BY <1>3
<1> QED
  BY <1>4, <1>5, <1>7, <1>8, <1>9, AcceptedReport DEF about, diags

LEMMA FieldsAreOfRecords == \A output :
    /\ output.clippy = output["clippy"] /\ output.eslint = output["eslint"] /\ output.mypy = output["mypy"]
    /\ output.javac = output["javac"] /\ output.ktlint = output["ktlint"] /\ output.kotlinc = output["kotlinc"]
    /\ output.cppcheck = output["cppcheck"] /\ output.dotnet = output["dotnet"]
  OBVIOUS

Printed(out) == out.stdout \o out.stderr

LEMMA PrintedMessages ==
    ASSUME NEW linter, NEW out, IsOutput(linter, out)
    PROVE  AreMessages(Printed(out), linter) /\ (linter \in {"clippy", "eslint", "mypy"} => Printed(out) = out.stdout)
<1> DEFINE messages == Printed(out)
           S == Range(out.stdout) \cup Range(out.stderr)
<1>1. out.stdout \in Seq(Range(out.stdout)) /\ out.stderr \in Seq(Range(out.stderr))
  BY Zenon DEF IsOutput
<1>2. out.stdout \in Seq(S) /\ out.stderr \in Seq(S)
  BY <1>1
<1>3. messages \in Seq(S)
  BY <1>2 DEF Printed
<1>4. \A m \in Range(messages) : IsMessage(m, linter)
  BY Zenon DEF IsOutput, IsMessage, Printed
<1>5. linter \in {"clippy", "eslint", "mypy"} => messages = out.stdout
  <2> SUFFICES ASSUME linter \in {"clippy", "eslint", "mypy"} PROVE messages = out.stdout
    OBVIOUS
  <2>1. out.stderr = <<>>
    BY Zenon DEF IsOutput
  <2> QED
    BY <1>2, <2>1 DEF Printed
<1> HIDE DEF messages, S
<1>6. messages \in Seq(Range(messages)) /\ \A n \in DOMAIN messages : messages[n] \in Range(messages)
  BY <1>3 DEF Range
<1>7. AreMessages(messages, linter)
  BY <1>4, <1>6, Zenon DEF AreMessages
<1> QED
  BY <1>5, <1>7 DEF messages

\* One thing on eslint's stream that is no message, and none is read.
Noise(linter, messages) == linter = "eslint" /\ \E n \in DOMAIN messages : messages[n].shape # "message"

\* What a linter answers that printed these messages.
Tells(result, linter, out, path) ==
    /\ result.diagnostics \in Seq(Range(result.diagnostics))
    /\ \A i \in DOMAIN result.diagnostics : IsOf(result.diagnostics[i], linter)
    /\ result.diagnostics = <<>> /\ result.error = {} =>
          /\ out.outcome = "done" /\ out.code <= 1
          /\ Noise(linter, Printed(out)) \/ \A n \in DOMAIN Printed(out) : ~IsError(Printed(out)[n], path)
    /\ \A i \in DOMAIN result.diagnostics :
          out.outcome # "done" \/ \E n \in DOMAIN Printed(out) : AboutFile(Printed(out)[n], path)

NoneReported(linter, rule, result) == result = L!with_notice(linter, rule)

LEMMA NoticeParts ==
    ASSUME NEW linter, NEW rule, NEW result, result = L!with_notice(linter, rule)
    PROVE  /\ result.diagnostics \in Seq(Range(result.diagnostics)) /\ result.diagnostics # <<>>
           /\ \A i \in DOMAIN result.diagnostics : IsOf(result.diagnostics[i], linter) /\ result.diagnostics[i].rule = rule
<1> DEFINE d == L!Diagnostic(1, 1, "INFO", rule, linter)
<1>1. result.diagnostics = <<d>>
  BY DEF L!with_notice, L!Result
<1>2. IsOf(d, linter) /\ d.rule = rule
  BY DEF L!Diagnostic, IsOf
<1> HIDE DEF d
<1>3. DOMAIN result.diagnostics = {1} /\ result.diagnostics[1] = d
  BY <1>1
<1>4. result.diagnostics \in Seq(Range(result.diagnostics)) /\ result.diagnostics # <<>>
  BY <1>1 DEF Range
<1> QED
  BY <1>2, <1>3, <1>4

LEMMA FinishedTells ==
    ASSUME NEW linter, NEW out, IsOutput(linter, out), NEW path, NEW diags,
           diags \in Seq(Range(diags)), \A i \in DOMAIN diags : IsOf(diags[i], linter),
           \A i \in DOMAIN diags : \E n \in DOMAIN Printed(out) : AboutFile(Printed(out)[n], path),
           diags = <<>> => \/ Noise(linter, Printed(out))
                           \/ \A n \in DOMAIN Printed(out) : ~IsError(Printed(out)[n], path)
    PROVE  Tells(L!Finished(linter, out, diags), linter, out, path)
<1> DEFINE result == L!Finished(linter, out, diags)
<1>1. out.outcome \in {"done", "missing", "timeout", "failed"} /\ out.code \in Int
  BY Zenon DEF IsOutput
<1>2. CASE out.outcome \in {"missing", "timeout"}
  <2>1. result = L!with_notice(linter, "unavailable") \/ result = L!with_notice(linter, "timeout")
    BY <1>2 DEF L!Finished
  <2>2. PICK rule : result = L!with_notice(linter, rule)
    BY <2>1
  <2> HIDE DEF result
  <2>3. /\ result.diagnostics \in Seq(Range(result.diagnostics)) /\ result.diagnostics # <<>>
        /\ \A i \in DOMAIN result.diagnostics : IsOf(result.diagnostics[i], linter)
    BY <2>2, NoticeParts
  <2>4. out.outcome # "done"
    BY <1>2
  <2> QED
    BY <2>3, <2>4, Zenon DEF Tells, result
<1>3. CASE out.outcome = "failed"
  <2>1. result = L!Result(<<>>, <<>>, {"failed to execute"})
    BY <1>3 DEF L!Finished
  <2>2. result.diagnostics = <<>> /\ result.error # {}
    <3> DEFINE none == <<>>
               failed == {"failed to execute"}
    <3>1. result = L!Result(none, none, failed) /\ failed # {}
      BY <2>1
    <3> HIDE DEF result, none, failed
    <3>2. result.diagnostics = none /\ result.error = failed
      BY <3>1 DEF L!Result
    <3> QED
      BY <3>1, <3>2 DEF none
  <2>3. <<>> \in Seq(Range(<<>>)) /\ DOMAIN <<>> = {}
    OBVIOUS
  <2> HIDE DEF result
  <2> QED
    BY <2>2, <2>3, Zenon DEF Tells, result
<1>4. CASE out.outcome = "done"
  <2>1. result = L!Result(diags, <<linter>>, IF out.code > 1 THEN {"exited"} ELSE {})
    BY <1>4 DEF L!Finished
  <2>2. result.diagnostics = diags /\ (result.error = {} => out.code <= 1)
    BY <1>1, <2>1 DEF L!Result
  <2> HIDE DEF result
  <2> QED
    BY <1>4, <2>2, Zenon DEF Tells, result
<1> QED
  BY <1>1, <1>2, <1>3, <1>4

LEMMA ReportsTell ==
    ASSUME NEW linter, NEW out, IsOutput(linter, out), NEW path, NEW diags,
           Reports(diags, linter, Printed(out), path)
    PROVE  Tells(L!Finished(linter, out, diags), linter, out, path)
  BY FinishedTells, Zenon DEF Reports

LEMMA ClippyTells ==
    ASSUME NEW output, NEW path, IsOutput("clippy", output["clippy"])
    PROVE  Tells(L!run_clippy(output, path), "clippy", output["clippy"], path)
<1> DEFINE out == output["clippy"]
           diags == L!parse_clippy_output(Printed(out), path)
<1>1. AreMessages(Printed(out), "clippy") /\ Printed(out) = out.stdout
  BY PrintedMessages DEF Printed, L!combine_streams
<1>2. L!run_clippy(output, path) = L!Finished("clippy", out, diags)
  BY <1>1, FieldsAreOfRecords, Zenon DEF L!run_clippy
<1>3. Reports(diags, "clippy", Printed(out), path)
  BY <1>1, ClippyReports
<1> HIDE DEF out, diags
<1> QED
  BY <1>2, <1>3, ReportsTell DEF out, diags

LEMMA MypyTells ==
    ASSUME NEW output, NEW path, IsOutput("mypy", output["mypy"])
    PROVE  Tells(L!run_mypy(output, path), "mypy", output["mypy"], path)
<1> DEFINE out == output["mypy"]
           diags == L!parse_mypy_output(Printed(out), path)
<1>1. AreMessages(Printed(out), "mypy") /\ Printed(out) = out.stdout
  BY PrintedMessages DEF Printed, L!combine_streams
<1>2. L!run_mypy(output, path) = L!Finished("mypy", out, diags)
  BY <1>1, FieldsAreOfRecords, Zenon DEF L!run_mypy
<1>3. Reports(diags, "mypy", Printed(out), path)
  BY <1>1, MypyReports
<1> HIDE DEF out, diags
<1> QED
  BY <1>2, <1>3, ReportsTell DEF out, diags

LEMMA JavacTells ==
    ASSUME NEW output, NEW path, IsOutput("javac", output["javac"])
    PROVE  Tells(L!run_javac(output, path), "javac", output["javac"], path)
<1> DEFINE out == output["javac"]
           diags == L!parse_javac_output(Printed(out), path)
<1>1. AreMessages(Printed(out), "javac") /\ Printed(out) = L!combine_streams(out)
  BY PrintedMessages DEF Printed, L!combine_streams
<1>2. L!run_javac(output, path) = L!Finished("javac", out, diags)
  BY <1>1, FieldsAreOfRecords, Zenon DEF L!run_javac
<1>3. Reports(diags, "javac", Printed(out), path)
  BY <1>1, JavacReports
<1> HIDE DEF out, diags
<1> QED
  BY <1>2, <1>3, ReportsTell DEF out, diags

LEMMA KotlincTells ==
    ASSUME NEW output, NEW path, IsOutput("kotlinc", output["kotlinc"])
    PROVE  Tells(L!run_kotlinc(output, path), "kotlinc", output["kotlinc"], path)
<1> DEFINE out == output["kotlinc"]
           diags == L!parse_kotlinc_output(Printed(out), path)
<1>1. AreMessages(Printed(out), "kotlinc") /\ Printed(out) = L!combine_streams(out)
  BY PrintedMessages DEF Printed, L!combine_streams
<1>2. L!run_kotlinc(output, path) = L!Finished("kotlinc", out, diags)
  BY <1>1, FieldsAreOfRecords, Zenon DEF L!run_kotlinc
<1>3. Reports(diags, "kotlinc", Printed(out), path)
  BY <1>1, KotlincReports
<1> HIDE DEF out, diags
<1> QED
  BY <1>2, <1>3, ReportsTell DEF out, diags

LEMMA CppcheckTells ==
    ASSUME NEW output, NEW path, IsOutput("cppcheck", output["cppcheck"])
    PROVE  Tells(L!run_cppcheck(output, path), "cppcheck", output["cppcheck"], path)
<1> DEFINE out == output["cppcheck"]
           diags == L!parse_cppcheck_output(Printed(out), path)
<1>1. AreMessages(Printed(out), "cppcheck") /\ Printed(out) = L!combine_streams(out)
  BY PrintedMessages DEF Printed, L!combine_streams
<1>2. L!run_cppcheck(output, path) = L!Finished("cppcheck", out, diags)
  BY <1>1, FieldsAreOfRecords, Zenon DEF L!run_cppcheck
<1>3. Reports(diags, "cppcheck", Printed(out), path)
  BY <1>1, CppcheckReports
<1> HIDE DEF out, diags
<1> QED
  BY <1>2, <1>3, ReportsTell DEF out, diags

LEMMA EslintTells ==
    ASSUME NEW output, NEW path, IsOutput("eslint", output["eslint"])
    PROVE  Tells(L!run_eslint(output, path), "eslint", output["eslint"], path)
<1> DEFINE out == output["eslint"]
           diags == L!parse_eslint_output(Printed(out), path)
           noisy == \E n \in DOMAIN Printed(out) : Printed(out)[n].shape # "message"
<1>1. AreMessages(Printed(out), "eslint") /\ Printed(out) = out.stdout
  BY PrintedMessages
<1>2. L!run_eslint(output, path) = L!Finished("eslint", out, diags)
  BY <1>1, FieldsAreOfRecords, Zenon DEF L!run_eslint
<1>3. CASE ~noisy
  <2>1. Reports(diags, "eslint", Printed(out), path)
    BY <1>1, <1>3, EslintReports
  <2> HIDE DEF out, diags
  <2> QED
    BY <1>2, <2>1, ReportsTell DEF out, diags
<1>4. CASE noisy
  <2>1. diags = <<>>
    BY <1>4, Zenon DEF L!parse_eslint_output
  <2>2. Noise("eslint", Printed(out))
    BY <1>4, Zenon DEF Noise
  <2> HIDE DEF out, diags, noisy
  <2>3. diags \in Seq(Range(diags)) /\ DOMAIN diags = {}
    BY <2>1
  <2>4. IsOutput("eslint", out)
    BY DEF out
  <2> QED
    BY <1>2, <2>2, <2>3, <2>4, FinishedTells, Zenon DEF out
<1> QED
  BY <1>3, <1>4

LEMMA KtlintTells ==
    ASSUME NEW output, NEW path, IsOutput("ktlint", output["ktlint"]), IsOutput("kotlinc", output["kotlinc"]),
           NEW linter, linter = IF output.ktlint.outcome = "missing" THEN "kotlinc" ELSE "ktlint"
    PROVE  Tells(L!run_ktlint(output, path), linter, output[linter], path)
<1>1. CASE output.ktlint.outcome = "missing"
  <2>1. L!run_ktlint(output, path) = L!run_kotlinc(output, path) /\ linter = "kotlinc"
    BY <1>1, Zenon DEF L!run_ktlint
  <2> QED
    BY <2>1, KotlincTells, Zenon
<1>2. CASE output.ktlint.outcome # "missing"
  <2> DEFINE out == output["ktlint"]
             diags == L!parse_ktlint_output(Printed(out), path)
  <2>1. AreMessages(Printed(out), "ktlint") /\ Printed(out) = L!combine_streams(out)
    BY PrintedMessages DEF Printed, L!combine_streams
  <2>2. L!run_ktlint(output, path) = L!Finished("ktlint", out, diags) /\ linter = "ktlint"
    BY <1>2, <2>1, FieldsAreOfRecords, Zenon DEF L!run_ktlint
  <2>3. Reports(diags, "ktlint", Printed(out), path)
    BY <2>1, KtlintReports
  <2> HIDE DEF out, diags
  <2>4. Tells(L!Finished("ktlint", out, diags), "ktlint", out, path)
    BY <2>3, ReportsTell DEF out
  <2> QED
    BY <2>2, <2>4, Zenon DEF out
<1> QED
  BY <1>1, <1>2

\* There is no project to build.
NoProject(result) == result = L!with_notice("dotnet", "project-missing")

LEMMA DotnetTells ==
    ASSUME NEW output, NEW path, NEW dirs, IsOutput("dotnet", output["dotnet"])
    PROVE  LET result == L!run_dotnet_build(output, path, dirs)
           IN NoProject(result) \/ Tells(result, "dotnet", output["dotnet"], path)
<1> DEFINE out == output["dotnet"]
           diags == L!parse_dotnet_output(Printed(out), path)
           result == L!run_dotnet_build(output, path, dirs)
<1>1. AreMessages(Printed(out), "dotnet") /\ Printed(out) = L!combine_streams(out)
  BY PrintedMessages DEF Printed, L!combine_streams
<1>2. NoProject(result) \/ result = L!Finished("dotnet", out, diags)
  BY <1>1, FieldsAreOfRecords, Zenon DEF L!run_dotnet_build, NoProject
<1>3. Reports(diags, "dotnet", Printed(out), path)
  BY <1>1, DotnetReports
<1> HIDE DEF out, diags, result
<1>4. Tells(L!Finished("dotnet", out, diags), "dotnet", out, path)
  BY <1>3, ReportsTell DEF out
<1> QED
  BY <1>2, <1>4, Zenon DEF out, result

\* The linter that answers for a language.
Answers(language, output) ==
    IF language = "kotlin" /\ output.ktlint.outcome = "missing" THEN "kotlinc" ELSE LinterOf(language)

LEMMA ExternalTells ==
    ASSUME NEW output, \A linter \in LinterNames : IsOutput(linter, output[linter]), NEW path, NEW language, NEW dirs,
           LinterOf(language) # "none"
    PROVE  LET result == L!run_external(output, path, language, dirs)
               linter == Answers(language, output)
           IN \/ linter = "dotnet" /\ NoProject(result)
              \/ linter \in LinterNames /\ Tells(result, linter, output[linter], path)
<1> DEFINE result == L!run_external(output, path, language, dirs)
           linter == Answers(language, output)
<1>0. /\ IsOutput("clippy", output["clippy"]) /\ IsOutput("eslint", output["eslint"])
      /\ IsOutput("mypy", output["mypy"]) /\ IsOutput("javac", output["javac"])
      /\ IsOutput("ktlint", output["ktlint"]) /\ IsOutput("kotlinc", output["kotlinc"])
      /\ IsOutput("cppcheck", output["cppcheck"]) /\ IsOutput("dotnet", output["dotnet"])
  BY Zenon DEF LinterNames
<1>1. CASE language = "rust"
  <2>1. result = L!run_clippy(output, path) /\ linter = "clippy"
    BY <1>1 DEF L!run_external, Answers, LinterOf
  <2> HIDE DEF result, linter
  <2> QED
    BY <1>0, <2>1, ClippyTells, Zenon DEF result, linter, LinterNames
<1>2. CASE language \in {"javascript", "typescript", "tsx"}
  <2>1. result = L!run_eslint(output, path) /\ linter = "eslint"
    BY <1>2 DEF L!run_external, Answers, LinterOf
  <2> HIDE DEF result, linter
  <2> QED
    BY <1>0, <2>1, EslintTells, Zenon DEF result, linter, LinterNames
<1>3. CASE language = "python"
  <2>1. result = L!run_mypy(output, path) /\ linter = "mypy"
    BY <1>3 DEF L!run_external, Answers, LinterOf
  <2> HIDE DEF result, linter
  <2> QED
    BY <1>0, <2>1, MypyTells, Zenon DEF result, linter, LinterNames
<1>4. CASE language = "java"
  <2>1. result = L!run_javac(output, path) /\ linter = "javac"
    BY <1>4 DEF L!run_external, Answers, LinterOf
  <2> HIDE DEF result, linter
  <2> QED
    BY <1>0, <2>1, JavacTells, Zenon DEF result, linter, LinterNames
<1>5. CASE language = "kotlin"
  <2>1. result = L!run_ktlint(output, path) /\ linter = IF output.ktlint.outcome = "missing" THEN "kotlinc" ELSE "ktlint"
    BY <1>5 DEF L!run_external, Answers, LinterOf
  <2> HIDE DEF result, linter
  <2>2. Tells(result, linter, output[linter], path)
    BY <1>0, <2>1, KtlintTells
  <2>3. linter = "kotlinc" \/ linter = "ktlint"
    BY <2>1, Zenon
  <2> QED
    BY <2>2, <2>3, Zenon DEF result, linter, LinterNames
<1>6. CASE language = "c"
  <2>1. result = L!run_cppcheck(output, path) /\ linter = "cppcheck"
    BY <1>6 DEF L!run_external, Answers, LinterOf
  <2> HIDE DEF result, linter
  <2> QED
    BY <1>0, <2>1, CppcheckTells, Zenon DEF result, linter, LinterNames
<1>7. CASE language = "csharp"
  <2>1. result = L!run_dotnet_build(output, path, dirs) /\ linter = "dotnet"
    BY <1>7 DEF L!run_external, Answers, LinterOf
  <2> HIDE DEF result, linter
  <2> QED
    BY <1>0, <2>1, DotnetTells, Zenon DEF result, linter, LinterNames
<1>8. \/ language = "rust" \/ language \in {"javascript", "typescript", "tsx"} \/ language = "python"
      \/ language = "java" \/ language = "kotlin" \/ language = "c" \/ language = "csharp"
  BY DEF LinterOf
<1> QED
  BY <1>1, <1>2, <1>3, <1>4, <1>5, <1>6, <1>7, <1>8

LEMMA NoExternal ==
    ASSUME NEW output, NEW path, NEW language, NEW dirs, LinterOf(language) = "none"
    PROVE  L!run_external(output, path, language, dirs) = L!Result(<<>>, <<>>, {})
  BY DEF LinterOf, L!run_external

(***************************************************************************)
(* The answer.                                                             *)
(***************************************************************************)
LEMMA SourceNames == Range(L!Sources) = LinterNames \cup {"tree-sitter"} /\ "tree-sitter" \notin LinterNames
  BY DEF L!Sources, LinterNames, Range

LEMMA CodeIsInLine ==
    ASSUME NEW S, NEW line \in Seq(S), NEW language, NEW rule
    PROVE  CodeAt(line, language, rule) \subseteq 1 .. Len(line)
<1>1. Scans(L!Readings(line, language), line, language)
  BY ScansLine
<1>2. Len(line) \in 0 .. Len(line) /\ DOMAIN line = 1 .. Len(line)
  OBVIOUS
<1>3. L!Readings(line, language)[Len(line)] \in States(line)
  BY <1>1, <1>2 DEF Scans
<1>4. L!Readings(line, language)[Len(line)].seen \in SUBSET DOMAIN line
  BY <1>3 DEF States
<1> QED
  BY <1>2, <1>4 DEF CodeAt, L!sanitized_line_for_matching

LEMMA CheckedAreDiagnostics ==
    ASSUME NEW S, NEW source \in Seq(Seq(S)), NEW language, NEW d,
           Holds(L!run_tree_sitter_checks(source, language), d)
    PROVE  IsDiagnostic(d) /\ d.source = "tree-sitter"
<1>1. IsChecked(L!run_tree_sitter_checks(source, language), source, language)
  BY LinesChecked
<1>2. PICK n \in DOMAIN source :
          \/ d = Marker(n)
          \/ \E rule \in RulesOf(language) :
                CodeAt(source[n], language, rule) # {} /\ d = FoundAt(source, n, language, rule)
  BY <1>1, Zenon DEF IsChecked
<1>3. n \in Nat /\ source[n] \in Seq(S)
  OBVIOUS
<1>4. "tree-sitter" \in Range(L!Sources)
  BY SourceNames
<1>5. CASE d = Marker(n)
  <2>1. d.line = n /\ d.column = 1 /\ d.source = "tree-sitter"
    BY <1>5 DEF Marker, L!Diagnostic
  <2> QED
    BY <1>3, <1>4, <2>1 DEF IsDiagnostic
<1>6. ASSUME NEW rule \in RulesOf(language), CodeAt(source[n], language, rule) # {}, d = FoundAt(source, n, language, rule)
      PROVE  IsDiagnostic(d) /\ d.source = "tree-sitter"
  <2> DEFINE columns == CodeAt(source[n], language, rule)
  <2>1. d.line = n /\ d.column = First(columns) /\ d.source = "tree-sitter"
    BY <1>6 DEF FoundAt, L!Diagnostic
  <2>2. columns \subseteq Nat /\ columns # {}
    <3>1. columns \subseteq 1 .. Len(source[n])
      BY <1>3, CodeIsInLine
    <3> QED
      BY <1>6, <3>1
  <2> HIDE DEF columns
  <2>3. First(columns) \in Nat
    BY <2>2, FirstOf
  <2> QED
    BY <1>3, <1>4, <2>1, <2>3 DEF IsDiagnostic
<1> QED
  BY <1>2, <1>5, <1>6, Zenon

\* The diagnostics of an answer are those of level 1 and those of the linter.
IsMerged(all, checks, external) ==
    /\ all \in Seq(Range(checks) \cup Range(external))
    /\ \A d : Holds(all, d) <=> Holds(checks, d) \/ Holds(external, d)

LEMMA DiagnosticsMerge ==
    ASSUME NEW checks, checks \in Seq(Range(checks)), NEW external, external \in Seq(Range(external)),
           \A i \in DOMAIN checks : IsDiagnostic(checks[i]), \A i \in DOMAIN external : IsDiagnostic(external[i])
    PROVE  IsMerged(L!InOrder(checks \o external), checks, external)
<1> DEFINE S == Range(checks) \cup Range(external)
           both == checks \o external
           all == L!InOrder(both)
<1>1. checks \in Seq(S) /\ external \in Seq(S) /\ both \in Seq(S)
  OBVIOUS
<1> HIDE DEF S
<1>2. Both(both, checks, external)
  BY <1>1, ConcatGathers
<1> HIDE DEF both
<1>3. \A i \in DOMAIN both : IsDiagnostic(both[i])
  BY <1>2, Zenon DEF Both
<1>4. Permuted(all, both, S)
  BY <1>1, <1>3, InOrderPermutes
<1> HIDE DEF all
<1>5. \A d : Holds(all, d) <=> Holds(both, d)
  BY <1>4, Zenon DEF Permuted, Holds
<1>6. \A d : Holds(both, d) <=> Holds(checks, d) \/ Holds(external, d)
  BY <1>2, Zenon DEF Both, Holds
<1>7. all \in Seq(S)
  BY <1>4 DEF Permuted
<1> QED
  BY <1>5, <1>6, <1>7, Zenon DEF IsMerged, S, all, both

\* The external part of an answer.
External(r) ==
    IF r.enabled THEN L!run_external(r.output, r.file.path, r.file.language, r.file.projectDirs)
    ELSE L!Result(<<>>, <<>>, {})

\* The diagnostics of this result, and where they come from.
IsExternal(result) ==
    /\ result.diagnostics \in Seq(Range(result.diagnostics))
    /\ \A i \in DOMAIN result.diagnostics : \E linter \in LinterNames : IsOf(result.diagnostics[i], linter)

LEMMA EmptyResult ==
    ASSUME NEW result, result = L!Result(<<>>, <<>>, {})
    PROVE  result.diagnostics = <<>> /\ IsExternal(result)
<1> DEFINE none == <<>>
<1>1. result = L!Result(none, none, {})
  OBVIOUS
<1> HIDE DEF none
<1>2. result.diagnostics = none
  BY <1>1 DEF L!Result
<1>3. none \in Seq(Range(none)) /\ DOMAIN none = {}
  BY DEF none
<1> QED
  BY <1>2, <1>3, Zenon DEF IsExternal, none

LEMMA ExternalParts == ASSUME NEW r, LintRequestOK(r) PROVE IsExternal(External(r))
<1> DEFINE result == External(r)
           language == r.file.language
<1>1. \A linter \in LinterNames : IsOutput(linter, r.output[linter])
  BY Zenon DEF LintRequestOK
<1>2. CASE r.enabled /\ LinterOf(language) # "none"
  <2> DEFINE linter == Answers(language, r.output)
  <2>1. result = L!run_external(r.output, r.file.path, language, r.file.projectDirs)
    BY <1>2 DEF External
  <2>2. \/ linter = "dotnet" /\ NoProject(result)
        \/ linter \in LinterNames /\ Tells(result, linter, r.output[linter], r.file.path)
    BY <1>1, <1>2, <2>1, ExternalTells
  <2>3. "dotnet" \in LinterNames
    BY DEF LinterNames
  <2> HIDE DEF result, linter, language
  <2>4. CASE linter = "dotnet" /\ NoProject(result)
    <3>1. /\ result.diagnostics \in Seq(Range(result.diagnostics))
          /\ \A i \in DOMAIN result.diagnostics : IsOf(result.diagnostics[i], "dotnet")
      BY <2>4, NoticeParts DEF NoProject
    <3> QED
      BY <2>3, <3>1, Zenon DEF IsExternal, result
  <2>5. CASE linter \in LinterNames /\ Tells(result, linter, r.output[linter], r.file.path)
    BY <2>5, Zenon DEF Tells, IsExternal, result
  <2> QED
    BY <2>2, <2>4, <2>5
<1>3. CASE ~r.enabled \/ LinterOf(language) = "none"
  <2>1. result = L!Result(<<>>, <<>>, {})
    BY <1>3, NoExternal, Zenon DEF External
  <2> HIDE DEF result
  <2> QED
    BY <2>1, EmptyResult DEF result
<1> QED
  BY <1>2, <1>3, Zenon

\* The answer to a request for a file.
IsAnswer(ans, r) ==
    /\ ans.error = External(r).error
    /\ IsMerged(ans.diagnostics, L!run_tree_sitter_checks(r.file.source, r.file.language), External(r).diagnostics)

LEMMA BuildResultParts ==
    ASSUME NEW r, LintRequestOK(r)
    PROVE  IsAnswer(L!build_result(r.file, r.enabled, r.output), r)
<1> DEFINE ans == L!build_result(r.file, r.enabled, r.output)
           checks == L!run_tree_sitter_checks(r.file.source, r.file.language)
           result == External(r)
<1>1. ans = L!Result(L!InOrder(checks \o result.diagnostics), <<"tree-sitter">> \o result.sources, result.error)
  BY Zenon DEF L!build_result, External
<1>2. r.file.source \in Seq(Seq(STRING))
  BY Zenon DEF LintRequestOK
<1>3. IsExternal(result)
  BY ExternalParts
<1>4. checks \in Seq(Range(checks))
  <2>1. \A source, language : IsChecked(checks, source, language) => checks \in Seq(Range(checks))
    <3> HIDE DEF checks
    <3> SUFFICES ASSUME NEW T, checks \in Seq(T) PROVE checks \in Seq(Range(checks))
      BY DEF IsChecked
    <3> QED
      BY DEF Range
  <2> QED
    BY <1>2, <2>1, LinesChecked
<1>5. \A i \in DOMAIN checks : IsDiagnostic(checks[i])
  BY <1>2, CheckedAreDiagnostics DEF Holds
<1> HIDE DEF ans, checks, result
<1>6. \A i \in DOMAIN result.diagnostics : IsDiagnostic(result.diagnostics[i])
  BY <1>3, SourceNames DEF IsExternal, IsOf, IsDiagnostic
<1>7. IsMerged(L!InOrder(checks \o result.diagnostics), checks, result.diagnostics)
  BY <1>3, <1>4, <1>5, <1>6, DiagnosticsMerge DEF IsExternal
<1>8. ans.diagnostics = L!InOrder(checks \o result.diagnostics) /\ ans.error = result.error
  BY <1>1 DEF L!Result
<1> QED
  BY <1>7, <1>8 DEF IsAnswer, ans, checks, result

(***************************************************************************)
(* A call of a tool that keeps nothing.                                    *)
(***************************************************************************)
\* The request is one of the tool's, and the answer is one to it.
CallInv ==
    tool \notin {"generate_project_docs", "file tools"} =>
        /\ heard = <<>>
        /\ request # <<>> => request = <<Req>> /\ tool \in DOMAIN Requests /\ Req \in Requests[tool]
        /\ answer # <<>> => request # <<>> /\ answer = <<Ans>> /\ Ans \in Respond(Req)

LEMMA CallInit == Init => CallInv
  BY DEF Init, CallInv

LEMMA CallNext ==
    ASSUME CallInv, [Next]_vars
    PROVE  CallInv'
<1>1. CASE UNCHANGED <<tool, call, index>>
  BY <1>1 DEF CallInv, call, Req, Ans, Respond
<1> SUFFICES ASSUME tool \notin {"generate_project_docs", "file tools"}, tool' = tool PROVE CallInv'
  BY DEF CallInv, Next, vars, Ask, Answer, Return, NextPage, InspectListed, RefreshIndex, ChangeSettings, BeginPass, LoadOverrides, ApplyRules, GiveResult, ObserveTree, Restart
<1>2. CASE Ask
  <2>1. PICK r \in Requests[tool] : request' = <<r>>
    BY <1>2 DEF Ask
  <2>2. request'[1] = r
    BY <2>1
  <2>3. UNCHANGED <<tool, answer, heard, index>> /\ request = <<>> /\ tool \in DOMAIN Requests
    BY <1>2 DEF Ask
  <2> QED
    BY <2>1, <2>2, <2>3 DEF CallInv, Req
<1>3. CASE Answer
  <2>1. UNCHANGED <<tool, request, heard, index>> /\ request # <<>>
    BY <1>3 DEF Answer
  <2>2. PICK a \in Respond(Req) : answer' = <<a>>
    BY <1>3 DEF Answer, Req
  <2>3. answer'[1] = a
    BY <2>2
  <2>4. Req' = Req /\ Ans' = a
    BY <2>1, <2>3 DEF Req, Ans
  <2>5. Respond(Req)' = Respond(Req)
    BY <2>1, <2>4 DEF Respond
  <2> QED
    BY <2>1, <2>2, <2>4, <2>5, Zenon DEF CallInv
<1>4. CASE Return
  BY <1>4 DEF Return, CallInv
<1>5. CASE NextPage \/ InspectListed \/ RefreshIndex \/ ChangeSettings \/ ObserveTree \/ Restart \/ UNCHANGED vars
  <2>1. CASE UNCHANGED vars
    BY <1>1, <2>1 DEF vars
  <2>2. ~NextPage /\ ~InspectListed /\ ~RefreshIndex
    BY DEF NextPage, InspectListed, RefreshIndex
  <2>3. CASE ChangeSettings \/ ObserveTree \/ Restart
    BY <1>1, <2>3 DEF ChangeSettings, ObserveTree, Restart
  <2> QED
    BY <1>5, <2>1, <2>2, <2>3
<1>6. CASE \E c \in Callers : BeginPass(c) \/ LoadOverrides(c) \/ ApplyRules(c) \/ GiveResult(c)
  <2>1. UNCHANGED <<tool, call, index>>
    BY <1>6, Zenon DEF BeginPass, LoadOverrides, ApplyRules, GiveResult
  <2> QED
    BY <1>1, <2>1
<1> QED
  BY <1>2, <1>3, <1>4, <1>5, <1>6 DEF Next

\* The request and the answer of a lint_file call.
LEMMA LintAnswered ==
    ASSUME CallInv, Answered("lint_file")
    PROVE  LintRequestOK(Req) /\ IsAnswer(Ans, Req)
<1>1. tool = "lint_file" /\ answer # <<>>
  BY DEF Answered
<1>2. tool \in DOMAIN Requests /\ Req \in Requests[tool] /\ Ans \in Respond(Req)
  BY <1>1 DEF CallInv
<1>3. LintRequestOK(Req)
  BY <1>1, <1>2, LintAssumption
<1>4. Ans = L!build_result(Req.file, Req.enabled, Req.output)
  BY <1>1, <1>2 DEF Respond
<1> QED
  BY <1>3, <1>4, BuildResultParts

\* What is reported of a rule.
Found(ans) == {<<d.line, d.rule, d.column>> : d \in {d \in Range(ans.diagnostics) :
                                                        d.source = "tree-sitter" /\ d.severity = "WARN"}}

LEMMA FoundParts ==
    \A source, n, language, rule :
        LET d == FoundAt(source, n, language, rule)
        IN /\ d.line = n /\ d.rule = rule /\ d.column = First(CodeAt(source[n], language, rule))
           /\ d.source = "tree-sitter" /\ d.severity = "WARN" /\ Marker(n).severity # "WARN"
  BY DEF FoundAt, Marker, L!Diagnostic

\* A rule that looks for something has a language whose code is known.
LEMMA RulesHaveCode ==
    \A language : \/ language = "python" \/ language \in SlashLanguages
                  \/ RulesOf(language) = {}
<1> SUFFICES ASSUME NEW language, language # "python", language \notin SlashLanguages PROVE RulesOf(language) = {}
  OBVIOUS
<1>1. L!language_rules(language) = <<>>
  BY DEF L!language_rules, SlashLanguages
<1> QED
  BY <1>1 DEF RulesOf, Range

\* The rules of level 1 read code only.
LEMMA AnswerReadsCode ==
    ASSUME NEW r, LintRequestOK(r), NEW ans, IsAnswer(ans, r)
    PROVE  \A x : x \in Found(ans) <=>
              \E n \in DOMAIN r.file.source : \E rule \in RulesOf(r.file.language) :
                 LET columns == CodeAt(r.file.source[n], r.file.language, rule)
                 IN columns # {} /\ x = <<n, rule, First(columns)>>
<1> DEFINE source == r.file.source
           language == r.file.language
           checks == L!run_tree_sitter_checks(source, language)
           external == External(r).diagnostics
           CodeOf(n, rule) == CodeAt(source[n], language, rule)
           Of(n, rule) == FoundAt(source, n, language, rule)
<1>1. source \in Seq(Seq(STRING)) /\ IsExternal(External(r))
  BY ExternalParts, Zenon DEF LintRequestOK
<1>2. \A d : Holds(ans.diagnostics, d) <=> Holds(checks, d) \/ Holds(external, d)
  BY Zenon DEF IsAnswer, IsMerged
<1>3. \A d : Holds(external, d) => d.source # "tree-sitter"
  BY <1>1, SourceNames DEF Holds, IsExternal, IsOf
<1> HIDE DEF source, language
<1>4. IsChecked(checks, source, language)
  BY <1>1, LinesChecked
<1> HIDE DEF checks, external
<1>5. \A n, rule : /\ Of(n, rule).line = n /\ Of(n, rule).rule = rule /\ Of(n, rule).column = First(CodeOf(n, rule))
                   /\ Of(n, rule).source = "tree-sitter" /\ Of(n, rule).severity = "WARN" /\ Marker(n).severity # "WARN"
  BY FoundParts
<1>6. ASSUME NEW n \in DOMAIN source, NEW rule \in RulesOf(language), CodeOf(n, rule) # {}
      PROVE  Holds(ans.diagnostics, Of(n, rule))
  BY <1>2, <1>4, <1>6, Zenon DEF IsChecked
<1>7. ASSUME NEW d, Holds(ans.diagnostics, d), d.source = "tree-sitter", d.severity = "WARN"
      PROVE  \E n \in DOMAIN source : \E rule \in RulesOf(language) : CodeOf(n, rule) # {} /\ d = Of(n, rule)
  <2>1. Holds(checks, d)
    BY <1>2, <1>3, <1>7, Zenon
  <2>2. PICK n \in DOMAIN source : \/ d = Marker(n)
                                   \/ \E rule \in RulesOf(language) : CodeOf(n, rule) # {} /\ d = Of(n, rule)
    BY <1>4, <2>1, Zenon DEF IsChecked
  <2>3. d # Marker(n)
    BY <1>5, <1>7, Zenon
  <2> QED
    BY <2>2, <2>3, Zenon
<1> HIDE DEF CodeOf, Of
<1>8. \A x : x \in Found(ans) <=> \E d : /\ Holds(ans.diagnostics, d) /\ d.source = "tree-sitter" /\ d.severity = "WARN"
                                         /\ x = <<d.line, d.rule, d.column>>
  BY Zenon DEF Found, Holds, Range
<1>9. ASSUME NEW x, x \in Found(ans)
      PROVE  \E n \in DOMAIN source : \E rule \in RulesOf(language) :
                CodeOf(n, rule) # {} /\ x = <<n, rule, First(CodeOf(n, rule))>>
  <2>1. PICK d : /\ Holds(ans.diagnostics, d) /\ d.source = "tree-sitter" /\ d.severity = "WARN"
                 /\ x = <<d.line, d.rule, d.column>>
    BY <1>8, <1>9, Zenon
  <2>2. PICK n \in DOMAIN source, rule \in RulesOf(language) : CodeOf(n, rule) # {} /\ d = Of(n, rule)
    BY <1>7, <2>1, Zenon
  <2>3. d.line = n /\ d.rule = rule /\ d.column = First(CodeOf(n, rule))
    BY <1>5, <2>2, Zenon
  <2>4. x = <<n, rule, First(CodeOf(n, rule))>>
    BY <2>1, <2>3, Zenon
  <2> QED
    BY <2>2, <2>4, Zenon
<1>10. ASSUME NEW x, NEW n \in DOMAIN source, NEW rule \in RulesOf(language), CodeOf(n, rule) # {},
              x = <<n, rule, First(CodeOf(n, rule))>>
       PROVE  x \in Found(ans)
  <2> DEFINE d == Of(n, rule)
  <2>1. Holds(ans.diagnostics, d) /\ d.source = "tree-sitter" /\ d.severity = "WARN"
    BY <1>5, <1>6, <1>10, Zenon
  <2>2. d.line = n /\ d.rule = rule /\ d.column = First(CodeOf(n, rule))
    BY <1>5, Zenon
  <2> HIDE DEF d
  <2>3. x = <<d.line, d.rule, d.column>>
    BY <1>10, <2>2, Zenon
  <2> QED
    BY <1>8, <2>1, <2>3, Zenon
<1> QED
  BY <1>9, <1>10, Zenon DEF source, language, CodeOf

\* The rules of level 1 read code only (sanitized_line_for_matching, level1.rs): for any
\* source in any language a rule is reported once for a line, at its first column that is
\* neither in a literal nor in a comment, and for every line that has one.
THEOREM RulesRead == Spec => []RulesReadCode
<1>1. CallInv => RulesReadCode
  <2> SUFFICES ASSUME CallInv, Answered("lint_file") PROVE RulesReadCode
    BY DEF RulesReadCode
  <2> DEFINE source == Req.file.source
             language == Req.file.language
             Code(n, rule) == {i \in CodeColumns(source[n], language) : source[n][i] = rule}
             told == UNION {{<<n, rule, CHOOSE i \in Code(n, rule) : \A j \in Code(n, rule) : i <= j>> :
                               rule \in {r \in Range(L!language_rules(language)) : Code(n, r) # {}}} : n \in DOMAIN source}
  <2>1. LintRequestOK(Req) /\ IsAnswer(Ans, Req)
    BY LintAnswered
  <2>2. source \in Seq(Seq(STRING))
    BY <2>1, Zenon DEF LintRequestOK
  <2>3. \A x : x \in Found(Ans) <=>
            \E n \in DOMAIN source : \E rule \in RulesOf(language) :
               CodeAt(source[n], language, rule) # {} /\ x = <<n, rule, First(CodeAt(source[n], language, rule))>>
    BY <2>1, AnswerReadsCode
  <2>4. RulesReadCode <=> Found(Ans) = told
    BY Zenon DEF RulesReadCode, Found, Answered
  <2>5. \A x : x \in told <=> \E n \in DOMAIN source : \E rule \in RulesOf(language) :
                                 Code(n, rule) # {} /\ x = <<n, rule, First(Code(n, rule))>>
    <3> DEFINE One(n, rule) == <<n, rule, First(Code(n, rule))>>
               Some(n) == {rule \in RulesOf(language) : Code(n, rule) # {}}
    <3>1. told = UNION {{One(n, rule) : rule \in Some(n)} : n \in DOMAIN source}
      BY Zenon DEF First, RulesOf
    <3>2. \A n, rule : rule \in Some(n) <=> rule \in RulesOf(language) /\ Code(n, rule) # {}
      BY Zenon
    <3> HIDE DEF One, Some, told, Code
    <3>3. \A x : x \in told <=> \E n \in DOMAIN source : \E rule \in Some(n) : x = One(n, rule)
      <4> SUFFICES ASSUME NEW x PROVE x \in told <=> \E n \in DOMAIN source : \E rule \in Some(n) : x = One(n, rule)
        OBVIOUS
      <4>1. x \in told <=> \E S \in {{One(n, rule) : rule \in Some(n)} : n \in DOMAIN source} : x \in S
        BY <3>1, Zenon
      <4>2. x \in told <=> \E n \in DOMAIN source : x \in {One(n, rule) : rule \in Some(n)}
        BY <4>1, Zenon
      <4> QED
        BY <4>2, Zenon
    <3>4. \A x : x \in told <=> \E n \in DOMAIN source : \E rule \in RulesOf(language) : Code(n, rule) # {} /\ x = One(n, rule)
      BY <3>2, <3>3, Zenon
    <3> QED
      BY <3>4, Zenon DEF One
  <2> HIDE DEF source, language, told
  <2>6. ASSUME NEW n \in DOMAIN source, NEW rule \in RulesOf(language)
        PROVE  Code(n, rule) = CodeAt(source[n], language, rule)
    <3>1. source[n] \in Seq(STRING)
      BY <2>2
    <3>2. L!sanitized_line_for_matching(source[n], language) = CodeColumns(source[n], language)
      BY <3>1, RulesHaveCode, CodeIsRead
    <3> QED
      BY <3>2, Zenon DEF CodeAt
  <2> HIDE DEF Code
  <2>7. \A x : x \in Found(Ans) <=> x \in told
    <3> DEFINE Is(x, n, rule, columns) == columns # {} /\ x = <<n, rule, First(columns)>>
    <3>1. \A x : x \in Found(Ans) <=>
              \E n \in DOMAIN source : \E rule \in RulesOf(language) : Is(x, n, rule, CodeAt(source[n], language, rule))
      BY <2>3, Zenon
    <3>2. \A x : x \in told <=> \E n \in DOMAIN source : \E rule \in RulesOf(language) : Is(x, n, rule, Code(n, rule))
      BY <2>5, Zenon
    <3> HIDE DEF Is
    <3>3. \A x : \A n \in DOMAIN source : \A rule \in RulesOf(language) :
             Is(x, n, rule, Code(n, rule)) <=> Is(x, n, rule, CodeAt(source[n], language, rule))
      BY <2>6
    <3> QED
      BY <3>1, <3>2, <3>3, Zenon
  <2>8. Found(Ans) = told
    BY <2>7
  <2> QED
    BY <2>4, <2>8
<1> QED
  BY CallInit, CallNext, <1>1, PTL DEF Spec

\* The diagnostics of an excerpt, and the number of the others.
LEMMA ExcerptCounts ==
    ASSUME NEW ans, NEW S, ans.diagnostics \in Seq(S), NEW e \in Range(L!render_lint_summary_scoped(ans, 2, 3, 1))
    PROVE  Len(e.shown) + e.more = Count(ans.diagnostics, LAMBDA d : d.line >= 2 /\ d.line <= 3)
<1> DEFINE scoped == At(ans.diagnostics, {i \in DOMAIN ans.diagnostics :
                                              ans.diagnostics[i].line >= 2 /\ ans.diagnostics[i].line <= 3})[Len(ans.diagnostics)]
           shown == IF Len(scoped) > 1 THEN 1 ELSE Len(scoped)
           Sum(x) == [shown |-> SubSeq(scoped, 1, shown), more |-> Len(scoped) - shown,
                      sources |-> {scoped[i].source : i \in DOMAIN scoped}]
<1>1. Count(ans.diagnostics, LAMBDA d : d.line >= 2 /\ d.line <= 3) = Len(scoped)
  BY Zenon DEF Count, Where
<1>2. scoped \in Seq(S)
  BY AtPlaces
<1>3. L!render_lint_summary_scoped(ans, 2, 3, 1) = IF scoped = <<>> \/ 1 = 0 THEN <<>> ELSE <<Sum(1)>>
  BY SameAt, Zenon DEF L!render_lint_summary_scoped, L!Where
<1>4. Len(scoped) \in Nat /\ shown \in Nat /\ shown <= Len(scoped)
  <2>1. Len(scoped) \in Nat
    BY <1>2
  <2> HIDE DEF scoped
  <2> QED
    BY <2>1
<1> HIDE DEF scoped, shown
<1>5. e = Sum(1)
  <2> HIDE DEF Sum
  <2>1. \A d : \A x \in Range(<<d>>) : x = d
    BY DEF Range
  <2>2. Range(<<>>) = {}
    BY DEF Range
  <2> QED
    BY <1>3, <2>1, <2>2, Zenon
<1>6. e.shown = SubSeq(scoped, 1, shown) /\ e.more = Len(scoped) - shown
  BY <1>5
<1>7. Len(SubSeq(scoped, 1, shown)) = shown
  BY <1>2, <1>4
<1> QED
  BY <1>1, <1>4, <1>6, <1>7

\* No silent pass (run_clippy and the other linters of level2.rs): for whatever a linter
\* prints, an answer with neither an error nor a notice nor a diagnostic of it means that it
\* ended with code 0 or 1, or by a signal, which the code takes for an end, and printed no
\* error about the file, or was an eslint that printed more than its messages, which the
\* code then ignores; every diagnostic is of a message about the file; and what an excerpt
\* leaves out is counted.
THEOREM LintersAnswer == Spec => []LintAnswersComplete
<1>1. CallInv => LintAnswersComplete
  <2> SUFFICES ASSUME CallInv, Answered("lint_file"), Req.enabled, LinterOf(Req.file.language) # "none"
               PROVE  LintAnswersComplete
    BY Zenon DEF LintAnswersComplete
  <2> DEFINE file == Req.file
             linter == Answers(file.language, Req.output)
             output == Req.output[linter]
             printed == Printed(output)
             result == External(Req)
             given == {d \in Range(Ans.diagnostics) : d.source # "tree-sitter"}
             noise == linter = "eslint" /\ \E m \in Range(output.stdout) : m.shape # "message"
             checks == L!run_tree_sitter_checks(file.source, file.language)
  <2>1. LintRequestOK(Req) /\ IsAnswer(Ans, Req)
    BY LintAnswered
  <2>2. /\ file.source \in Seq(Seq(STRING))
        /\ \A l \in LinterNames : IsOutput(l, Req.output[l])
    BY <2>1, Zenon DEF LintRequestOK
  <2>3. \/ linter = "dotnet" /\ NoProject(result)
        \/ linter \in LinterNames /\ Tells(result, linter, output, file.path)
    <3>1. result = L!run_external(Req.output, file.path, file.language, file.projectDirs)
      BY Zenon DEF External
    <3> HIDE DEF result
    <3> QED
      BY <2>2, <3>1, ExternalTells
  <2>4. \A d : Holds(Ans.diagnostics, d) <=> Holds(checks, d) \/ Holds(result.diagnostics, d)
    BY <2>1, Zenon DEF IsAnswer, IsMerged
  <2>5. \A d : Holds(checks, d) => d.source = "tree-sitter"
    BY <2>2, CheckedAreDiagnostics
  <2>6. \A d : Holds(result.diagnostics, d) => d.source # "tree-sitter"
    BY <2>1, ExternalParts, SourceNames DEF Holds, IsExternal, IsOf
  <2>7. \A d : d \in given <=> Holds(result.diagnostics, d)
    <3>1. \A d : d \in given <=> Holds(Ans.diagnostics, d) /\ d.source # "tree-sitter"
      BY Zenon DEF Holds, Range
    <3> QED
      BY <2>4, <2>5, <2>6, <3>1, Zenon
  <2>8. \A e \in Range(L!render_lint_summary_scoped(Ans, 2, 3, 1)) :
           Len(e.shown) + e.more = Count(Ans.diagnostics, LAMBDA d : d.line >= 2 /\ d.line <= 3)
    BY <2>1, ExcerptCounts DEF IsAnswer, IsMerged
  <2>9. Ans.error = result.error
    BY <2>1, Zenon DEF IsAnswer
  <2>10. \A m : m \in Range(output.stdout \o output.stderr) <=> \E n \in DOMAIN printed : printed[n] = m
    BY Zenon DEF Range, Printed
  <2> HIDE DEF printed, result, given, noise, checks
  <2>11. result.diagnostics = <<>> \/ \E d : d \in given
    <3>1. IsExternal(result)
      BY <2>1, ExternalParts DEF result
    <3>2. result.diagnostics = <<>> \/ \E i \in DOMAIN result.diagnostics : TRUE
      BY <3>1 DEF IsExternal
    <3> QED
      BY <2>7, <3>2, Zenon DEF Holds
  <2>12. ASSUME given = {}, Ans.error = {}
         PROVE  output.outcome = "done" /\ output.code <= 1 /\ (Errors(output, file.path) = {} \/ noise)
    <3>1. result.diagnostics = <<>> /\ result.error = {}
      BY <2>9, <2>11, <2>12
    <3>2. linter \in LinterNames /\ Tells(result, linter, output, file.path)
      <4>1. ~NoProject(result)
        BY <3>1, NoticeParts DEF NoProject
      <4> QED
        BY <2>3, <4>1, Zenon
    <3>3. /\ output.outcome = "done" /\ output.code <= 1
          /\ Noise(linter, printed) \/ \A n \in DOMAIN printed : ~IsError(printed[n], file.path)
      BY <3>1, <3>2, Zenon DEF Tells, printed
    <3>4. CASE Noise(linter, printed)
      <4>1. printed = output.stdout /\ linter = "eslint"
        <5>1. linter = "eslint"
          BY <3>4, Zenon DEF Noise
        <5>2. linter \in {"clippy", "eslint", "mypy"}
          BY <5>1
        <5>3. IsOutput(linter, output)
          BY <2>2, <3>2, Zenon
        <5> HIDE DEF linter, output
        <5> QED
          BY <5>1, <5>2, <5>3, PrintedMessages DEF printed
      <4>2. noise
        BY <3>4, <4>1, Zenon DEF Noise, noise, Range
      <4> QED
        BY <3>3, <4>2
    <3>5. CASE \A n \in DOMAIN printed : ~IsError(printed[n], file.path)
      <4>1. \A m : m \notin Errors(output, file.path)
        BY <2>10, <3>5, Zenon DEF Errors, IsError
      <4>2. Errors(output, file.path) = {}
        BY <4>1
      <4> QED
        BY <3>3, <4>2
    <3> QED
      BY <3>3, <3>4, <3>5
  <2>13. ASSUME NEW d \in given
         PROVE  \/ output.outcome # "done"
                \/ linter = "dotnet" /\ d.rule = "project-missing"
                \/ \E m \in Range(output.stdout \o output.stderr) : \E s \in Range(m.spans) :
                      L!path_matches_target(s.file, file.path)
    <3>1. PICK i \in DOMAIN result.diagnostics : result.diagnostics[i] = d
      BY <2>7, Zenon DEF Holds
    <3>2. CASE linter = "dotnet" /\ NoProject(result)
      <4>1. d.rule = "project-missing"
        BY <3>1, <3>2, NoticeParts DEF NoProject
      <4> QED
        BY <3>2, <4>1, Zenon
    <3>3. CASE Tells(result, linter, output, file.path)
      <4>1. output.outcome # "done" \/ \E n \in DOMAIN printed : AboutFile(printed[n], file.path)
        BY <3>1, <3>3, Zenon DEF Tells, printed
      <4> QED
        BY <2>10, <4>1, Zenon DEF AboutFile
    <3> QED
      BY <2>3, <3>2, <3>3
  <2> QED
    BY <2>8, <2>12, <2>13, Zenon DEF LintAnswersComplete, Answers, given, noise
<1> QED
  BY CallInit, CallNext, <1>1, PTL DEF Spec

(***************************************************************************)
(* The findings of a file.                                                 *)
(***************************************************************************)
\* What a detector found is of the file and grave.
AreFindings(found, file) ==
    /\ found \in Seq(Range(found))
    /\ \A i \in DOMAIN found : found[i].severity \in {"critical", "high"} /\ found[i].path = file.path
Finds(found, rule, n) == \E i \in DOMAIN found : found[i].rule = rule /\ found[i].line = n

LEMMA OccurrencesCount ==
    ASSUME NEW S, NEW seq \in Seq(S), NEW x
    PROVE  A!Occurrences(seq, x) \in Nat /\ (A!Occurrences(seq, x) > 0 <=> Holds(seq, x))
<1> DEFINE places == {i \in DOMAIN seq : seq[i] = x}
<1>1. IsFiniteSet(DOMAIN seq)
  BY Intervals
<1>2. IsFiniteSet(places) /\ Cardinality(places) \in Nat
  BY <1>1, TwoParts
<1>3. A!Occurrences(seq, x) = Cardinality(places)
  BY SameCardinality, Zenon DEF A!Occurrences
<1>4. Cardinality(places) = 0 <=> places = {}
  BY <1>2, FS_EmptySet
<1>5. places = {} <=> ~Holds(seq, x)
  BY DEF Holds
<1> HIDE DEF places
<1> QED
  BY <1>2, <1>3, <1>4, <1>5

\* A line is hit if it counts for something.
LEMMA HitsCounted ==
    ASSUME NEW N \in Nat, NEW counts \in [1 .. N -> Nat]
    PROVE  /\ A!Hits(counts) \in Seq(1 .. N)
           /\ \A n : Holds(A!Hits(counts), n) <=> n \in 1 .. N /\ counts[n] > 0
<1> DEFINE S == 1 .. N
           Of(n) == [i \in 1 .. counts[n] |-> n]
           seqs == [n \in DOMAIN counts |-> Of(n)]
<1>1. \A n \in 1 .. N : Of(n) \in Seq(S) /\ DOMAIN Of(n) = 1 .. counts[n] /\ \A i \in 1 .. counts[n] : Of(n)[i] = n
  OBVIOUS
<1>2. DOMAIN seqs = 1 .. N /\ \A n \in 1 .. N : seqs[n] = Of(n)
  OBVIOUS
<1>3. \A n \in 1 .. N : counts[n] \in Nat
  OBVIOUS
<1>4. A!Hits(counts) = FlattenSeq(seqs)
  BY SameFlattenSeq, Zenon DEF A!Hits
<1>5. seqs \in Seq(Seq(S))
  <2>1. seqs \in [1 .. N -> Seq(S)]
    BY <1>1
  <2> HIDE DEF seqs, S
  <2> QED
    BY <2>1, FunctionIsSeq
<1> HIDE DEF seqs, Of, S
<1>6. FlattenSeq(seqs) \in Seq(S) /\ Gathered(FlattenSeq(seqs), seqs)
  BY <1>5, FlattenGathers
<1>7. \A n \in 1 .. N : \A x : (\E i \in DOMAIN Of(n) : Of(n)[i] = x) <=> x = n /\ counts[n] > 0
  <2> SUFFICES ASSUME NEW n \in 1 .. N, NEW x
               PROVE  (\E i \in DOMAIN Of(n) : Of(n)[i] = x) <=> x = n /\ counts[n] > 0
    OBVIOUS
  <2>1. (\E i \in 1 .. counts[n] : TRUE) <=> counts[n] > 0
    BY <1>3
  <2> QED
    BY <1>1, <2>1
<1>8. ASSUME NEW x PROVE Holds(FlattenSeq(seqs), x) <=> x \in 1 .. N /\ counts[x] > 0
  <2>1. Holds(FlattenSeq(seqs), x) <=> \E k \in DOMAIN seqs : \E i \in DOMAIN seqs[k] : seqs[k][i] = x
    BY <1>6, Zenon DEF Gathered, Holds
  <2>2. (\E k \in DOMAIN seqs : \E i \in DOMAIN seqs[k] : seqs[k][i] = x)
            <=> \E n \in 1 .. N : x = n /\ counts[n] > 0
    <3>1. ASSUME NEW n \in 1 .. N
          PROVE  (\E i \in DOMAIN seqs[n] : seqs[n][i] = x) <=> x = n /\ counts[n] > 0
      <4>1. seqs[n] = Of(n)
        BY <1>2
      <4>2. (\E i \in DOMAIN Of(n) : Of(n)[i] = x) <=> x = n /\ counts[n] > 0
        BY <1>7
      <4> QED
        BY <4>1, <4>2, Zenon
    <3>2. DOMAIN seqs = 1 .. N
      BY <1>2
    <3> QED
      BY <3>1, <3>2, Zenon
  <2> QED
    BY <2>1, <2>2, Zenon
<1> QED
  BY <1>4, <1>6, <1>8, Zenon DEF S

LEMMA RangeSeq ==
    ASSUME NEW S, NEW seq \in Seq(S)
    PROVE  seq \in Seq(Range(seq))
<1>1. DOMAIN seq = 1 .. Len(seq) /\ Len(seq) \in Nat /\ seq = [i \in 1 .. Len(seq) |-> seq[i]]
  OBVIOUS
<1>2. \A i \in 1 .. Len(seq) : seq[i] \in Range(seq)
  BY <1>1, Zenon DEF Range
<1>3. seq \in [1 .. Len(seq) -> Range(seq)]
  BY <1>1, <1>2
<1> QED
  BY <1>1, <1>3, FunctionIsSeq

\* One finding for each hit.
HitFindings(found, hits, file, rule, severity, confidence, description) ==
    /\ severity \in {"critical", "high"}
    /\ found = [i \in DOMAIN hits |-> A!Finding(rule, severity, confidence, file.path, hits[i], description)]
LEMMA HitsAreFindings ==
    ASSUME NEW N \in Nat, NEW hits \in Seq(1 .. N), NEW file, NEW rule, NEW confidence, NEW description,
           NEW severity, NEW found, HitFindings(found, hits, file, rule, severity, confidence, description)
    PROVE  /\ AreFindings(found, file)
           /\ \A r, n : Finds(found, r, n) <=> r = rule /\ Holds(hits, n)
<1> USE DEF HitFindings
<1>1. \A i \in DOMAIN hits : /\ found[i].rule = rule /\ found[i].severity = severity
                             /\ found[i].path = file.path /\ found[i].line = hits[i]
  BY DEF A!Finding
<1>2. DOMAIN found = DOMAIN hits
  OBVIOUS
<1>3. found \in Seq(Range(found))
  <2>1. DOMAIN hits = 1 .. Len(hits) /\ Len(hits) \in Nat
    OBVIOUS
  <2>2. found \in [1 .. Len(hits) -> Range(found)]
    BY <2>1 DEF Range
  <2> QED
    BY <2>1, <2>2, FunctionIsSeq
<1> QED
  BY <1>1, <1>2, <1>3 DEF AreFindings, Finds, Holds

LEMMA FindingsJoin ==
    ASSUME NEW file, NEW s, AreFindings(s, file), NEW t, AreFindings(t, file)
    PROVE  /\ AreFindings(s \o t, file)
           /\ \A r, n : Finds(s \o t, r, n) <=> Finds(s, r, n) \/ Finds(t, r, n)
<1> DEFINE S == Range(s) \cup Range(t)
           both == s \o t
<1>1. s \in Seq(S) /\ t \in Seq(S)
  BY DEF AreFindings
<1>2. both \in Seq(S) /\ Both(both, s, t)
  BY <1>1, ConcatGathers
<1> HIDE DEF both
<1>3. both \in Seq(Range(both))
  BY <1>2, RangeSeq
<1>4. ASSUME NEW i \in DOMAIN both PROVE both[i].severity \in {"critical", "high"} /\ both[i].path = file.path
  <2>1. (\E j \in DOMAIN s : s[j] = both[i]) \/ (\E j \in DOMAIN t : t[j] = both[i])
    BY <1>2, Zenon DEF Both
  <2> QED
    BY <2>1, Zenon DEF AreFindings
<1>5. \A r, n : Finds(both, r, n) <=> Finds(s, r, n) \/ Finds(t, r, n)
  <2> SUFFICES ASSUME NEW r, NEW n PROVE Finds(both, r, n) <=> Finds(s, r, n) \/ Finds(t, r, n)
    OBVIOUS
  <2>1. ASSUME NEW i \in DOMAIN both, both[i].rule = r, both[i].line = n PROVE Finds(s, r, n) \/ Finds(t, r, n)
    <3>1. (\E j \in DOMAIN s : s[j] = both[i]) \/ (\E j \in DOMAIN t : t[j] = both[i])
      BY <1>2, Zenon DEF Both
    <3> QED
      BY <2>1, <3>1, Zenon DEF Finds
  <2>2. ASSUME NEW i \in DOMAIN s, s[i].rule = r, s[i].line = n PROVE Finds(both, r, n)
    BY <1>2, <2>2, Zenon DEF Both, Finds
  <2>3. ASSUME NEW i \in DOMAIN t, t[i].rule = r, t[i].line = n PROVE Finds(both, r, n)
    BY <1>2, <2>3, Zenon DEF Both, Finds
  <2> QED
    BY <2>1, <2>2, <2>3, Zenon DEF Finds
<1> QED
  BY <1>3, <1>4, <1>5 DEF AreFindings, both

LEMMA FindingsFlatten ==
    ASSUME NEW file, NEW K \in Nat, NEW seqs, DOMAIN seqs = 1 .. K, seqs = [k \in 1 .. K |-> seqs[k]],
           \A k \in 1 .. K : AreFindings(seqs[k], file)
    PROVE  /\ AreFindings(FlattenSeq(seqs), file)
           /\ \A r, n : Finds(FlattenSeq(seqs), r, n) <=> \E k \in 1 .. K : Finds(seqs[k], r, n)
<1> DEFINE S == UNION {Range(seqs[k]) : k \in 1 .. K}
           flat == FlattenSeq(seqs)
<1>1. seqs \in Seq(Seq(S))
  <2>1. ASSUME NEW k \in 1 .. K PROVE seqs[k] \in Seq(S)
    <3>1. seqs[k] \in Seq(Range(seqs[k]))
      BY DEF AreFindings
    <3>2. Range(seqs[k]) \subseteq S
      OBVIOUS
    <3> HIDE DEF S
    <3> QED
      BY <3>1, <3>2
  <2>2. seqs \in [1 .. K -> Seq(S)]
    BY <2>1
  <2> HIDE DEF S
  <2> QED
    BY <2>2, FunctionIsSeq
<1> HIDE DEF S
<1>2. flat \in Seq(S) /\ Gathered(flat, seqs)
  BY <1>1, FlattenGathers
<1> HIDE DEF flat
<1>3. flat \in Seq(Range(flat))
  BY <1>2, RangeSeq
<1>4. ASSUME NEW i \in DOMAIN flat PROVE flat[i].severity \in {"critical", "high"} /\ flat[i].path = file.path
  <2>1. \E k \in 1 .. K : \E j \in DOMAIN seqs[k] : seqs[k][j] = flat[i]
    BY <1>2, Zenon DEF Gathered
  <2> QED
    BY <2>1, Zenon DEF AreFindings
<1>5. \A r, n : Finds(flat, r, n) <=> \E k \in 1 .. K : Finds(seqs[k], r, n)
  <2> SUFFICES ASSUME NEW r, NEW n PROVE Finds(flat, r, n) <=> \E k \in 1 .. K : Finds(seqs[k], r, n)
    OBVIOUS
  <2>1. ASSUME NEW i \in DOMAIN flat, flat[i].rule = r, flat[i].line = n
        PROVE  \E k \in 1 .. K : Finds(seqs[k], r, n)
    <3>1. \E k \in 1 .. K : \E j \in DOMAIN seqs[k] : seqs[k][j] = flat[i]
      BY <1>2, Zenon DEF Gathered
    <3> QED
      BY <2>1, <3>1, Zenon DEF Finds
  <2>2. ASSUME NEW k \in 1 .. K, NEW i \in DOMAIN seqs[k], seqs[k][i].rule = r, seqs[k][i].line = n
        PROVE  Finds(flat, r, n)
    BY <1>2, <2>2, Zenon DEF Gathered, Finds
  <2> QED
    BY <2>1, <2>2, Zenon DEF Finds
<1> QED
  BY <1>3, <1>4, <1>5 DEF AreFindings, flat

LEMMA FileParts ==
    ASSUME NEW file, AuditFileOK(file)
    PROVE  /\ Len(file.lines) \in Nat /\ DOMAIN file.lines = 1 .. Len(file.lines)
           /\ \A n \in 1 .. Len(file.lines) :
                 /\ file.lines[n].secrets \in Seq(Range(A!SecretTypes))
                 /\ file.lines[n].constructs \in Seq(STRING) /\ file.lines[n].sql \in BOOLEAN
<1>1. file.lines \in Seq(Range(file.lines))
  BY DEF AuditFileOK
<1>2. Len(file.lines) \in Nat /\ DOMAIN file.lines = 1 .. Len(file.lines)
  BY <1>1
<1>3. \A n \in DOMAIN file.lines : file.lines[n] \in Range(file.lines)
  BY DEF Range
<1> QED
  BY <1>2, <1>3, Zenon DEF AuditFileOK

\* The findings are those of one rule, on these lines.
FindsOf(found, file, rule, lines) ==
    /\ AreFindings(found, file)
    /\ \A r, n : Finds(found, r, n) <=> r = rule /\ n \in lines

LEMMA LinesFound ==
    ASSUME NEW N \in Nat, NEW counts \in [1 .. N -> Nat], NEW file, NEW rule, NEW confidence, NEW description,
           NEW severity, NEW found,
           HitFindings(found, A!Hits(counts), file, rule, severity, confidence, description)
    PROVE  FindsOf(found, file, rule, {n \in 1 .. N : counts[n] > 0})
<1> DEFINE hits == A!Hits(counts)
<1>1. hits \in Seq(1 .. N) /\ \A n : Holds(hits, n) <=> n \in 1 .. N /\ counts[n] > 0
  BY HitsCounted
<1>2. HitFindings(found, hits, file, rule, severity, confidence, description)
  OBVIOUS
<1> HIDE DEF hits
<1>3. AreFindings(found, file) /\ \A r, n : Finds(found, r, n) <=> r = rule /\ Holds(hits, n)
  BY <1>1, <1>2, HitsAreFindings
<1> QED
  <2> SUFFICES ASSUME NEW r, NEW n
               PROVE  Finds(found, r, n) <=> r = rule /\ n \in {m \in 1 .. N : counts[m] > 0}
    BY <1>3, Zenon DEF FindsOf
  <2>1. Finds(found, r, n) <=> r = rule /\ Holds(hits, n)
    BY <1>3, Zenon
  <2>2. Holds(hits, n) <=> n \in 1 .. N /\ counts[n] > 0
    BY <1>1, Zenon
  <2> QED
    BY <2>1, <2>2, Zenon

\* Of several searches, each for a rule of its own.
AreSearches(seqs, file, K, rule, lines) ==
    /\ DOMAIN seqs = 1 .. K /\ seqs = [k \in 1 .. K |-> seqs[k]] /\ K \in Nat
    /\ \A k \in 1 .. K : FindsOf(seqs[k], file, rule[k], lines[k])
SearchesFind(found, file, K, rule, lines) ==
    /\ AreFindings(found, file)
    /\ \A r, n : Finds(found, r, n) <=> \E k \in 1 .. K : r = rule[k] /\ n \in lines[k]
LEMMA SearchesFound ==
    ASSUME NEW file, NEW K, NEW seqs, NEW rule, NEW lines, AreSearches(seqs, file, K, rule, lines)
    PROVE  SearchesFind(FlattenSeq(seqs), file, K, rule, lines)
<1> USE DEF AreSearches
<1>1. \A k \in 1 .. K : AreFindings(seqs[k], file)
  BY Zenon DEF FindsOf
<1>2. /\ AreFindings(FlattenSeq(seqs), file)
      /\ \A r, n : Finds(FlattenSeq(seqs), r, n) <=> \E k \in 1 .. K : Finds(seqs[k], r, n)
  BY <1>1, FindingsFlatten
<1> SUFFICES ASSUME NEW r, NEW n
             PROVE  Finds(FlattenSeq(seqs), r, n) <=> \E k \in 1 .. K : r = rule[k] /\ n \in lines[k]
  BY <1>2, Zenon DEF SearchesFind
<1>3. \A k \in 1 .. K : Finds(seqs[k], r, n) <=> r = rule[k] /\ n \in lines[k]
  BY Zenon DEF FindsOf
<1>4. (\E k \in 1 .. K : Finds(seqs[k], r, n)) <=> \E k \in 1 .. K : r = rule[k] /\ n \in lines[k]
  BY <1>3, Zenon
<1> QED
  BY <1>2, <1>4, Zenon

\* The lines with a secret of one type, or with a construct.
SecretLines(file, type) == {n \in DOMAIN file.lines : Holds(file.lines[n].secrets, type)}
ConstructLines(file, construct) == {n \in DOMAIN file.lines : Holds(file.lines[n].constructs, construct)}

LEMMA TypeFound ==
    ASSUME NEW file, AuditFileOK(file), NEW type, NEW found,
           found = LET hits == A!Hits([n \in DOMAIN file.lines |-> A!Occurrences(file.lines[n].secrets, type)])
                   IN [i \in DOMAIN hits |->
                          A!Finding("secret-detection", "critical", "medium", file.path, hits[i], type)]
    PROVE  FindsOf(found, file, "secret-detection", SecretLines(file, type))
<1> DEFINE N == Len(file.lines)
           counts == [n \in DOMAIN file.lines |-> A!Occurrences(file.lines[n].secrets, type)]
           S == {n \in 1 .. N : counts[n] > 0}
<1>1. /\ N \in Nat /\ DOMAIN file.lines = 1 .. N
      /\ \A n \in 1 .. N : file.lines[n].secrets \in Seq(Range(A!SecretTypes))
  BY FileParts
<1>2. \A n \in 1 .. N : /\ A!Occurrences(file.lines[n].secrets, type) \in Nat
                        /\ A!Occurrences(file.lines[n].secrets, type) > 0 <=> Holds(file.lines[n].secrets, type)
  BY <1>1, OccurrencesCount
<1>3. counts \in [1 .. N -> Nat] /\ \A n \in 1 .. N : counts[n] = A!Occurrences(file.lines[n].secrets, type)
  BY <1>1, <1>2
<1>4. HitFindings(found, A!Hits(counts), file, "secret-detection", "critical", "medium", type)
  BY Zenon DEF HitFindings
<1> HIDE DEF N, counts
<1>5. FindsOf(found, file, "secret-detection", S)
  BY <1>1, <1>3, <1>4, LinesFound
<1>6. S = SecretLines(file, type)
  <2>1. \A n \in 1 .. N : counts[n] > 0 <=> Holds(file.lines[n].secrets, type)
    BY <1>2, <1>3, Zenon
  <2> QED
    BY <1>1, <2>1, Zenon DEF SecretLines
<1> QED
  BY <1>5, <1>6, Zenon

LEMMA NonEmptySeq ==
    ASSUME NEW S, NEW seq \in Seq(S)
    PROVE  seq # <<>> <=> \E i \in DOMAIN seq : TRUE
OBVIOUS

LEMMA SecretsFound ==
    ASSUME NEW file, AuditFileOK(file)
    PROVE  FindsOf(A!detect_all_secrets(file), file, "secret-detection",
                   {n \in DOMAIN file.lines : file.lines[n].secrets # <<>>})
<1> DEFINE OfType(type) ==
               LET hits == A!Hits([n \in DOMAIN file.lines |-> A!Occurrences(file.lines[n].secrets, type)])
               IN [i \in DOMAIN hits |->
                      A!Finding("secret-detection", "critical", "medium", file.path, hits[i], type)]
           seqs == [k \in DOMAIN A!SecretTypes |-> OfType(A!SecretTypes[k])]
           rule == [k \in 1 .. 9 |-> "secret-detection"]
           lines == [k \in 1 .. 9 |-> SecretLines(file, A!SecretTypes[k])]
           S == {n \in DOMAIN file.lines : file.lines[n].secrets # <<>>}
<1>1. A!detect_all_secrets(file) = FlattenSeq(seqs)
  BY SameFlattenSeq, Zenon DEF A!detect_all_secrets
<1>2. DOMAIN A!SecretTypes = 1 .. 9
  BY DEF A!SecretTypes
<1>3. /\ DOMAIN seqs = 1 .. 9 /\ seqs = [k \in 1 .. 9 |-> seqs[k]] /\ 9 \in Nat
      /\ \A k \in 1 .. 9 : seqs[k] = OfType(A!SecretTypes[k])
  <2> HIDE DEF OfType
  <2> QED
    BY <1>2
<1>4. ASSUME NEW k \in 1 .. 9 PROVE FindsOf(seqs[k], file, rule[k], lines[k])
  <2>1. seqs[k] = OfType(A!SecretTypes[k])
    BY <1>3
  <2>2. FindsOf(seqs[k], file, "secret-detection", SecretLines(file, A!SecretTypes[k]))
    <3> DEFINE found == seqs[k]
               type == A!SecretTypes[k]
    <3>1. found = OfType(type)
      BY <2>1
    <3> HIDE DEF found, type
    <3>2. FindsOf(found, file, "secret-detection", SecretLines(file, type))
      BY <3>1, TypeFound
    <3> QED
      BY <3>2 DEF found, type
  <2>3. rule[k] = "secret-detection" /\ lines[k] = SecretLines(file, A!SecretTypes[k])
    BY Zenon
  <2> QED
    BY <2>2, <2>3, Zenon
<1>5. \A k \in 1 .. 9 : rule[k] = "secret-detection" /\ lines[k] = SecretLines(file, A!SecretTypes[k])
  BY Zenon
<1> DEFINE K == 9
<1>K. K = 9
  OBVIOUS
<1> HIDE DEF OfType, seqs, rule, lines, K
<1>6. /\ AreFindings(FlattenSeq(seqs), file)
      /\ \A r, n : Finds(FlattenSeq(seqs), r, n) <=> \E k \in 1 .. K : r = rule[k] /\ n \in lines[k]
  <2>1. AreSearches(seqs, file, K, rule, lines)
    BY <1>3, <1>4, <1>K, Zenon DEF AreSearches
  <2>2. SearchesFind(FlattenSeq(seqs), file, K, rule, lines)
    BY <2>1, SearchesFound, Zenon
  <2> QED
    BY <2>2, Zenon DEF SearchesFind
<1>7. ASSUME NEW n \in DOMAIN file.lines
      PROVE  file.lines[n].secrets # <<>> <=> \E k \in 1 .. 9 : Holds(file.lines[n].secrets, A!SecretTypes[k])
  <2> DEFINE secrets == file.lines[n].secrets
  <2>1. secrets \in Seq(Range(A!SecretTypes))
    BY FileParts
  <2>2. \A t \in Range(A!SecretTypes) : \E k \in 1 .. 9 : A!SecretTypes[k] = t
    BY <1>2, Zenon DEF Range
  <2> HIDE DEF secrets
  <2>3. secrets # <<>> <=> \E i \in DOMAIN secrets : TRUE
    BY <2>1, NonEmptySeq
  <2>4. \A i \in DOMAIN secrets : secrets[i] \in Range(A!SecretTypes)
    BY <2>1
  <2>5. secrets # <<>> <=> \E k \in 1 .. 9 : Holds(secrets, A!SecretTypes[k])
    BY <2>2, <2>3, <2>4, Zenon DEF Holds
  <2> QED
    BY <2>5 DEF secrets
<1>8. ASSUME NEW n PROVE n \in S <=> \E k \in 1 .. 9 : n \in lines[k]
  <2>1. \A k \in 1 .. 9 : n \in lines[k] <=> n \in DOMAIN file.lines /\ Holds(file.lines[n].secrets, A!SecretTypes[k])
    BY <1>5, Zenon DEF SecretLines
  <2> QED
    BY <1>7, <2>1, Zenon
<1> HIDE DEF S
<1>9. ASSUME NEW r, NEW n PROVE Finds(FlattenSeq(seqs), r, n) <=> r = "secret-detection" /\ n \in S
  <2>1. Finds(FlattenSeq(seqs), r, n) <=> \E k \in 1 .. 9 : r = rule[k] /\ n \in lines[k]
    BY <1>6, <1>K, Zenon
  <2> QED
    BY <1>5, <1>8, <2>1, Zenon
<1>10. FindsOf(FlattenSeq(seqs), file, "secret-detection", S)
  BY <1>6, <1>9, Zenon DEF FindsOf
<1> QED
  BY <1>1, <1>10, Zenon DEF S

LEMMA QueryFound ==
    ASSUME NEW file, AuditFileOK(file), NEW q, NEW found,
           found = LET hits == A!Hits([n \in DOMAIN file.lines |-> A!Occurrences(file.lines[n].constructs, q.construct)])
                   IN [i \in DOMAIN hits |-> A!Finding(q.kind, "high", "high", file.path, hits[i], A!Describe(q))]
    PROVE  FindsOf(found, file, q.kind, ConstructLines(file, q.construct))
<1> DEFINE N == Len(file.lines)
           counts == [n \in DOMAIN file.lines |-> A!Occurrences(file.lines[n].constructs, q.construct)]
           S == {n \in 1 .. N : counts[n] > 0}
<1>1. /\ N \in Nat /\ DOMAIN file.lines = 1 .. N
      /\ \A n \in 1 .. N : file.lines[n].constructs \in Seq(STRING)
  BY FileParts
<1>2. \A n \in 1 .. N : /\ A!Occurrences(file.lines[n].constructs, q.construct) \in Nat
                        /\ A!Occurrences(file.lines[n].constructs, q.construct) > 0
                              <=> Holds(file.lines[n].constructs, q.construct)
  BY <1>1, OccurrencesCount
<1>3. counts \in [1 .. N -> Nat] /\ \A n \in 1 .. N : counts[n] = A!Occurrences(file.lines[n].constructs, q.construct)
  BY <1>1, <1>2
<1>4. HitFindings(found, A!Hits(counts), file, q.kind, "high", "high", A!Describe(q))
  BY Zenon DEF HitFindings
<1> HIDE DEF N, counts
<1>5. FindsOf(found, file, q.kind, S)
  BY <1>1, <1>3, <1>4, LinesFound
<1>6. S = ConstructLines(file, q.construct)
  <2>1. \A n \in 1 .. N : counts[n] > 0 <=> Holds(file.lines[n].constructs, q.construct)
    BY <1>2, <1>3, Zenon
  <2> QED
    BY <1>1, <2>1, Zenon DEF ConstructLines
<1> QED
  BY <1>5, <1>6, Zenon

\* What the queries of a language look for is what breaks its rules.
LEMMA QueriesFindBreaks ==
    ASSUME NEW language, language # "none", NEW queries, queries = A!Queries(language)
    PROVE  /\ \E K \in 1 .. 5 : DOMAIN queries = 1 .. K
           /\ \A construct, r : r \in Breaks(language, construct)
                 <=> \E k \in DOMAIN queries : queries[k].construct = construct /\ queries[k].kind = r
<1> DEFINE Q(construct, kind) == [construct |-> construct, kind |-> kind]
<1>1. CASE language = "rust"
  <2>1. queries = <<Q("unsafe_block", "rust-unsafe"), Q("unsafe_fn", "rust-unsafe"),
                    Q("asm", "rust-unsafe"), Q("panic_call", "rust-unsafe"), Q("unsafe_block", "rust-unsafe")>>
    BY <1>1 DEF A!Queries
  <2>2. \A construct : Breaks(language, construct) =
           IF construct \in {"unsafe_block", "unsafe_fn", "asm", "panic_call"} THEN {"rust-unsafe"} ELSE {}
    BY <1>1 DEF Breaks
  <2>3. DOMAIN queries = 1 .. 5
    BY <2>1
  <2>4. /\ \A k \in 1 .. 5 : queries[k].kind = "rust-unsafe"
        /\ queries[1].construct = "unsafe_block" /\ queries[2].construct = "unsafe_fn" /\ queries[3].construct = "asm"
        /\ queries[4].construct = "panic_call" /\ queries[5].construct = "unsafe_block"
    BY <2>1
  <2> HIDE <1>1
  <2> QED
    BY <2>2, <2>3, <2>4
<1>2. CASE language \in {"javascript", "typescript", "tsx"}
  <2>1. queries = <<Q("eval", "dynamic-execution"), Q("new_function", "dynamic-execution"),
                    Q("inner_html", "insecure-assignment")>>
    BY <1>2 DEF A!Queries
  <2>2. \A construct : Breaks(language, construct) =
            IF construct \in {"eval", "new_function"} THEN {"dynamic-execution"}
            ELSE IF construct = "inner_html" THEN {"insecure-assignment"} ELSE {}
    BY <1>2 DEF Breaks
  <2>3. DOMAIN queries = 1 .. 3
    BY <2>1
  <2>4. /\ queries[1].construct = "eval" /\ queries[2].construct = "new_function" /\ queries[3].construct = "inner_html"
        /\ queries[1].kind = "dynamic-execution" /\ queries[2].kind = "dynamic-execution"
        /\ queries[3].kind = "insecure-assignment"
    BY <2>1
  <2> QED
    BY <2>2, <2>3, <2>4
<1>3. CASE language = "python"
  <2>1. queries = <<Q("eval", "dynamic-execution"), Q("shell_true", "dynamic-execution")>>
    BY <1>3 DEF A!Queries
  <2>2. \A construct : Breaks(language, construct) =
            IF construct \in {"eval", "shell_true"} THEN {"dynamic-execution"} ELSE {}
    BY <1>3 DEF Breaks
  <2>3. DOMAIN queries = 1 .. 2
    BY <2>1
  <2>4. /\ queries[1].construct = "eval" /\ queries[2].construct = "shell_true"
        /\ queries[1].kind = "dynamic-execution" /\ queries[2].kind = "dynamic-execution"
    BY <2>1
  <2> QED
    BY <2>2, <2>3, <2>4
<1>4. CASE language \notin {"rust", "javascript", "typescript", "tsx", "python"}
  <2>1. queries = <<Q("eval", "dynamic-execution")>>
    BY <1>4 DEF A!Queries
  <2>2. \A construct : Breaks(language, construct) = IF construct = "eval" THEN {"dynamic-execution"} ELSE {}
    BY <1>4 DEF Breaks
  <2>3. DOMAIN queries = 1 .. 1
    BY <2>1
  <2>4. queries[1].construct = "eval" /\ queries[1].kind = "dynamic-execution"
    BY <2>1
  <2> QED
    BY <2>2, <2>3, <2>4
<1> QED
  BY <1>1, <1>2, <1>3, <1>4, Zenon

\* A line of a file breaks a rule by a construct in it.
BreaksOn(file, r, n) == \E c : Holds(file.lines[n].constructs, c) /\ r \in Breaks(file.language, c)

LEMMA ConstructsFound ==
    ASSUME NEW file, AuditFileOK(file), file.language # "none"
    PROVE  /\ AreFindings(A!audit_file_ast(file), file)
           /\ \A r, n : Finds(A!audit_file_ast(file), r, n) <=> n \in DOMAIN file.lines /\ BreaksOn(file, r, n)
<1> DEFINE OfQuery(q) ==
               LET hits == A!Hits([n \in DOMAIN file.lines |-> A!Occurrences(file.lines[n].constructs, q.construct)])
               IN [i \in DOMAIN hits |-> A!Finding(q.kind, "high", "high", file.path, hits[i], A!Describe(q))]
           queries == A!Queries(file.language)
           seqs == [k \in DOMAIN queries |-> OfQuery(queries[k])]
           rule == [k \in DOMAIN queries |-> queries[k].kind]
           lines == [k \in DOMAIN queries |-> ConstructLines(file, queries[k].construct)]
<1>1. A!audit_file_ast(file) = FlattenSeq(seqs)
  BY SameFlattenSeq, Zenon DEF A!audit_file_ast
<1>a. queries = A!Queries(file.language)
  OBVIOUS
<1> HIDE DEF OfQuery, queries, seqs, rule, lines
<1>2. /\ \E K \in 1 .. 5 : DOMAIN queries = 1 .. K
      /\ \A construct, r : r \in Breaks(file.language, construct)
            <=> \E k \in DOMAIN queries : queries[k].construct = construct /\ queries[k].kind = r
  BY <1>a, QueriesFindBreaks
<1> USE DEF OfQuery, seqs, rule, lines
<1>3. PICK K \in 1 .. 5 : DOMAIN queries = 1 .. K
  BY <1>2
<1>4. /\ DOMAIN seqs = 1 .. K /\ seqs = [k \in 1 .. K |-> seqs[k]] /\ K \in Nat
      /\ \A k \in 1 .. K : seqs[k] = OfQuery(queries[k])
  <2> HIDE DEF OfQuery
  <2> QED
    BY <1>3
<1>5. \A k \in 1 .. K : rule[k] = queries[k].kind /\ lines[k] = ConstructLines(file, queries[k].construct)
  BY <1>3, Zenon
<1>6. ASSUME NEW k \in 1 .. K PROVE FindsOf(seqs[k], file, rule[k], lines[k])
  <2> DEFINE found == seqs[k]
             q == queries[k]
  <2>1. found = OfQuery(q)
    BY <1>4
  <2> HIDE DEF found, q
  <2>2. FindsOf(found, file, q.kind, ConstructLines(file, q.construct))
    BY <2>1, QueryFound
  <2> QED
    BY <1>5, <2>2, Zenon DEF found, q
<1> HIDE DEF OfQuery, seqs, rule, lines
<1>7. /\ AreFindings(FlattenSeq(seqs), file)
      /\ \A r, n : Finds(FlattenSeq(seqs), r, n) <=> \E k \in 1 .. K : r = rule[k] /\ n \in lines[k]
  <2>1. AreSearches(seqs, file, K, rule, lines)
    BY <1>4, <1>6, Zenon DEF AreSearches
  <2>2. SearchesFind(FlattenSeq(seqs), file, K, rule, lines)
    BY <2>1, SearchesFound, Zenon
  <2> QED
    BY <2>2, Zenon DEF SearchesFind
<1>8. ASSUME NEW r, NEW n
      PROVE  Finds(FlattenSeq(seqs), r, n) <=> n \in DOMAIN file.lines /\ BreaksOn(file, r, n)
  <2>1. Finds(FlattenSeq(seqs), r, n) <=> \E k \in 1 .. K : r = rule[k] /\ n \in lines[k]
    BY <1>7, Zenon
  <2>2. \A k \in 1 .. K : n \in lines[k] <=> n \in DOMAIN file.lines /\ Holds(file.lines[n].constructs, queries[k].construct)
    BY <1>5, Zenon DEF ConstructLines
  <2>3. \A c : r \in Breaks(file.language, c) <=> \E k \in 1 .. K : queries[k].construct = c /\ queries[k].kind = r
    <3> SUFFICES ASSUME NEW c
                 PROVE  r \in Breaks(file.language, c) <=> \E k \in 1 .. K : queries[k].construct = c /\ queries[k].kind = r
      OBVIOUS
    <3>1. r \in Breaks(file.language, c)
             <=> \E k \in DOMAIN queries : queries[k].construct = c /\ queries[k].kind = r
      BY <1>2
    <3> QED
      BY <1>3, <3>1, Zenon
  <2>4. ASSUME NEW k \in 1 .. K, r = rule[k], n \in lines[k] PROVE n \in DOMAIN file.lines /\ BreaksOn(file, r, n)
    <3>1. r = queries[k].kind /\ n \in DOMAIN file.lines /\ Holds(file.lines[n].constructs, queries[k].construct)
      BY <1>5, <2>2, <2>4, Zenon
    <3>2. r \in Breaks(file.language, queries[k].construct)
      BY <2>3, <3>1, Zenon
    <3> QED
      BY <3>1, <3>2, Zenon DEF BreaksOn
  <2>5. ASSUME n \in DOMAIN file.lines, NEW c, Holds(file.lines[n].constructs, c), r \in Breaks(file.language, c)
        PROVE  \E k \in 1 .. K : r = rule[k] /\ n \in lines[k]
    <3>1. PICK k \in 1 .. K : queries[k].construct = c /\ queries[k].kind = r
      BY <2>3, <2>5, Zenon
    <3> QED
      BY <1>5, <2>2, <2>5, <3>1, Zenon
  <2> QED
    BY <2>1, <2>4, <2>5, Zenon DEF BreaksOn
<1> QED
  BY <1>1, <1>7, <1>8, Zenon

LEMMA QueriesFound ==
    ASSUME NEW file, AuditFileOK(file)
    PROVE  FindsOf(A!SqlHits(file), file, "sql-injection-heuristic", {n \in DOMAIN file.lines : file.lines[n].sql})
<1> DEFINE N == Len(file.lines)
           counts == [n \in DOMAIN file.lines |-> IF file.lines[n].sql THEN 1 ELSE 0]
           found == A!SqlHits(file)
           S == {n \in 1 .. N : counts[n] > 0}
<1>1. /\ N \in Nat /\ DOMAIN file.lines = 1 .. N
      /\ \A n \in 1 .. N : file.lines[n].sql \in BOOLEAN
  BY FileParts
<1>2. /\ counts \in [1 .. N -> Nat]
      /\ \A n \in 1 .. N : counts[n] > 0 <=> file.lines[n].sql
  <2>1. \A n \in 1 .. N : counts[n] = IF file.lines[n].sql THEN 1 ELSE 0
    BY <1>1
  <2>2. \A n \in 1 .. N : counts[n] \in Nat /\ (counts[n] > 0 <=> file.lines[n].sql)
    <3> SUFFICES ASSUME NEW n \in 1 .. N PROVE counts[n] \in Nat /\ (counts[n] > 0 <=> file.lines[n].sql)
      OBVIOUS
    <3> HIDE DEF counts
    <3>1. CASE file.lines[n].sql
      <4>1. counts[n] = 1
        BY <2>1, <3>1, Zenon
      <4>2. counts[n] \in Nat /\ counts[n] > 0
        BY <4>1
      <4> QED
        BY <3>1, <4>2, Zenon
    <3>2. CASE ~file.lines[n].sql
      <4>1. counts[n] = 0
        BY <2>1, <3>2, Zenon
      <4>2. counts[n] \in Nat /\ ~(counts[n] > 0)
        BY <4>1
      <4> QED
        BY <3>2, <4>2, Zenon
    <3> QED
      BY <3>1, <3>2
  <2>3. DOMAIN counts = 1 .. N /\ counts = [n \in 1 .. N |-> counts[n]]
    BY <1>1
  <2> HIDE DEF counts
  <2>4. \A n \in 1 .. N : counts[n] \in Nat
    BY <2>2, Zenon
  <2>5. counts \in [1 .. N -> Nat]
    BY <2>3, <2>4
  <2> QED
    BY <2>2, <2>5, Zenon
<1>3. HitFindings(found, A!Hits(counts), file, "sql-injection-heuristic", "high", "medium", "sql")
  BY Zenon DEF HitFindings, A!SqlHits
<1> HIDE DEF N, counts, found
<1>4. FindsOf(found, file, "sql-injection-heuristic", S)
  BY <1>1, <1>2, <1>3, LinesFound
<1>5. S = {n \in DOMAIN file.lines : file.lines[n].sql}
  BY <1>1, <1>2, Zenon
<1> QED
  BY <1>4, <1>5, Zenon DEF found

\* The audit of a file finds what is broken in it.
LEMMA FileFound ==
    ASSUME NEW file, AuditFileOK(file)
    PROVE  /\ AreFindings(A!FileFindings(file), file)
           /\ \A r, n : Finds(A!FileFindings(file), r, n)
                           <=> file.readable /\ n \in DOMAIN file.lines /\ r \in Broken(file, n)
<1> DEFINE secrets == A!detect_all_secrets(file)
           found == A!audit_file_ast(file)
           sql == A!SqlHits(file)
           Secret(n) == file.lines[n].secrets # <<>>
           Parsed == file.language # "none"
           Sql(n) == file.lines[n].sql
<1>1. ASSUME NEW r, NEW n
      PROVE  r \in Broken(file, n) <=> \/ r = "secret-detection" /\ Secret(n)
                                       \/ r = "sql-injection-heuristic" /\ Parsed /\ Sql(n)
                                       \/ BreaksOn(file, r, n)
  <2> DEFINE first == IF file.lines[n].secrets = <<>> THEN {} ELSE {"secret-detection"}
             second == IF file.language # "none" /\ file.lines[n].sql THEN {"sql-injection-heuristic"} ELSE {}
             third == UNION {Breaks(file.language, c) : c \in Range(file.lines[n].constructs)}
  <2>1. Broken(file, n) = first \cup second \cup third
    BY Zenon DEF Broken
  <2>2. r \in first <=> r = "secret-detection" /\ Secret(n)
    BY Zenon
  <2>3. r \in second <=> r = "sql-injection-heuristic" /\ Parsed /\ Sql(n)
    BY Zenon
  <2>4. r \in third <=> BreaksOn(file, r, n)
    BY Zenon DEF Range, Holds, BreaksOn
  <2> HIDE DEF first, second, third, Secret, Parsed, Sql
  <2> QED
    BY <2>1, <2>2, <2>3, <2>4, Zenon
<1>2. AreFindings(secrets, file) /\ \A r, n : Finds(secrets, r, n) <=> r = "secret-detection" /\ n \in DOMAIN file.lines /\ Secret(n)
  <2>1. FindsOf(secrets, file, "secret-detection", {n \in DOMAIN file.lines : Secret(n)})
    BY SecretsFound, Zenon
  <2> HIDE DEF secrets, Secret
  <2> QED
    BY <2>1, Zenon DEF FindsOf
<1>3. Parsed => /\ AreFindings(found, file)
                /\ \A r, n : Finds(found, r, n) <=> n \in DOMAIN file.lines /\ BreaksOn(file, r, n)
  BY ConstructsFound, Zenon
<1>4. /\ AreFindings(sql, file)
      /\ \A r, n : Finds(sql, r, n) <=> r = "sql-injection-heuristic" /\ n \in DOMAIN file.lines /\ Sql(n)
  <2>1. FindsOf(sql, file, "sql-injection-heuristic", {n \in DOMAIN file.lines : Sql(n)})
    BY QueriesFound, Zenon
  <2> HIDE DEF sql, Sql
  <2> QED
    BY <2>1, Zenon DEF FindsOf
<1>5. CASE ~file.readable
  <2>1. A!FileFindings(file) = <<>>
    BY <1>5 DEF A!FileFindings
  <2>2. <<>> \in Seq(Range(<<>>)) /\ DOMAIN <<>> = {}
    OBVIOUS
  <2>3. AreFindings(<<>>, file) /\ \A r, n : ~Finds(<<>>, r, n)
    BY <2>2, Zenon DEF AreFindings, Finds
  <2> QED
    BY <1>5, <2>1, <2>3, Zenon
<1>6. CASE file.readable /\ ~Parsed
  <2>1. A!FileFindings(file) = secrets \o <<>>
    BY <1>6 DEF A!FileFindings
  <2> HIDE DEF secrets
  <2>2. secrets \o <<>> = secrets
    <3>1. secrets \in Seq(Range(secrets))
      BY <1>2, Zenon DEF AreFindings
    <3> QED
      BY <3>1
  <2>3. \A r, n : ~BreaksOn(file, r, n)
    <3>1. \A c : Breaks(file.language, c) = {}
      BY <1>6 DEF Breaks
    <3> QED
      BY <3>1, Zenon DEF BreaksOn
  <2> HIDE DEF Secret, Parsed, Sql
  <2>4. ASSUME NEW r, NEW n
        PROVE  Finds(secrets, r, n) <=> file.readable /\ n \in DOMAIN file.lines /\ r \in Broken(file, n)
    <3>1. Finds(secrets, r, n) <=> r = "secret-detection" /\ n \in DOMAIN file.lines /\ Secret(n)
      BY <1>2, Zenon
    <3> QED
      BY <1>1, <1>6, <2>3, <3>1, Zenon
  <2> QED
    BY <1>2, <2>1, <2>2, <2>4, Zenon
<1>7. CASE file.readable /\ Parsed
  <2> DEFINE rest == found \o sql
             all == secrets \o rest
  <2>1. A!FileFindings(file) = all
    BY <1>7 DEF A!FileFindings
  <2> HIDE DEF secrets, found, sql
  <2>2. AreFindings(rest, file) /\ \A r, n : Finds(rest, r, n) <=> Finds(found, r, n) \/ Finds(sql, r, n)
    BY <1>3, <1>4, <1>7, FindingsJoin
  <2> HIDE DEF rest
  <2>3. AreFindings(all, file) /\ \A r, n : Finds(all, r, n) <=> Finds(secrets, r, n) \/ Finds(rest, r, n)
    BY <1>2, <2>2, FindingsJoin
  <2> HIDE DEF all, Secret, Parsed, Sql
  <2>4. ASSUME NEW r, NEW n
        PROVE  Finds(all, r, n) <=> file.readable /\ n \in DOMAIN file.lines /\ r \in Broken(file, n)
    <3>1. Finds(secrets, r, n) <=> r = "secret-detection" /\ n \in DOMAIN file.lines /\ Secret(n)
      BY <1>2, Zenon
    <3>2. Finds(found, r, n) <=> n \in DOMAIN file.lines /\ BreaksOn(file, r, n)
      BY <1>3, <1>7, Zenon
    <3>3. Finds(sql, r, n) <=> r = "sql-injection-heuristic" /\ n \in DOMAIN file.lines /\ Sql(n)
      BY <1>4, Zenon
    <3>4. Finds(all, r, n) <=> Finds(secrets, r, n) \/ Finds(found, r, n) \/ Finds(sql, r, n)
      BY <2>2, <2>3, Zenon
    <3>5. r \in Broken(file, n) <=> \/ r = "secret-detection" /\ Secret(n)
                                    \/ r = "sql-injection-heuristic" /\ Parsed /\ Sql(n)
                                    \/ BreaksOn(file, r, n)
      BY <1>1
    <3> QED
      BY <1>7, <3>1, <3>2, <3>3, <3>4, <3>5, Zenon
  <2> QED
    BY <2>1, <2>3, <2>4, Zenon
<1> QED
  BY <1>5, <1>6, <1>7, Zenon

(***************************************************************************)
(* Findings with one rule and place are one.                               *)
(***************************************************************************)
Fingerprints(found) == {A!fingerprint(found[i]) : i \in DOMAIN found}

\* The elements at these places, each once.
Chosen(out, seq, places) ==
    /\ Len(out) = Cardinality(places)
    /\ \A x : Holds(out, x) <=> \E i \in places : seq[i] = x
LEMMA AtChooses ==
    ASSUME NEW S, NEW seq \in Seq(S), NEW places \in SUBSET DOMAIN seq, NEW out, out = At(seq, places)[Len(seq)]
    PROVE  out \in Seq(S) /\ IsFiniteSet(places) /\ Chosen(out, seq, places)
<1>1. out \in Seq(S) /\ Taken(out, seq, places)
  BY AtPlaces
<1>2. IsFiniteSet(places) /\ Len(out) = Cardinality(places)
  BY AtCounts
<1>3. DOMAIN seq \cap places = places
  OBVIOUS
<1>4. \A x : Holds(out, x) <=> \E i \in places : seq[i] = x
  BY <1>1, <1>3, Zenon DEF Taken, Holds
<1> QED
  BY <1>1, <1>2, <1>4, Zenon DEF Chosen

\* Of each fingerprint the first finding is kept.
LEMMA DedupKeepsFirst ==
    ASSUME NEW S, NEW found \in Seq(S), NEW firsts,
           firsts = {i \in DOMAIN found : A!fingerprint(found[i])
                                             \notin {A!fingerprint(found[j]) : j \in 1 .. i - 1}}
    PROVE  /\ \A x \in Fingerprints(found) : \E i \in firsts : A!fingerprint(found[i]) = x
           /\ \A i, j \in firsts : A!fingerprint(found[i]) = A!fingerprint(found[j]) => i = j
<1> DEFINE fp(i) == A!fingerprint(found[i])
<1>1. DOMAIN found = 1 .. Len(found) /\ Len(found) \in Nat
  OBVIOUS
<1>2. \A i \in DOMAIN found : i \in firsts <=> \A j \in 1 .. i - 1 : fp(j) # fp(i)
  BY Zenon
<1> HIDE DEF fp
<1>3. ASSUME NEW x \in Fingerprints(found) PROVE \E i \in firsts : fp(i) = x
  <2> DEFINE T == {i \in DOMAIN found : fp(i) = x}
  <2>1. \E i \in DOMAIN found : fp(i) = x
    BY <1>3, Zenon DEF Fingerprints, fp
  <2>2. T \in SUBSET Nat /\ T # {}
    BY <1>1, <2>1
  <2>3. PICK first \in T : \A i \in T : first <= i
    BY <2>2, FirstPlace
  <2>4. \A j \in 1 .. first - 1 : fp(j) # fp(first)
    <3> SUFFICES ASSUME NEW j \in 1 .. first - 1, fp(j) = fp(first) PROVE FALSE
      OBVIOUS
    <3>1. first \in 1 .. Len(found) /\ fp(first) = x
      BY <1>1, <2>3
    <3>2. j \in 1 .. Len(found) /\ ~(first <= j)
      BY <1>1, <3>1
    <3>3. j \in T
      BY <1>1, <3>1, <3>2
    <3> QED
      BY <2>3, <3>2, <3>3
  <2>5. first \in DOMAIN found /\ fp(first) = x
    BY <2>3
  <2> QED
    BY <1>2, <2>4, <2>5, Zenon
<1>4. ASSUME NEW i \in firsts, NEW j \in firsts, fp(i) = fp(j) PROVE i = j
  <2>1. i \in 1 .. Len(found) /\ j \in 1 .. Len(found)
    BY <1>1
  <2>2. (\A k \in 1 .. i - 1 : fp(k) # fp(i)) /\ (\A k \in 1 .. j - 1 : fp(k) # fp(j))
    BY <1>1, <1>2, <2>1
  <2>3. CASE i < j
    <3>1. i \in 1 .. j - 1
      BY <2>1, <2>3
    <3> QED
      BY <1>4, <2>2, <3>1
  <2>4. CASE j < i
    <3>1. j \in 1 .. i - 1
      BY <2>1, <2>4
    <3> QED
      BY <1>4, <2>2, <3>1
  <2> QED
    BY <2>1, <2>3, <2>4
<1> QED
  BY <1>3, <1>4, Zenon DEF fp

LEMMA DedupParts ==
    ASSUME NEW S, NEW found \in Seq(S), NEW out, out = A!dedup(found)
    PROVE  /\ out \in Seq(S) /\ \A x : Holds(out, x) => Holds(found, x)
           /\ Fingerprints(out) = Fingerprints(found)
           /\ Cardinality(Fingerprints(out)) = Len(out)
<1> DEFINE firsts == {i \in DOMAIN found : A!fingerprint(found[i])
                                              \notin {A!fingerprint(found[j]) : j \in 1 .. i - 1}}
           fp == [i \in firsts |-> A!fingerprint(found[i])]
           T == Fingerprints(found)
<1>1. out = At(found, firsts)[Len(found)]
  BY SameAt, Zenon DEF A!dedup
<1>2. firsts \in SUBSET DOMAIN found
  OBVIOUS
<1>3. /\ \A x \in T : \E i \in firsts : A!fingerprint(found[i]) = x
      /\ \A i, j \in firsts : A!fingerprint(found[i]) = A!fingerprint(found[j]) => i = j
  BY DedupKeepsFirst
<1> HIDE DEF firsts
<1>4. out \in Seq(S) /\ IsFiniteSet(firsts) /\ Chosen(out, found, firsts)
  BY <1>1, <1>2, AtChooses
<1>5. \A i \in firsts : fp[i] = A!fingerprint(found[i]) /\ fp[i] \in T
  BY <1>2, Zenon DEF Fingerprints
<1>6. fp \in Bijection(firsts, T)
  <2>1. fp \in [firsts -> T]
    BY <1>5, Zenon
  <2>2. DOMAIN fp = firsts
    OBVIOUS
  <2> HIDE DEF fp, T
  <2>3. ASSUME NEW i \in firsts, NEW j \in firsts, fp[i] = fp[j] PROVE i = j
    <3>1. A!fingerprint(found[i]) = A!fingerprint(found[j])
      BY <1>5, <2>3, Zenon
    <3> QED
      BY <1>3, <3>1
  <2>4. \A x \in T : \E i \in firsts : fp[i] = x
    BY <1>3, <1>5, Zenon
  <2> QED
    BY <2>1, <2>2, <2>3, <2>4, Zenon DEF Bijection, Injection, Surjection, IsInjective
<1>7. Cardinality(T) = Cardinality(firsts)
  <2> HIDE DEF fp, T
  <2>1. ExistsBijection(firsts, T)
    BY <1>6, Zenon DEF ExistsBijection
  <2> QED
    BY <1>4, <2>1, FS_Bijection
<1>8. \A x : Holds(out, x) => Holds(found, x)
  BY <1>2, <1>4, Zenon DEF Chosen, Holds
<1>9. \A x : x \in Fingerprints(out) <=> x \in T
  <2> SUFFICES ASSUME NEW x PROVE x \in Fingerprints(out) <=> x \in T
    OBVIOUS
  <2>1. x \in Fingerprints(out) <=> \E f : Holds(out, f) /\ A!fingerprint(f) = x
    BY Zenon DEF Fingerprints, Holds
  <2>2. x \in T <=> \E f : Holds(found, f) /\ A!fingerprint(f) = x
    BY Zenon DEF Fingerprints, Holds
  <2>3. ASSUME x \in T PROVE \E f : Holds(out, f) /\ A!fingerprint(f) = x
    <3>1. PICK i \in firsts : A!fingerprint(found[i]) = x
      BY <1>3, <2>3, Zenon
    <3>2. Holds(out, found[i])
      BY <1>4, Zenon DEF Chosen
    <3> QED
      BY <3>1, <3>2, Zenon
  <2> QED
    BY <1>8, <2>1, <2>2, <2>3, Zenon
<1> HIDE DEF T
<1>10. Fingerprints(out) = T
  BY <1>9, Zenon
<1>11. Cardinality(Fingerprints(out)) = Len(out)
  BY <1>4, <1>7, <1>10, Zenon DEF Chosen
<1> QED
  BY <1>4, <1>8, <1>10, <1>11, Zenon DEF T

(***************************************************************************)
(* The groups of the report, and the table.                                *)
(***************************************************************************)
SameElements(s, t) == \A x : Holds(s, x) <=> Holds(t, x)

IsJoined(out, a, b, c) ==
    /\ Len(out) = Len(a) + Len(b) + Len(c)
    /\ \A x : Holds(out, x) <=> Holds(a, x) \/ Holds(b, x) \/ Holds(c, x)
LEMMA ThreeJoined ==
    ASSUME NEW S, NEW a \in Seq(S), NEW b \in Seq(S), NEW c \in Seq(S)
    PROVE  a \o b \o c \in Seq(S) /\ IsJoined(a \o b \o c, a, b, c)
<1> DEFINE ab == a \o b
           out == ab \o c
<1>1. ab \in Seq(S) /\ Len(ab) = Len(a) + Len(b)
  OBVIOUS
<1>2. Both(ab, a, b)
  BY ConcatGathers
<1> HIDE DEF ab
<1>3. out \in Seq(S) /\ Len(out) = Len(ab) + Len(c)
  <2>1. ab \in Seq(S)
    BY <1>1
  <2> QED
    BY <2>1
<1>4. Both(out, ab, c)
  BY <1>1, ConcatGathers
<1> HIDE DEF out
<1>5. \A x : Holds(out, x) <=> Holds(a, x) \/ Holds(b, x) \/ Holds(c, x)
  BY <1>2, <1>4, Zenon DEF Both, Holds
<1>6. Len(out) = Len(a) + Len(b) + Len(c)
  BY <1>1, <1>3, Zenon
<1> QED
  BY <1>3, <1>5, <1>6, Zenon DEF IsJoined, ab, out

Grave(found) == \A i \in DOMAIN found : found[i].severity \in {"critical", "high"}
OfSeverity(found, places, severity) == {i \in places : found[i].severity = severity}

LEMMA SeveritiesPart ==
    ASSUME NEW found, Grave(found), NEW places \in SUBSET DOMAIN found, IsFiniteSet(places)
    PROVE  /\ Cardinality(OfSeverity(found, places, "critical")) \in Nat
           /\ Cardinality(OfSeverity(found, places, "high")) \in Nat
           /\ Cardinality(OfSeverity(found, places, "medium")) \in Nat
           /\ Cardinality(places) = Cardinality(OfSeverity(found, places, "critical"))
                                       + Cardinality(OfSeverity(found, places, "high"))
                                       + Cardinality(OfSeverity(found, places, "medium"))
<1> DEFINE a == OfSeverity(found, places, "critical")
           b == OfSeverity(found, places, "high")
           c == OfSeverity(found, places, "medium")
<1>1. a \in SUBSET places /\ b \in SUBSET places /\ c \in SUBSET places
  BY DEF OfSeverity
<1>2. a \cap b = {} /\ a \cap c = {} /\ b \cap c = {}
  BY DEF OfSeverity
<1>3. a \cup b \cup c = places
  BY DEF OfSeverity, Grave
<1> HIDE DEF a, b, c
<1>4. /\ Cardinality(a) \in Nat /\ Cardinality(b) \in Nat /\ Cardinality(c) \in Nat
      /\ Cardinality(places) = Cardinality(a) + Cardinality(b) + Cardinality(c)
  <2>1. Parts(places, a, b, c)
    BY <1>1, <1>2, <1>3, Zenon DEF Parts
  <2>2. SumUp(places, a, b, c)
    BY <2>1, ThreeParts, Zenon
  <2> QED
    BY <2>2, Zenon DEF SumUp
<1> QED
  BY <1>4 DEF a, b, c

\* A group has the findings it is made from, each once.
LEMMA GroupGives ==
    ASSUME NEW S, NEW found \in Seq(S), Grave(found), NEW out, out = A!render_context_group(found)
    PROVE  out \in Seq(S) /\ Len(out) = Len(found) /\ SameElements(out, found)
<1> DEFINE PlacesOf(severity) == OfSeverity(found, DOMAIN found, severity)
           Of(severity) == At(found, PlacesOf(severity))[Len(found)]
           a == Of("critical")
           b == Of("high")
           c == Of("medium")
<1>1. out = a \o b \o c
  BY SameAt, Zenon DEF A!render_context_group, A!Where, OfSeverity
<1>2. ASSUME NEW severity
      PROVE  /\ Of(severity) \in Seq(S) /\ Len(Of(severity)) = Cardinality(PlacesOf(severity))
             /\ \A x : Holds(Of(severity), x) <=> \E i \in PlacesOf(severity) : found[i] = x
  <2>1. PlacesOf(severity) \in SUBSET DOMAIN found
    BY DEF OfSeverity
  <2> DEFINE part == Of(severity)
             places == PlacesOf(severity)
  <2>2. part = At(found, places)[Len(found)] /\ places \in SUBSET DOMAIN found
    BY <2>1
  <2> HIDE DEF part, places
  <2>3. part \in Seq(S) /\ Chosen(part, found, places)
    BY <2>2, AtChooses
  <2> QED
    BY <2>3, Zenon DEF Chosen, part, places
<1>3. IsFiniteSet(DOMAIN found) /\ Cardinality(DOMAIN found) = Len(found)
  BY Intervals
<1>4. /\ Cardinality(PlacesOf("critical")) \in Nat /\ Cardinality(PlacesOf("high")) \in Nat
      /\ Cardinality(PlacesOf("medium")) \in Nat
      /\ Len(found) = Cardinality(PlacesOf("critical")) + Cardinality(PlacesOf("high")) + Cardinality(PlacesOf("medium"))
  BY <1>3, SeveritiesPart
<1>5. \A i \in DOMAIN found : i \in PlacesOf("critical") \/ i \in PlacesOf("high") \/ i \in PlacesOf("medium")
  BY Zenon DEF Grave, OfSeverity
<1>6. \A severity : PlacesOf(severity) \subseteq DOMAIN found
  BY DEF OfSeverity
<1>7. /\ a \in Seq(S) /\ Len(a) = Cardinality(PlacesOf("critical"))
      /\ b \in Seq(S) /\ Len(b) = Cardinality(PlacesOf("high"))
      /\ c \in Seq(S) /\ Len(c) = Cardinality(PlacesOf("medium"))
  BY <1>2
<1>8. \A x : /\ Holds(a, x) <=> \E i \in PlacesOf("critical") : found[i] = x
             /\ Holds(b, x) <=> \E i \in PlacesOf("high") : found[i] = x
             /\ Holds(c, x) <=> \E i \in PlacesOf("medium") : found[i] = x
  BY <1>2
<1> HIDE DEF a, b, c, Of, PlacesOf
<1>9. /\ out \in Seq(S) /\ Len(out) = Len(a) + Len(b) + Len(c)
      /\ \A x : Holds(out, x) <=> Holds(a, x) \/ Holds(b, x) \/ Holds(c, x)
  <2>1. a \o b \o c \in Seq(S) /\ IsJoined(a \o b \o c, a, b, c)
    BY <1>7, ThreeJoined, Zenon
  <2> QED
    BY <1>1, <2>1, Zenon DEF IsJoined
<1>10. ASSUME NEW x PROVE Holds(out, x) <=> Holds(found, x)
  <2>1. /\ Holds(a, x) <=> \E i \in PlacesOf("critical") : found[i] = x
        /\ Holds(b, x) <=> \E i \in PlacesOf("high") : found[i] = x
        /\ Holds(c, x) <=> \E i \in PlacesOf("medium") : found[i] = x
    BY <1>8
  <2>2. Holds(out, x) <=> Holds(a, x) \/ Holds(b, x) \/ Holds(c, x)
    BY <1>9
  <2>3. Holds(found, x) <=> \E i \in DOMAIN found : found[i] = x
    BY DEF Holds
  <2> QED
    BY <1>5, <1>6, <2>1, <2>2, <2>3, Zenon
<1>11. Len(out) = Len(found)
  BY <1>4, <1>7, <1>9
<1> QED
  BY <1>9, <1>10, <1>11, Zenon DEF SameElements

LEMMA ThreeFlattened ==
    ASSUME NEW S, NEW a \in Seq(S), NEW b \in Seq(S), NEW c \in Seq(S)
    PROVE  FlattenSeq(<<a, b, c>>) \in Seq(S) /\ IsJoined(FlattenSeq(<<a, b, c>>), a, b, c)
<1> DEFINE seqs == <<a, b, c>>
<1>1. seqs \in Seq(Seq(S)) /\ Len(seqs) = 3 /\ seqs[1] = a /\ seqs[2] = b /\ seqs[3] = c
  OBVIOUS
<1> HIDE DEF seqs
<1>2. PICK f : Joined(f, seqs, S) /\ FlattenSeq(seqs) = f[3]
  BY <1>1, FlattenJoins
<1>3. f[0] = <<>> /\ f[1] = f[0] \o seqs[1] /\ f[2] = f[1] \o seqs[2] /\ f[3] = f[2] \o seqs[3]
  <2>1. 1 \in 1 .. 3 /\ 2 \in 1 .. 3 /\ 3 \in 1 .. 3 /\ 1 - 1 = 0 /\ 2 - 1 = 1 /\ 3 - 1 = 2
    OBVIOUS
  <2>2. f[0] = <<>> /\ \A n \in 1 .. 3 : f[n] = f[n - 1] \o seqs[n]
    BY <1>1, <1>2, Zenon DEF Joined
  <2>3. f[1] = f[1 - 1] \o seqs[1] /\ f[2] = f[2 - 1] \o seqs[2] /\ f[3] = f[3 - 1] \o seqs[3]
    BY <2>1, <2>2, Zenon
  <2> QED
    BY <2>1, <2>2, <2>3, Zenon
<1>4. <<>> \o a = a
  OBVIOUS
<1>5. FlattenSeq(seqs) = a \o b \o c
  BY <1>1, <1>2, <1>3, <1>4, Zenon
<1>6. a \o b \o c \in Seq(S) /\ IsJoined(a \o b \o c, a, b, c)
  BY ThreeJoined
<1> QED
  BY <1>5, <1>6, Zenon DEF seqs

\* The production code is what no name tells apart, and no directory called tests has any.
LEMMA ContextIsOne ==
    ASSUME NEW path, path.dirs \in Seq(Range(path.dirs))
    PROVE  /\ A!classify_context(path) \in {"production", "test", "fixture", "detector_definition"}
           /\ A!classify_context(path) # "production" => Telling(path)
           /\ A!classify_context(path) = "production" => \A dir \in Range(path.dirs) : dir.name # "tests"
<1> DEFINE dirs == path.dirs
           components == Append(dirs, path.file)
           parts == Range(dirs) \cup {path.file}
           fixture == \E i \in 1 .. Len(dirs) - 1 : "*tests" \in dirs[i].marks /\ dirs[i + 1].name = "fixtures"
           named == \E i \in DOMAIN dirs : dirs[i].name = "tests"
           marked == \E i \in DOMAIN components : LET marks == components[i].marks
                                                 IN "*_test.*" \in marks \/ (i > 1 /\ "test_*" \in marks)
           single == dirs # <<>> /\ path.file.name = "tests.rs"
<1>1. A!classify_context(path) = IF fixture THEN "fixture" ELSE IF path.ends # {} THEN "detector_definition"
                                 ELSE IF named \/ marked \/ single THEN "test" ELSE "production"
  BY Zenon DEF A!classify_context
<1>2. \A i \in DOMAIN dirs : dirs[i] \in Range(dirs)
  BY Zenon DEF Range
<1>3. \A i \in 1 .. Len(dirs) - 1 : i \in DOMAIN dirs
  BY <1>2
<1>4. \A i \in DOMAIN components : components[i] \in parts
  <2> SUFFICES ASSUME NEW i \in DOMAIN components PROVE components[i] \in parts
    OBVIOUS
  <2>1. dirs \in Seq(Range(dirs)) /\ DOMAIN components = 1 .. Len(dirs) + 1 /\ DOMAIN dirs = 1 .. Len(dirs)
    OBVIOUS
  <2>2. components[i] = IF i <= Len(dirs) THEN dirs[i] ELSE path.file
    BY <2>1
  <2>3. i <= Len(dirs) => i \in DOMAIN dirs
    BY <2>1
  <2> HIDE DEF components
  <2> QED
    BY <1>2, <2>2, <2>3, Zenon
<1>5. fixture => Telling(path)
  <2> SUFFICES ASSUME NEW i \in 1 .. Len(dirs) - 1, "*tests" \in dirs[i].marks PROVE Telling(path)
    BY Zenon
  <2>1. dirs[i] \in parts /\ dirs[i].marks # {}
    BY <1>2, <1>3, Zenon
  <2> QED
    BY <2>1, Zenon DEF Telling
<1>6. named => Telling(path)
  <2> SUFFICES ASSUME NEW i \in DOMAIN dirs, dirs[i].name = "tests" PROVE Telling(path)
    BY Zenon
  <2>1. dirs[i] \in parts /\ dirs[i].name \in {"tests", "tests.rs"}
    BY <1>2, Zenon
  <2> QED
    BY <2>1, Zenon DEF Telling
<1>7. marked => Telling(path)
  <2> SUFFICES ASSUME NEW i \in DOMAIN components, components[i].marks # {} PROVE Telling(path)
    BY Zenon
  <2>1. components[i] \in parts
    BY <1>4, Zenon
  <2> HIDE DEF components
  <2> QED
    BY <2>1, Zenon DEF Telling
<1>8. single => Telling(path)
  <2>1. path.file \in parts
    OBVIOUS
  <2> QED
    BY <2>1, Zenon DEF Telling
<1>9. path.ends # {} => Telling(path)
  BY Zenon DEF Telling
<1>10. (~named) => \A dir \in Range(dirs) : dir.name # "tests"
  BY Zenon DEF Range
<1> HIDE DEF fixture, named, marked, single
<1> QED
  BY <1>1, <1>5, <1>6, <1>7, <1>8, <1>9, <1>10

(***************************************************************************)
(* The findings of some contexts.                                          *)
(***************************************************************************)
AreTyped(found) == Grave(found) /\ \A i \in DOMAIN found : found[i].path.dirs \in Seq(Range(found[i].path.dirs))
OfContexts(found, contexts) == {i \in DOMAIN found : A!classify_context(found[i].path) \in contexts}

LEMMA InContextsGives ==
    ASSUME NEW S, NEW found \in Seq(S), NEW contexts, NEW out, out = A!InContexts(found, contexts)
    PROVE  /\ out \in Seq(S) /\ Chosen(out, found, OfContexts(found, contexts))
           /\ IsFiniteSet(OfContexts(found, contexts))
<1> DEFINE places == OfContexts(found, contexts)
<1>1. out = At(found, places)[Len(found)]
  BY SameAt, Zenon DEF A!InContexts, A!Where, OfContexts
<1>2. places \in SUBSET DOMAIN found
  BY DEF OfContexts
<1> HIDE DEF places
<1>3. out \in Seq(S) /\ IsFiniteSet(places) /\ Chosen(out, found, places)
  BY <1>1, <1>2, AtChooses
<1> QED
  BY <1>3 DEF places

LEMMA GroupOfContexts ==
    ASSUME NEW S, NEW found \in Seq(S), Grave(found), NEW contexts, NEW out,
           out = A!render_context_group(A!InContexts(found, contexts))
    PROVE  out \in Seq(S) /\ Chosen(out, found, OfContexts(found, contexts))
<1> DEFINE part == A!InContexts(found, contexts)
<1>1. part \in Seq(S) /\ Chosen(part, found, OfContexts(found, contexts))
  BY InContextsGives
<1>2. out = A!render_context_group(part)
  OBVIOUS
<1> HIDE DEF part
<1>3. Grave(part)
  <2> SUFFICES ASSUME NEW n \in DOMAIN part PROVE part[n].severity \in {"critical", "high"}
    BY Zenon DEF Grave
  <2>1. Holds(part, part[n])
    BY Zenon DEF Holds
  <2>2. PICK i \in OfContexts(found, contexts) : found[i] = part[n]
    BY <1>1, <2>1, Zenon DEF Chosen
  <2>3. i \in DOMAIN found
    BY Zenon DEF OfContexts
  <2> QED
    BY <2>2, <2>3, Zenon DEF Grave
<1>4. out \in Seq(S) /\ Len(out) = Len(part) /\ SameElements(out, part)
  BY <1>1, <1>2, <1>3, GroupGives
<1> QED
  BY <1>1, <1>4, Zenon DEF Chosen, SameElements

Production == {"production"}
Tests == {"test"}
Others == {"fixture", "detector_definition"}

LEMMA ContextsPart ==
    ASSUME NEW S, NEW found \in Seq(S), AreTyped(found)
    PROVE  /\ SumUp(DOMAIN found, OfContexts(found, Production), OfContexts(found, Tests), OfContexts(found, Others))
           /\ Cardinality(DOMAIN found) = Len(found)
<1> DEFINE a == OfContexts(found, Production)
           b == OfContexts(found, Tests)
           c == OfContexts(found, Others)
           all == DOMAIN found
<1>1. IsFiniteSet(all) /\ Cardinality(all) = Len(found)
  BY Intervals
<1>2. ASSUME NEW i \in all PROVE i \in a \/ i \in b \/ i \in c
  <2>1. found[i].path.dirs \in Seq(Range(found[i].path.dirs))
    BY DEF AreTyped
  <2>2. A!classify_context(found[i].path) \in {"production", "test", "fixture", "detector_definition"}
    BY <2>1, ContextIsOne, Zenon
  <2> QED
    BY <2>2 DEF OfContexts, Production, Tests, Others
<1>3. a \in SUBSET all /\ b \in SUBSET all /\ c \in SUBSET all
  BY DEF OfContexts
<1>4. a \cap b = {} /\ a \cap c = {} /\ b \cap c = {}
  BY DEF OfContexts, Production, Tests, Others
<1> HIDE DEF a, b, c, all
<1>5. a \cup b \cup c = all
  BY <1>2, <1>3
<1>6. Parts(all, a, b, c)
  BY <1>1, <1>3, <1>4, <1>5, Zenon DEF Parts
<1>7. SumUp(all, a, b, c)
  BY <1>6, ThreeParts, Zenon
<1> QED
  BY <1>1, <1>7, Zenon DEF a, b, c, all

\* The report has every finding once.
LEMMA ReportGives ==
    ASSUME NEW S, NEW found \in Seq(S), AreTyped(found), NEW report,
           report = <<A!render_context_group(A!InContexts(found, {"production"})),
                      A!render_context_group(A!InContexts(found, {"test"})),
                      A!render_context_group(A!InContexts(found, {"fixture", "detector_definition"}))>>
    PROVE  /\ FlattenSeq(report) \in Seq(S) /\ Len(FlattenSeq(report)) = Len(found)
           /\ SameElements(FlattenSeq(report), found)
           /\ Chosen(report[1], found, OfContexts(found, Production))
<1> DEFINE a == A!render_context_group(A!InContexts(found, Production))
           b == A!render_context_group(A!InContexts(found, Tests))
           c == A!render_context_group(A!InContexts(found, Others))
           all == FlattenSeq(<<a, b, c>>)
<1>1. report = <<a, b, c>>
  BY DEF Production, Tests, Others
<1>2. Grave(found)
  BY DEF AreTyped
<1>3. a \in Seq(S) /\ Chosen(a, found, OfContexts(found, Production))
  BY <1>2, GroupOfContexts
<1>4. b \in Seq(S) /\ Chosen(b, found, OfContexts(found, Tests))
  BY <1>2, GroupOfContexts
<1>5. c \in Seq(S) /\ Chosen(c, found, OfContexts(found, Others))
  BY <1>2, GroupOfContexts
<1>6. report[1] = a
  BY <1>1
<1> HIDE DEF a, b, c
<1>7. all \in Seq(S) /\ IsJoined(all, a, b, c)
  BY <1>3, <1>4, <1>5, ThreeFlattened
<1>8. FlattenSeq(report) = all
  BY <1>1
<1> HIDE DEF all
<1>9. SumUp(DOMAIN found, OfContexts(found, Production), OfContexts(found, Tests), OfContexts(found, Others))
         /\ Cardinality(DOMAIN found) = Len(found)
  BY ContextsPart
<1>10. Len(all) = Len(found)
  BY <1>3, <1>4, <1>5, <1>7, <1>9, Zenon DEF IsJoined, Chosen, SumUp
<1>11. ASSUME NEW x PROVE Holds(all, x) <=> Holds(found, x)
  <2>1. ASSUME NEW i \in DOMAIN found
        PROVE  i \in OfContexts(found, Production) \/ i \in OfContexts(found, Tests) \/ i \in OfContexts(found, Others)
    <3>1. found[i].path.dirs \in Seq(Range(found[i].path.dirs))
      BY DEF AreTyped
    <3>2. A!classify_context(found[i].path) \in {"production", "test", "fixture", "detector_definition"}
      BY <3>1, ContextIsOne, Zenon
    <3> QED
      BY <3>2 DEF OfContexts, Production, Tests, Others
  <2>2. \A contexts : OfContexts(found, contexts) \subseteq DOMAIN found
    BY DEF OfContexts
  <2>3. Holds(all, x) <=> Holds(a, x) \/ Holds(b, x) \/ Holds(c, x)
    BY <1>7, Zenon DEF IsJoined
  <2>4. /\ Holds(a, x) <=> \E i \in OfContexts(found, Production) : found[i] = x
        /\ Holds(b, x) <=> \E i \in OfContexts(found, Tests) : found[i] = x
        /\ Holds(c, x) <=> \E i \in OfContexts(found, Others) : found[i] = x
    BY <1>3, <1>4, <1>5, Zenon DEF Chosen
  <2>5. Holds(found, x) <=> \E i \in DOMAIN found : found[i] = x
    BY Zenon DEF Holds
  <2> QED
    BY <2>1, <2>2, <2>3, <2>4, <2>5, Zenon
<1> QED
  BY <1>3, <1>6, <1>7, <1>8, <1>10, <1>11, Zenon DEF SameElements

\* The row of a context adds up to its findings.
RowSum(row) == row["critical"] + row["high"] + row["medium"]
LEMMA RowAdds ==
    ASSUME NEW S, NEW found \in Seq(S), Grave(found), NEW context \in A!Contexts
    PROVE  RowSum(A!render_summary_table(found)[context]) = Cardinality(OfContexts(found, {context}))
<1> DEFINE row == A!render_summary_table(found)[context]
           places == OfContexts(found, {context})
           Cell(severity) == {i \in DOMAIN found : /\ found[i].severity = severity
                                                   /\ A!classify_context(found[i].path) = context}
<1>1. places \in SUBSET DOMAIN found /\ IsFiniteSet(places)
  BY InContextsGives DEF OfContexts
<1>2. ASSUME NEW severity PROVE Cell(severity) = OfSeverity(found, places, severity)
  BY DEF OfContexts, OfSeverity
<1>3. ASSUME NEW severity \in A!Severities PROVE row[severity] = Cardinality(OfSeverity(found, places, severity))
  <2>1. row[severity] = Len(At(found, Cell(severity))[Len(found)])
    BY SameAt, Zenon DEF A!render_summary_table, A!Where
  <2> DEFINE cell == Cell(severity)
             out == At(found, cell)[Len(found)]
  <2>2. cell \in SUBSET DOMAIN found
    OBVIOUS
  <2> HIDE DEF cell
  <2>3. Chosen(out, found, cell)
    BY <2>2, AtChooses
  <2> QED
    BY <1>2, <2>1, <2>3, Zenon DEF Chosen, cell
<1>4. "critical" \in A!Severities /\ "high" \in A!Severities /\ "medium" \in A!Severities
  BY DEF A!Severities
<1> HIDE DEF places, row, Cell
<1>5. Cardinality(places) = Cardinality(OfSeverity(found, places, "critical"))
                               + Cardinality(OfSeverity(found, places, "high"))
                               + Cardinality(OfSeverity(found, places, "medium"))
  BY <1>1, SeveritiesPart
<1>6. /\ row["critical"] = Cardinality(OfSeverity(found, places, "critical"))
      /\ row["high"] = Cardinality(OfSeverity(found, places, "high"))
      /\ row["medium"] = Cardinality(OfSeverity(found, places, "medium"))
  BY <1>3, <1>4
<1> QED
  BY <1>5, <1>6, Zenon DEF RowSum, row, places

LEMMA TableAdds ==
    ASSUME NEW S, NEW found \in Seq(S), AreTyped(found), NEW table, table = A!render_summary_table(found)
    PROVE  Len(found) = RowSum(table["production"]) + RowSum(table["test"])
                           + RowSum(table["fixture"]) + RowSum(table["detector_definition"])
<1> DEFINE a == OfContexts(found, Production)
           b == OfContexts(found, Tests)
           c == OfContexts(found, Others)
           d == OfContexts(found, {"fixture"})
           e == OfContexts(found, {"detector_definition"})
<1>1. /\ "production" \in A!Contexts /\ "test" \in A!Contexts
      /\ "fixture" \in A!Contexts /\ "detector_definition" \in A!Contexts
  BY DEF A!Contexts
<1>2. \A context \in A!Contexts : RowSum(table[context]) = Cardinality(OfContexts(found, {context}))
  BY RowAdds DEF AreTyped
<1>3. /\ RowSum(table["production"]) = Cardinality(a) /\ RowSum(table["test"]) = Cardinality(b)
      /\ RowSum(table["fixture"]) = Cardinality(d) /\ RowSum(table["detector_definition"]) = Cardinality(e)
  BY <1>1, <1>2, Zenon DEF Production, Tests
<1>4. SumUp(DOMAIN found, a, b, c) /\ Cardinality(DOMAIN found) = Len(found)
  BY ContextsPart
<1>5. IsFiniteSet(c) /\ d \in SUBSET c /\ c \ d = e
  <2>1. IsFiniteSet(c)
    BY InContextsGives
  <2>2. d \in SUBSET c /\ c \ d = e
    BY DEF OfContexts, Others
  <2> QED
    BY <2>1, <2>2
<1> HIDE DEF a, b, c, d, e
<1>6. /\ Cardinality(d) \in Nat /\ Cardinality(c \ d) \in Nat
      /\ Cardinality(c) = Cardinality(d) + Cardinality(c \ d)
  BY <1>5, TwoParts
<1>7. /\ Cardinality(d) \in Nat /\ Cardinality(e) \in Nat /\ Cardinality(c) = Cardinality(d) + Cardinality(e)
  BY <1>5, <1>6
<1>8. /\ Cardinality(a) \in Nat /\ Cardinality(b) \in Nat
      /\ Len(found) = Cardinality(a) + Cardinality(b) + Cardinality(c)
  BY <1>4, Zenon DEF SumUp
<1>9. Len(found) = Cardinality(a) + Cardinality(b) + Cardinality(d) + Cardinality(e)
  BY <1>7, <1>8
<1> QED
  BY <1>3, <1>9, Zenon

(***************************************************************************)
(* The report of an audit.                                                 *)
(***************************************************************************)
LEMMA FilePrints ==
    ASSUME NEW file, AuditFileOK(file)
    PROVE  \A x : x \in Fingerprints(A!FileFindings(file)) <=> file.readable /\ x \in Places(file)
<1> DEFINE found == A!FileFindings(file)
<1>1. AreFindings(found, file)
  BY FileFound
<1>2. \A r, n : Finds(found, r, n) <=> file.readable /\ n \in DOMAIN file.lines /\ r \in Broken(file, n)
  BY FileFound
<1> HIDE DEF found
<1> SUFFICES ASSUME NEW x PROVE x \in Fingerprints(found) <=> file.readable /\ x \in Places(file)
  BY DEF found
<1>3. ASSUME x \in Fingerprints(found) PROVE file.readable /\ x \in Places(file)
  <2>1. PICK i \in DOMAIN found : x = A!fingerprint(found[i])
    BY <1>3, Zenon DEF Fingerprints
  <2>2. found[i].path = file.path
    BY <1>1, Zenon DEF AreFindings
  <2> DEFINE r == found[i].rule
             n == found[i].line
  <2>3. x = <<r, file.path, n>>
    BY <2>1, <2>2, Zenon DEF A!fingerprint
  <2>4. Finds(found, r, n)
    BY Zenon DEF Finds
  <2> HIDE DEF r, n
  <2>5. file.readable /\ n \in DOMAIN file.lines /\ r \in Broken(file, n)
    BY <1>2, <2>4, Zenon
  <2> DEFINE here == {<<rule, file.path, n>> : rule \in Broken(file, n)}
  <2>6. x \in here
    BY <2>3, <2>5, Zenon
  <2>7. here \in {{<<rule, file.path, m>> : rule \in Broken(file, m)} : m \in DOMAIN file.lines}
    BY <2>5, Zenon
  <2> HIDE DEF here
  <2>8. x \in Places(file)
    BY <2>6, <2>7, Zenon DEF Places
  <2> QED
    BY <2>5, <2>8, Zenon
<1>4. ASSUME file.readable, x \in Places(file) PROVE x \in Fingerprints(found)
  <2>1. PICK n \in DOMAIN file.lines : x \in {<<rule, file.path, n>> : rule \in Broken(file, n)}
    BY <1>4, Zenon DEF Places
  <2>2. PICK r \in Broken(file, n) : x = <<r, file.path, n>>
    BY <2>1, Zenon
  <2>3. Finds(found, r, n)
    BY <1>2, <1>4, <2>1, <2>2, Zenon
  <2>4. PICK i \in DOMAIN found : found[i].rule = r /\ found[i].line = n
    BY <2>3, Zenon DEF Finds
  <2>5. found[i].path = file.path
    BY <1>1, Zenon DEF AreFindings
  <2>6. x = A!fingerprint(found[i])
    BY <2>2, <2>4, <2>5, Zenon DEF A!fingerprint
  <2> QED
    BY <2>6, Zenon DEF Fingerprints
<1> QED
  BY <1>3, <1>4, Zenon

WhatIsBroken(files) == UNION {Places(f) : f \in {f \in Range(files) : f.readable}}

LEMMA AllFound ==
    ASSUME NEW files, files \in Seq(Range(files)), \A file \in Range(files) : AuditFileOK(file),
           NEW raw, raw = FlattenSeq([k \in DOMAIN files |-> A!FileFindings(files[k])])
    PROVE  /\ raw \in Seq(Range(raw)) /\ AreTyped(raw)
           /\ Fingerprints(raw) = WhatIsBroken(files)
<1> DEFINE K == Len(files)
           seqs == [k \in DOMAIN files |-> A!FileFindings(files[k])]
           S == UNION {Range(seqs[k]) : k \in 1 .. K}
<1>1. K \in Nat /\ DOMAIN files = 1 .. K /\ \A k \in 1 .. K : files[k] \in Range(files)
  BY DEF Range
<1>2. DOMAIN seqs = 1 .. K /\ seqs = [k \in 1 .. K |-> seqs[k]] /\ \A k \in 1 .. K : seqs[k] = A!FileFindings(files[k])
  BY <1>1
<1>3. raw = FlattenSeq(seqs)
  OBVIOUS
<1> HIDE DEF K, seqs
<1>4. ASSUME NEW k \in 1 .. K
      PROVE  /\ AuditFileOK(files[k]) /\ AreFindings(seqs[k], files[k])
             /\ \A x : x \in Fingerprints(seqs[k]) <=> files[k].readable /\ x \in Places(files[k])
  <2>1. AuditFileOK(files[k])
    BY <1>1
  <2>2. AreFindings(A!FileFindings(files[k]), files[k])
    BY <2>1, FileFound
  <2>3. \A x : x \in Fingerprints(A!FileFindings(files[k])) <=> files[k].readable /\ x \in Places(files[k])
    BY <2>1, FilePrints
  <2>4. seqs[k] = A!FileFindings(files[k])
    BY <1>2
  <2> QED
    BY <2>1, <2>2, <2>3, <2>4, Zenon
<1>5. seqs \in Seq(Seq(S))
  <2>1. ASSUME NEW k \in 1 .. K PROVE seqs[k] \in Seq(S)
    <3>1. seqs[k] \in Seq(Range(seqs[k]))
      BY <1>4, Zenon DEF AreFindings
    <3>2. Range(seqs[k]) \subseteq S
      OBVIOUS
    <3> HIDE DEF S
    <3> QED
      BY <3>1, <3>2
  <2> HIDE DEF S
  <2>2. seqs \in [1 .. K -> Seq(S)]
    BY <1>2, <2>1
  <2> QED
    BY <1>1, <2>2, FunctionIsSeq
<1> HIDE DEF S
<1>6. raw \in Seq(S) /\ Gathered(raw, seqs)
  BY <1>3, <1>5, FlattenGathers
<1>7. raw \in Seq(Range(raw))
  BY <1>6, RangeSeq
<1>8. ASSUME NEW x PROVE Holds(raw, x) <=> \E k \in 1 .. K : Holds(seqs[k], x)
  BY <1>2, <1>6, Zenon DEF Gathered, Holds
<1>9. ASSUME NEW i \in DOMAIN raw
      PROVE  raw[i].severity \in {"critical", "high"} /\ raw[i].path.dirs \in Seq(Range(raw[i].path.dirs))
  <2>1. Holds(raw, raw[i])
    BY Zenon DEF Holds
  <2>2. PICK k \in 1 .. K : Holds(seqs[k], raw[i])
    BY <1>8, <2>1
  <2>3. PICK j \in DOMAIN seqs[k] : seqs[k][j] = raw[i]
    BY <2>2, Zenon DEF Holds
  <2>4. AuditFileOK(files[k]) /\ AreFindings(seqs[k], files[k])
    BY <1>4
  <2>5. raw[i].severity \in {"critical", "high"} /\ raw[i].path = files[k].path
    BY <2>3, <2>4, Zenon DEF AreFindings
  <2>6. files[k].path.dirs \in Seq(Range(files[k].path.dirs))
    BY <2>4, Zenon DEF AuditFileOK
  <2> QED
    BY <2>5, <2>6, Zenon
<1>10. ASSUME NEW x PROVE x \in Fingerprints(raw) <=> x \in WhatIsBroken(files)
  <2>1. x \in Fingerprints(raw) <=> \E f : Holds(raw, f) /\ x = A!fingerprint(f)
    BY Zenon DEF Fingerprints, Holds
  <2>2. ASSUME NEW k \in 1 .. K PROVE x \in Fingerprints(seqs[k]) <=> \E f : Holds(seqs[k], f) /\ x = A!fingerprint(f)
    BY Zenon DEF Fingerprints, Holds
  <2>3. x \in Fingerprints(raw) <=> \E k \in 1 .. K : x \in Fingerprints(seqs[k])
    BY <1>8, <2>1, <2>2, Zenon
  <2>4. \A k \in 1 .. K : x \in Fingerprints(seqs[k]) <=> files[k].readable /\ x \in Places(files[k])
    BY <1>4, Zenon
  <2>5. (\E k \in 1 .. K : files[k].readable /\ x \in Places(files[k])) <=> x \in WhatIsBroken(files)
    BY <1>1, Zenon DEF WhatIsBroken, Range
  <2> QED
    BY <2>3, <2>4, <2>5, Zenon
<1> QED
  BY <1>7, <1>9, <1>10, Zenon DEF AreTyped, Grave

\* The answer of an audit.
LEMMA AuditAnswered ==
    ASSUME CallInv, Answered("audit_security_measures")
    PROVE  /\ Req.project.allowed \in Seq(Range(Req.project.allowed))
           /\ \A file \in Range(Req.project.allowed) : AuditFileOK(file)
           /\ Ans = A!audit_security_measures(Req.project)
<1>1. tool = "audit_security_measures" /\ answer # <<>>
  BY DEF Answered
<1>2. tool \in DOMAIN Requests /\ Req \in Requests[tool] /\ Ans \in Respond(Req)
  BY <1>1 DEF CallInv
<1>3. /\ Req.project.allowed \in Seq(Range(Req.project.allowed))
      /\ \A file \in Range(Req.project.allowed) : AuditFileOK(file)
  BY <1>1, <1>2, AuditAssumption
<1>4. Ans = A!audit_security_measures(Req.project)
  BY <1>1, <1>2 DEF Respond
<1> QED
  BY <1>3, <1>4

\* The audit accounts for every finding: the report has what is broken in the files, each
\* once, the table adds up to it, and the production group leaves nothing of it out but by
\* what the components or the end of its path are called, and has nothing of a directory
\* called tests (audit_security_measures, classify_context, tools/audit.rs).
THEOREM AuditTells == Spec => []AuditAccounts
<1>1. CallInv => AuditAccounts
  <2> SUFFICES ASSUME CallInv, Answered("audit_security_measures") PROVE AuditAccounts
    BY DEF AuditAccounts
  <2> DEFINE files == Req.project.allowed
             raw == FlattenSeq([k \in DOMAIN files |-> A!FileFindings(files[k])])
             found == A!dedup(raw)
             all == FlattenSeq(Ans.report)
             table == A!render_summary_table(found)
             risk == A!InContexts(found, Production)
             S == Range(raw)
  <2>1. /\ files \in Seq(Range(files)) /\ \A file \in Range(files) : AuditFileOK(file)
        /\ Ans = A!audit_security_measures(Req.project)
    BY AuditAnswered
  <2>2. A!FlattenSeq([k \in DOMAIN files |-> A!FileFindings(files[k])]) = raw
    BY SameFlattenSeq, Zenon
  <2>3. /\ Ans.report = <<A!render_context_group(A!InContexts(found, {"production"})),
                          A!render_context_group(A!InContexts(found, {"test"})),
                          A!render_context_group(A!InContexts(found, {"fixture", "detector_definition"}))>>
        /\ Ans.summary = A!render_json_summary(Req.project, found, Len(raw) - Len(found))
    <3> HIDE DEF raw, found
    <3> QED
      BY <2>1, <2>2 DEF A!audit_security_measures, found
  <2>4. /\ Ans.summary.findings_before_dedup = Len(found) + (Len(raw) - Len(found))
        /\ Ans.summary.duplicates_removed = Len(raw) - Len(found)
        /\ Ans.summary.findings_total = Len(found)
        /\ Ans.summary.by_context = table
        /\ Ans.summary.production_risk = risk
    <3> HIDE DEF raw, found
    <3> QED
      BY <2>3 DEF A!render_json_summary, Production
  <2>5. raw \in Seq(S) /\ AreTyped(raw) /\ Fingerprints(raw) = WhatIsBroken(files)
    <3> HIDE DEF files
    <3> QED
      BY <2>1, AllFound
  <2> HIDE DEF raw
  <2>6. /\ found \in Seq(S) /\ \A x : Holds(found, x) => Holds(raw, x)
        /\ Fingerprints(found) = Fingerprints(raw) /\ Cardinality(Fingerprints(found)) = Len(found)
    BY <2>5, DedupParts
  <2> HIDE DEF found, S
  <2>7. AreTyped(found)
    <3> SUFFICES ASSUME NEW i \in DOMAIN found
                 PROVE  found[i].severity \in {"critical", "high"} /\ found[i].path.dirs \in Seq(Range(found[i].path.dirs))
      BY Zenon DEF AreTyped, Grave
    <3>1. Holds(found, found[i])
      BY Zenon DEF Holds
    <3>2. PICK j \in DOMAIN raw : raw[j] = found[i]
      BY <2>6, <3>1, Zenon DEF Holds
    <3> QED
      BY <2>5, <3>2, Zenon DEF AreTyped, Grave
  <2>8. /\ all \in Seq(S) /\ Len(all) = Len(found) /\ SameElements(all, found)
        /\ Chosen(Ans.report[1], found, OfContexts(found, Production))
    BY <2>3, <2>6, <2>7, ReportGives
  <2>9. Len(found) = RowSum(table["production"]) + RowSum(table["test"])
                        + RowSum(table["fixture"]) + RowSum(table["detector_definition"])
    BY <2>6, <2>7, TableAdds
  <2>10. Chosen(risk, found, OfContexts(found, Production))
    BY <2>6, InContextsGives
  <2> DEFINE prints == {A!fingerprint(f) : f \in Range(all)}
  <2>11. prints = Fingerprints(found)
    <3>1. \A f : f \in Range(all) <=> Holds(all, f)
      BY Zenon DEF Range, Holds
    <3>2. \A f : Holds(all, f) <=> Holds(found, f)
      BY <2>8, Zenon DEF SameElements
    <3>3. ASSUME NEW x PROVE x \in prints <=> x \in Fingerprints(found)
      <4>1. x \in prints <=> \E f : Holds(found, f) /\ x = A!fingerprint(f)
        BY <3>1, <3>2, Zenon
      <4>2. x \in Fingerprints(found) <=> \E f : Holds(found, f) /\ x = A!fingerprint(f)
        BY Zenon DEF Fingerprints, Holds
      <4> QED
        BY <4>1, <4>2, Zenon
    <3> HIDE DEF prints
    <3> QED
      BY <3>3, Zenon
  <2>12. \A f : f \in Range(Ans.report[1]) <=> f \in Range(risk)
    BY <2>8, <2>10, Zenon DEF Chosen, Range, Holds
  <2>13. ASSUME NEW f \in Range(all)
         PROVE  f \in Range(risk) \/ Telling(f.path)
    <3>1. Holds(all, f)
      BY Zenon DEF Range, Holds
    <3>2. PICK i \in DOMAIN found : found[i] = f
      BY <2>8, <3>1, Zenon DEF SameElements, Holds
    <3>3. f.path.dirs \in Seq(Range(f.path.dirs))
      BY <2>7, <3>2, Zenon DEF AreTyped
    <3>4. CASE A!classify_context(f.path) = "production"
      <4>1. i \in OfContexts(found, Production)
        BY <3>2, <3>4 DEF OfContexts, Production
      <4>2. Holds(risk, f)
        BY <2>10, <3>2, <4>1, Zenon DEF Chosen
      <4> QED
        BY <4>2, Zenon DEF Range, Holds
    <3>5. CASE A!classify_context(f.path) # "production"
      BY <3>3, <3>5, ContextIsOne, Zenon
    <3> QED
      BY <3>4, <3>5
  <2>14. ASSUME NEW f \in Range(risk), NEW dir \in Range(f.path.dirs) PROVE dir.name # "tests"
    <3>1. Holds(risk, f)
      BY Zenon DEF Range, Holds
    <3>2. PICK i \in OfContexts(found, Production) : found[i] = f
      BY <2>10, <3>1, Zenon DEF Chosen
    <3>3. i \in DOMAIN found /\ A!classify_context(f.path) = "production"
      BY <3>2 DEF OfContexts, Production
    <3>4. f.path.dirs \in Seq(Range(f.path.dirs))
      BY <2>7, <3>2, <3>3, Zenon DEF AreTyped
    <3> QED
      BY <3>3, <3>4, ContextIsOne, Zenon
  <2>15. Len(found) \in Nat /\ Len(raw) \in Nat
    BY <2>5, <2>6
  <2> HIDE DEF all, table, risk, prints, files
  <2>16. prints = UNION {Places(f) : f \in {f \in Range(files) : f.readable}}
    BY <2>5, <2>6, <2>11, Zenon DEF WhatIsBroken
  <2>17. Cardinality(prints) = Len(all)
    BY <2>6, <2>8, <2>11, Zenon
  <2>18. Ans.summary.findings_before_dedup = Len(all) + Ans.summary.duplicates_removed
    BY <2>4, <2>8, Zenon
  <2>19. Len(all) = RowSum(table["production"]) + RowSum(table["test"])
                        + RowSum(table["fixture"]) + RowSum(table["detector_definition"])
    BY <2>8, <2>9, Zenon
  <2>20. Range(risk) = Range(Ans.report[1])
    <3> DEFINE U == Range(risk)
               V == Range(Ans.report[1])
    <3>1. \A f : f \in V <=> f \in U
      BY <2>12
    <3> HIDE DEF U, V
    <3>2. U = V
      BY <3>1
    <3> QED
      BY <3>2 DEF U, V
  <2> QED
    BY <2>4, <2>8, <2>13, <2>14, <2>16, <2>17, <2>18, <2>19, <2>20, Zenon
       DEF AuditAccounts, RowSum, all, prints, files, risk
<1> QED
  BY <1>1, CallInit, CallNext, PTL DEF Spec

(***************************************************************************)
(* Counting by a key.                                                      *)
(***************************************************************************)
\* The recursive function that TotalOf is defined with.
Sums(g, counts) ==
    g = [s \in SUBSET DOMAIN counts |-> IF s = {} THEN 0
                                        ELSE LET x == CHOOSE x \in s : TRUE IN g[s \ {x}] + counts[x]]

LEMMA TotalSums ==
    ASSUME NEW counts, NEW g, Sums(g, counts)
    PROVE  \E h : Sums(h, counts) /\ TotalOf(counts) = h[DOMAIN counts]
<1> DEFINE Body(h) == [s \in SUBSET DOMAIN counts |->
                          IF s = {} THEN 0 ELSE h[s \ {CHOOSE x \in s : TRUE}] + counts[CHOOSE x \in s : TRUE]]
           h0 == CHOOSE h : h = Body(h)
<1>1. TotalOf(counts) = h0[DOMAIN counts]
  BY DEF TotalOf, Total, FoldSet, MapThenFoldSet
<1>2. g = Body(g)
  BY DEF Sums
<1> HIDE DEF Body
<1>3. h0 = Body(h0)
  BY <1>2, Zenon
<1>4. Sums(h0, counts)
  BY <1>3, Zenon DEF Body, Sums
<1> QED
  BY <1>1, <1>4

\* How often each key is, where of[i] is the key of i.
Tallies(counts, N, of) ==
    /\ DOMAIN counts = {of[i] : i \in 1 .. N}
    /\ \A x \in DOMAIN counts : counts[x] = Cardinality({i \in 1 .. N : of[i] = x})

LEMMA TalliesAdd ==
    ASSUME NEW N \in Nat, NEW of, NEW counts, Tallies(counts, N, of)
    PROVE  TotalOf(counts) = N
<1> DEFINE K == DOMAIN counts
           In(s) == {i \in 1 .. N : of[i] \in s}
           g == [s \in SUBSET K |-> Cardinality(In(s))]
           pick(s) == CHOOSE x \in s : TRUE
<1>1. IsFiniteSet(1 .. N) /\ Cardinality(1 .. N) = N
  BY Intervals
<1>2. ASSUME NEW s \in SUBSET K, s # {}
      PROVE  /\ pick(s) \in s /\ s \ {pick(s)} \in SUBSET K
             /\ Cardinality(In(s)) = Cardinality(In(s \ {pick(s)})) + counts[pick(s)]
             /\ Cardinality(In(s)) \in Nat
  <2> DEFINE x == pick(s)
  <2>1. x \in s
    BY <1>2
  <2> HIDE DEF x
  <2>2. counts[x] = Cardinality({i \in 1 .. N : of[i] = x})
    BY <2>1 DEF Tallies
  <2>3. In(s \ {x}) \in SUBSET In(s) /\ In(s) \ In(s \ {x}) = {i \in 1 .. N : of[i] = x} /\ In(s) \in SUBSET (1 .. N)
    BY <2>1
  <2> HIDE DEF In
  <2>4. IsFiniteSet(In(s)) /\ Cardinality(In(s)) \in Nat
    BY <1>1, <2>3, TwoParts
  <2>5. Cardinality(In(s)) = Cardinality(In(s \ {x})) + Cardinality(In(s) \ In(s \ {x}))
    BY <2>3, <2>4, TwoParts
  <2> QED
    BY <2>1, <2>2, <2>3, <2>4, <2>5 DEF x
<1>3. Cardinality(In({})) = 0
  <2>1. In({}) = {}
    OBVIOUS
  <2> QED
    BY <2>1, FS_EmptySet, Zenon
<1>4. In(K) = 1 .. N
  BY DEF Tallies
<1> HIDE DEF In, pick
<1>5. Sums(g, counts)
  <2>1. ASSUME NEW s \in SUBSET K
        PROVE  Cardinality(In(s)) = IF s = {} THEN 0 ELSE g[s \ {pick(s)}] + counts[pick(s)]
    <3>1. CASE s = {}
      BY <1>3, <3>1
    <3>2. CASE s # {}
      <4>1. g[s \ {pick(s)}] = Cardinality(In(s \ {pick(s)}))
        BY <1>2, <3>2
      <4> HIDE DEF g, K
      <4> QED
        BY <1>2, <3>2, <4>1
    <3> QED
      BY <3>1, <3>2
  <2>2. g = [s \in SUBSET K |-> IF s = {} THEN 0 ELSE g[s \ {pick(s)}] + counts[pick(s)]]
    BY <2>1
  <2> HIDE DEF g
  <2> QED
    BY <2>2 DEF Sums, pick
<1> HIDE DEF g
<1>6. PICK h : Sums(h, counts) /\ TotalOf(counts) = h[K]
  BY <1>5, TotalSums
<1>7. \A s \in SUBSET K : h[s] = IF s = {} THEN 0 ELSE h[s \ {pick(s)}] + counts[pick(s)]
  <2>1. h = [s \in SUBSET K |-> IF s = {} THEN 0 ELSE h[s \ {pick(s)}] + counts[pick(s)]]
    BY <1>6 DEF Sums, pick
  <2> DEFINE G == [s \in SUBSET K |-> IF s = {} THEN 0 ELSE h[s \ {pick(s)}] + counts[pick(s)]]
  <2>2. \A s \in SUBSET K : G[s] = IF s = {} THEN 0 ELSE h[s \ {pick(s)}] + counts[pick(s)]
    OBVIOUS
  <2>3. h = G
    BY <2>1
  <2> HIDE DEF G
  <2> QED
    BY <2>2, <2>3, Zenon
<1>8. IsFiniteSet(K)
  <2>1. K = {of[i] : i \in 1 .. N}
    BY DEF Tallies
  <2> DEFINE f == [i \in 1 .. N |-> of[i]]
  <2>2. f \in Surjection(1 .. N, K)
    BY <2>1 DEF Surjection
  <2> HIDE DEF f
  <2> QED
    BY <1>1, <2>2, FS_Surjection
<1> DEFINE Right == {n \in 0 .. Cardinality(K) : \A s \in SUBSET K : Cardinality(s) = n => h[s] = Cardinality(In(s))}
<1>9. Cardinality(K) \in Nat
  BY <1>8, FS_CardinalityType
<1>10. 0 \in Right
  <2>1. ASSUME NEW s \in SUBSET K, Cardinality(s) = 0 PROVE h[s] = Cardinality(In(s))
    <3>1. s = {}
      <4>1. IsFiniteSet(s)
        BY <1>8, FS_Subset
      <4> QED
        BY <2>1, <4>1, FS_EmptySet
    <3> QED
      BY <1>3, <1>7, <3>1
  <2> QED
    BY <1>9, <2>1
<1>11. ASSUME NEW n \in 1 .. Cardinality(K), n - 1 \in Right PROVE n \in Right
  <2>1. ASSUME NEW s \in SUBSET K, Cardinality(s) = n PROVE h[s] = Cardinality(In(s))
    <3>1. IsFiniteSet(s) /\ n \in Nat /\ n # 0
      BY <1>8, <1>9, FS_Subset
    <3>2. s # {}
      BY <2>1, <3>1, FS_EmptySet
    <3>3. pick(s) \in s /\ s \ {pick(s)} \in SUBSET K
      BY <1>2, <3>2
    <3>4. Cardinality(s \ {pick(s)}) = n - 1
      BY <2>1, <3>1, <3>3, FS_RemoveElement
    <3>5. h[s \ {pick(s)}] = Cardinality(In(s \ {pick(s)}))
      BY <1>11, <3>3, <3>4
    <3>6. h[s] = h[s \ {pick(s)}] + counts[pick(s)]
      BY <1>7, <3>2
    <3> QED
      BY <1>2, <3>2, <3>5, <3>6, Zenon
  <2>2. n \in 0 .. Cardinality(K)
    BY <1>9
  <2> QED
    BY <2>1, <2>2
<1>12. 0 .. Cardinality(K) \subseteq Right
  <2> HIDE DEF Right, K
  <2> QED
    BY <1>9, <1>10, <1>11, Stepwise
<1>13. h[K] = Cardinality(In(K))
  <2>1. Cardinality(K) \in Right
    BY <1>9, <1>12
  <2> QED
    BY <2>1
<1> QED
  BY <1>1, <1>4, <1>6, <1>13, Zenon

(***************************************************************************)
(* Keys of several numbers, by the first in which they differ.             *)
(***************************************************************************)
KeyLess(k, l) == \E n \in DOMAIN k : k[n] < l[n] /\ \A o \in 1 .. n - 1 : k[o] = l[o]

LEMMA KeysOrder ==
    ASSUME NEW N \in Nat
    PROVE  /\ \A k \in [1 .. N -> Int] : ~KeyLess(k, k)
           /\ \A k, l, m \in [1 .. N -> Int] : KeyLess(k, l) /\ KeyLess(l, m) => KeyLess(k, m)
           /\ \A k, l \in [1 .. N -> Int] : k = l \/ KeyLess(k, l) \/ KeyLess(l, k)
<1>1. ASSUME NEW k \in [1 .. N -> Int] PROVE ~KeyLess(k, k)
  BY DEF KeyLess
<1>2. ASSUME NEW k \in [1 .. N -> Int], NEW l \in [1 .. N -> Int], NEW m \in [1 .. N -> Int],
             KeyLess(k, l), KeyLess(l, m)
      PROVE  KeyLess(k, m)
  <2>1. PICK a \in 1 .. N : k[a] < l[a] /\ \A o \in 1 .. a - 1 : k[o] = l[o]
    BY <1>2 DEF KeyLess
  <2>2. PICK b \in 1 .. N : l[b] < m[b] /\ \A o \in 1 .. b - 1 : l[o] = m[o]
    BY <1>2 DEF KeyLess
  <2> DEFINE n == IF a < b THEN a ELSE b
  <2>3. n \in 1 .. N /\ 1 .. n - 1 \subseteq 1 .. a - 1 /\ 1 .. n - 1 \subseteq 1 .. b - 1
    OBVIOUS
  <2>4. \A o \in 1 .. n - 1 : k[o] = m[o]
    <3> HIDE DEF n
    <3> QED
      BY <2>1, <2>2, <2>3
  <2>5. k[n] < m[n]
    <3>1. /\ k[a] \in Int /\ l[a] \in Int /\ m[a] \in Int /\ k[b] \in Int /\ l[b] \in Int /\ m[b] \in Int
          /\ a \in Int /\ b \in Int
      OBVIOUS
    <3>2. CASE a < b
      <4>1. a \in 1 .. b - 1 /\ n = a
        BY <3>2
      <4> QED
        BY <2>1, <2>2, <4>1
    <3>3. CASE a = b
      BY <2>1, <2>2, <3>1, <3>3
    <3>4. CASE b < a
      <4>1. b \in 1 .. a - 1 /\ n = b
        BY <3>4
      <4> QED
        BY <2>1, <2>2, <4>1
    <3> QED
      BY <3>1, <3>2, <3>3, <3>4
  <2> HIDE DEF n
  <2> QED
    BY <2>3, <2>4, <2>5 DEF KeyLess
<1>3. ASSUME NEW k \in [1 .. N -> Int], NEW l \in [1 .. N -> Int], k # l
      PROVE  KeyLess(k, l) \/ KeyLess(l, k)
  <2> DEFINE differ == {n \in 1 .. N : k[n] # l[n]}
  <2>1. differ # {} /\ differ \in SUBSET Nat
    BY <1>3
  <2> HIDE DEF differ
  <2>2. PICK n \in differ : \A o \in differ : n <= o
    BY <2>1, FirstPlace
  <2>3. n \in 1 .. N /\ k[n] # l[n]
    BY <2>2 DEF differ
  <2>4. \A o \in 1 .. n - 1 : k[o] = l[o]
    BY <2>2, <2>3 DEF differ
  <2>5. k[n] < l[n] \/ l[n] < k[n]
    BY <2>3
  <2> QED
    BY <2>3, <2>4, <2>5 DEF KeyLess
<1> QED
  BY <1>1, <1>2, <1>3

\* The places by their keys, and by themselves where those are the same.
LEMMA KeysPermute ==
    ASSUME NEW S, NEW seq \in Seq(S), NEW N \in Nat, NEW key \in [DOMAIN seq -> [1 .. N -> Int]],
           NEW below \in [DOMAIN seq -> SUBSET DOMAIN seq],
           \A j, i \in DOMAIN seq : j \in below[i] <=> (KeyLess(key[j], key[i]) \/ (key[j] = key[i] /\ j < i)),
           NEW out, out = [n \in DOMAIN seq |-> seq[CHOOSE i \in DOMAIN seq : Cardinality(below[i]) = n - 1]]
    PROVE  Permuted(out, seq, S) /\ OrderedBy(out, seq, below)
<1> DEFINE Before(j, i) == \/ KeyLess(key[j], key[i])
                           \/ key[j] = key[i] /\ j < i
<1>1. DOMAIN seq \subseteq Nat
  OBVIOUS
<1>2. \A x \in DOMAIN seq : key[x] \in [1 .. N -> Int]
  OBVIOUS
<1>3. below \in [DOMAIN seq -> SUBSET DOMAIN seq]
  OBVIOUS
<1>4. \A x, y \in DOMAIN seq : x \in below[y] <=> Before(x, y)
  OBVIOUS
<1>5. ASSUME NEW x \in DOMAIN seq PROVE ~Before(x, x)
  BY <1>1, <1>2, KeysOrder
<1>6. ASSUME NEW x \in DOMAIN seq, NEW y \in DOMAIN seq, NEW z \in DOMAIN seq, Before(x, y), Before(y, z)
      PROVE  Before(x, z)
  <2>1. key[x] \in [1 .. N -> Int] /\ key[y] \in [1 .. N -> Int] /\ key[z] \in [1 .. N -> Int]
    BY <1>2
  <2>2. KeyLess(key[x], key[y]) /\ KeyLess(key[y], key[z]) => KeyLess(key[x], key[z])
    BY <2>1, KeysOrder
  <2> QED
    BY <1>1, <1>6, <2>2
<1>7. ASSUME NEW x \in DOMAIN seq, NEW y \in DOMAIN seq PROVE x = y \/ Before(x, y) \/ Before(y, x)
  <2>1. key[x] \in [1 .. N -> Int] /\ key[y] \in [1 .. N -> Int]
    BY <1>2
  <2>2. key[x] = key[y] \/ KeyLess(key[x], key[y]) \/ KeyLess(key[y], key[x])
    BY <2>1, KeysOrder
  <2> QED
    BY <1>1, <2>2
<1> HIDE DEF Before
<1>8. \A x \in DOMAIN seq : x \notin below[x]
  BY <1>4, <1>5
<1>9. \A x, y \in DOMAIN seq : x \in below[y] => below[x] \subseteq below[y]
  BY <1>3, <1>4, <1>6
<1>10. \A x, y \in DOMAIN seq : x = y \/ x \in below[y] \/ y \in below[x]
  BY <1>4, <1>7
<1> QED
  BY <1>3, <1>8, <1>9, <1>10, PlacesPermute

(***************************************************************************)
(* Design patterns.                                                        *)
(***************************************************************************)
Patterns == Range(F!PatternNames)
MatchesIn(files) == [pattern : Patterns, line : Nat, file : {f.rank : f \in files}]
IsParsed(a) ==
    /\ a.functions \in Seq(Range(a.functions)) /\ a.types \in Seq(Range(a.types))
    /\ \A s \in Range(a.functions) \cup Range(a.types) : s.first \in Nat

LEMMA InfoKeepsFirst == \A node, language : F!FunctionInfo(node, language).first = node.first
  BY DEF F!FunctionInfo

LEMMA FileIsParsed == ASSUME NEW file, PatternFileOK(file) PROVE IsParsed(F!analyze_file(file))
<1> DEFINE Info(node) == F!FunctionInfo(node, file.language)
           infos == [i \in DOMAIN file.functions |-> Info(file.functions[i])]
           a == F!analyze_file(file)
           none == <<>>
<1>1. none \in Seq(Range(none)) /\ Range(none) = {}
  BY DEF Range
<1>2. infos \in Seq(Range(infos)) /\ \A s \in Range(infos) : s.first \in Nat
  <2>1. file.functions \in Seq(Range(file.functions)) /\ \A s \in Range(file.functions) : s.first \in Nat
    BY DEF PatternFileOK
  <2>2. \A i \in DOMAIN file.functions : Info(file.functions[i]).first \in Nat
    <3>1. \A i \in DOMAIN file.functions : file.functions[i].first \in Nat
      BY <2>1 DEF Range
    <3> QED
      BY <3>1, InfoKeepsFirst
  <2> HIDE DEF Info
  <2>3. infos \in Seq(Range(infos))
    <3>1. DOMAIN file.functions = 1 .. Len(file.functions) /\ Len(file.functions) \in Nat
      BY <2>1
    <3> QED
      BY <3>1 DEF Range
  <2>4. \A s \in Range(infos) : s.first \in Nat
    BY <2>2 DEF Range
  <2> QED
    BY <2>3, <2>4
<1>3. \/ a.functions = none /\ a.types = none
      \/ a.functions = infos /\ a.types = file.types
  <2>1. CASE ~file.readable
    <3>1. a = [language |-> "", functions |-> none, types |-> none]
      BY <2>1 DEF F!analyze_file
    <3> HIDE DEF a, none
    <3> QED
      BY <3>1
  <2>2. CASE file.readable /\ file.language \in {"unknown", "scss"}
    <3>1. a = [language |-> file.language, functions |-> none, types |-> none]
      BY <2>2 DEF F!analyze_file
    <3> HIDE DEF a, none
    <3> QED
      BY <3>1
  <2>3. CASE file.readable /\ file.language \notin {"unknown", "scss"}
    <3>1. a = [language |-> file.language, types |-> file.types, functions |-> infos]
      BY <2>3, Zenon DEF F!analyze_file, F!Mapped
    <3> HIDE DEF infos, a, none
    <3> QED
      BY <3>1
  <2> QED
    BY <2>1, <2>2, <2>3
<1>4. file.types \in Seq(Range(file.types)) /\ \A s \in Range(file.types) : s.first \in Nat
  BY DEF PatternFileOK
<1> HIDE DEF a, infos, none
<1> QED
  BY <1>1, <1>2, <1>3, <1>4 DEF IsParsed, a

\* The line of the first that passes a test.
LEMMA LineOfFirst ==
    ASSUME NEW symbols, symbols \in Seq(Range(symbols)), \A s \in Range(symbols) : s.first \in Nat, NEW places
    PROVE  LET kept == F!At(symbols, places)[Len(symbols)]
           IN (IF kept = <<>> THEN 0 ELSE kept[1].first) \in Nat
<1> DEFINE kept == F!At(symbols, places)[Len(symbols)]
<1>1. kept \in Seq(Range(symbols))
  BY AtPlacesOfF
<1> HIDE DEF kept
<1>2. kept # <<>> => kept[1] \in Range(symbols)
  BY <1>1
<1> QED
  BY <1>2 DEF kept

LEMMA MatchIsSeq ==
    ASSUME NEW pattern \in Patterns, NEW held, NEW line \in Nat
    PROVE  (IF held THEN <<[pattern |-> pattern, line |-> line]>> ELSE <<>>) \in Seq([pattern : Patterns, line : Nat])
<1> DEFINE found == [pattern |-> pattern, line |-> line]
           M0 == [pattern : Patterns, line : Nat]
<1>1. found \in M0
  OBVIOUS
<1> HIDE DEF found, M0
<1>2. <<found>> \in Seq(M0) /\ <<>> \in Seq(M0)
  BY <1>1
<1>3. (IF held THEN <<found>> ELSE <<>>) \in Seq(M0)
  BY <1>2
<1> QED
  BY <1>3, Zenon DEF found, M0

LEMMA SixJoined ==
    ASSUME NEW S, NEW a \in Seq(S), NEW b \in Seq(S), NEW c \in Seq(S), NEW d \in Seq(S), NEW e \in Seq(S), NEW f \in Seq(S)
    PROVE  a \o b \o c \o d \o e \o f \in Seq(S)
<1>1. \A s, t \in Seq(S) : s \o t \in Seq(S)
  OBVIOUS
<1> QED
  BY <1>1, Zenon

LEMMA PatternsDetected ==
    ASSUME NEW a, IsParsed(a)
    PROVE  F!detect_patterns(a) \in Seq([pattern : Patterns, line : Nat])
<1> DEFINE M0 == [pattern : Patterns, line : Nat]
           With0(role) == F!At(a.functions, {i \in DOMAIN a.functions : role \in a.functions[i].roles})[Len(a.functions)]
           Marked(mark) == F!At(a.types, {i \in DOMAIN a.types : mark \in a.types[i].marks})[Len(a.types)]
           Line(seq) == IF seq = <<>> THEN 0 ELSE seq[1].first
           Match(pattern, held, line) == IF held THEN <<[pattern |-> pattern, line |-> line]>> ELSE <<>>
           Has(role) == With0(role) # <<>>
           singleton == Has("instance")
           builder == Len(With0("with_")) >= 2 /\ Has("build")
           factory == Marked("factory") # <<>> \/ Len(With0("create_")) >= 2
           observer == Has("subscribe") /\ Has("notify")
           repository == Has("find_") /\ Has("save") /\ Has("delete")
           strategy == Marked("strategy") # <<>>
           first == Line(With0("instance"))
           second == Line(With0("with_"))
           last == Line(Marked("strategy"))
<1>1. F!detect_patterns(a) =
         Match("Singleton", singleton, first) \o Match("Builder", builder, second)
         \o Match("Factory", factory, 0) \o Match("Observer", observer, 0)
         \o Match("Repository", repository, 0) \o Match("Strategy", strategy, last)
  BY Zenon DEF F!detect_patterns, F!Where
<1>2. first \in Nat /\ second \in Nat /\ last \in Nat /\ 0 \in Nat
  <2>1. \A role : Line(With0(role)) \in Nat
    BY LineOfFirst DEF IsParsed
  <2>2. \A mark : Line(Marked(mark)) \in Nat
    BY LineOfFirst DEF IsParsed
  <2> HIDE DEF Line, With0, Marked
  <2> QED
    BY <2>1, <2>2
<1>3. {"Singleton", "Builder", "Factory", "Observer", "Repository", "Strategy"} \subseteq Patterns
  BY DEF Patterns, F!PatternNames, Range
<1> HIDE DEF singleton, builder, factory, observer, repository, strategy, first, second, last, M0
<1>4. /\ Match("Singleton", singleton, first) \in Seq(M0) /\ Match("Builder", builder, second) \in Seq(M0)
      /\ Match("Factory", factory, 0) \in Seq(M0) /\ Match("Observer", observer, 0) \in Seq(M0)
      /\ Match("Repository", repository, 0) \in Seq(M0) /\ Match("Strategy", strategy, last) \in Seq(M0)
  BY <1>2, <1>3, MatchIsSeq DEF M0
<1> DEFINE m1 == Match("Singleton", singleton, first)
           m2 == Match("Builder", builder, second)
           m3 == Match("Factory", factory, 0)
           m4 == Match("Observer", observer, 0)
           m5 == Match("Repository", repository, 0)
           m6 == Match("Strategy", strategy, last)
<1>5. F!detect_patterns(a) = m1 \o m2 \o m3 \o m4 \o m5 \o m6
  BY <1>1, Zenon
<1>6. /\ m1 \in Seq(M0) /\ m2 \in Seq(M0) /\ m3 \in Seq(M0)
      /\ m4 \in Seq(M0) /\ m5 \in Seq(M0) /\ m6 \in Seq(M0)
  BY <1>4
<1> HIDE DEF Match, m1, m2, m3, m4, m5, m6
<1>7. m1 \o m2 \o m3 \o m4 \o m5 \o m6 \in Seq(M0)
  BY <1>6, SixJoined
<1> QED
  BY <1>5, <1>7, Zenon DEF M0

\* How many elements the first max of a sequence are, and that they are its own.
LEMMA FirstOfSeq ==
    ASSUME NEW S, NEW seq \in Seq(S), NEW max \in Nat,
           NEW some, some = SubSeq(seq, 1, IF max < Len(seq) THEN max ELSE Len(seq))
    PROVE  /\ some \in Seq(S) /\ Len(some) = IF max < Len(seq) THEN max ELSE Len(seq)
           /\ \A i \in DOMAIN some : i \in DOMAIN seq /\ some[i] = seq[i]
<1> DEFINE n == IF max < Len(seq) THEN max ELSE Len(seq)
<1>1. Len(seq) \in Nat /\ n \in Nat /\ n <= Len(seq) /\ 1 \in Nat \ {0} /\ 1 <= n + 1 /\ n - 1 + 1 = n
      /\ \A i \in 1 .. n : 1 + i - 1 = i
  OBVIOUS
<1>2. some = SubSeq(seq, 1, n)
  OBVIOUS
<1> HIDE DEF n
<1>3. some \in Seq(S) /\ Len(some) = n - 1 + 1 /\ \A i \in 1 .. n - 1 + 1 : some[i] = seq[1 + i - 1]
  BY <1>1, <1>2, SubSeqParts
<1>4. some \in Seq(S) /\ Len(some) = n /\ \A i \in 1 .. n : some[i] = seq[i]
  BY <1>1, <1>3
<1>5. DOMAIN some = 1 .. n /\ DOMAIN seq = 1 .. Len(seq)
  BY <1>4
<1>6. \A i \in DOMAIN some : i \in DOMAIN seq /\ some[i] = seq[i]
  <2>1. 1 .. n \subseteq 1 .. Len(seq)
    BY <1>1
  <2> QED
    BY <1>4, <1>5, <2>1, Zenon
<1> QED
  BY <1>4, <1>6 DEF n

\* The matches of the first files, none of a file that may not be read.
IsCollected(found, files, max) ==
    /\ found.scanned \in Nat /\ found.scanned <= max
    /\ found.matches \in Seq(MatchesIn(files))
    /\ \A i \in DOMAIN found.matches : \E f \in files : ~f.restricted /\ found.matches[i].file = f.rank

LEMMA PatternsCollected ==
    ASSUME NEW files, \A f \in files : PatternFileOK(f), NEW seq \in Seq(files), NEW max \in Nat
    PROVE  IsCollected(F!collect_pattern_matches(seq, max), files, max)
<1> DEFINE taken == SubSeq(seq, 1, IF max < Len(seq) THEN max ELSE Len(seq))
           places == {i \in DOMAIN taken : ~taken[i].outside /\ ~taken[i].restricted}
           scanned == F!At(taken, places)[Len(taken)]
           Detected(f) == F!detect_patterns(F!analyze_file(f))
           OfFile(f) == [j \in DOMAIN Detected(f) |->
                            [pattern |-> Detected(f)[j].pattern, line |-> Detected(f)[j].line, file |-> f.rank]]
           lists == [i \in DOMAIN scanned |-> OfFile(scanned[i])]
           found == F!collect_pattern_matches(seq, max)
           M0 == MatchesIn(files)
<1>1. found = [matches |-> FlattenSeq(lists), scanned |-> Len(scanned)]
  <2>1. found = [matches |-> F!FlattenSeq(lists), scanned |-> Len(scanned)]
    BY Zenon DEF F!collect_pattern_matches, F!Where, F!Mapped
  <2> HIDE DEF found, lists, scanned
  <2> QED
    BY <2>1, SameFlattenSeq, Zenon
<1>2. taken \in Seq(files) /\ Len(taken) <= max
  <2>1. taken \in Seq(files) /\ Len(taken) = IF max < Len(seq) THEN max ELSE Len(seq)
    BY FirstOfSeq
  <2> HIDE DEF taken
  <2> QED
    BY <2>1
<1> HIDE DEF taken
<1>3. scanned \in Seq(files) /\ Taken(scanned, taken, places)
  BY <1>2, AtPlacesOfF
<1>4. Len(scanned) \in Nat /\ Len(scanned) <= max
  <2>1. places \in SUBSET DOMAIN taken /\ DOMAIN taken = 1 .. Len(taken) /\ Len(taken) \in Nat
    BY <1>2
  <2> HIDE DEF places
  <2>2. scanned = At(taken, places)[Len(taken)]
    BY SameAt, Zenon
  <2>3. Len(scanned) = Cardinality(places)
    <3> HIDE DEF scanned
    <3> QED
      BY <1>2, <2>1, <2>2, AtCounts
  <2>4. IsFiniteSet(1 .. Len(taken)) /\ Cardinality(1 .. Len(taken)) = Len(taken)
    BY <2>1, Intervals
  <2>5. Cardinality(places) \in Nat /\ Cardinality(places) <= Len(taken)
    BY <2>1, <2>4, FS_Subset, FS_CardinalityType
  <2> HIDE DEF scanned
  <2> QED
    BY <1>2, <2>1, <2>3, <2>5
<1>5. \A n \in DOMAIN scanned : scanned[n] \in files /\ ~scanned[n].restricted
  <2>1. \A i \in DOMAIN taken \cap places : ~taken[i].restricted
    OBVIOUS
  <2> HIDE DEF scanned, places
  <2>2. \A n \in DOMAIN scanned : scanned[n] \in files
    BY <1>3
  <2>3. \A n \in DOMAIN scanned : \E i \in DOMAIN taken \cap places : taken[i] = scanned[n]
    BY <1>3, Zenon DEF Taken
  <2> QED
    BY <2>1, <2>2, <2>3
<1> HIDE DEF scanned
<1>6. ASSUME NEW f \in files
      PROVE  OfFile(f) \in Seq(M0) /\ \A j \in DOMAIN OfFile(f) : OfFile(f)[j].file = f.rank
  <2>1. Detected(f) \in Seq([pattern : Patterns, line : Nat])
    BY FileIsParsed, PatternsDetected
  <2> HIDE DEF Found
  <2>2. DOMAIN Detected(f) = 1 .. Len(Detected(f)) /\ Len(Detected(f)) \in Nat
    BY <2>1
  <2>3. ASSUME NEW j \in DOMAIN Detected(f)
        PROVE  [pattern |-> Detected(f)[j].pattern, line |-> Detected(f)[j].line, file |-> f.rank] \in M0
    <3> DEFINE R == [pattern : Patterns, line : Nat]
    <3>1. Detected(f)[j] \in R
      <4> HIDE DEF R
      <4>1. Detected(f) \in Seq(R)
        BY <2>1 DEF R
      <4> QED
        BY <4>1
    <3> QED
      BY <3>1 DEF MatchesIn
  <2> HIDE DEF M0
  <2>4. OfFile(f) \in Seq(M0)
    BY <2>2, <2>3
  <2>5. \A j \in DOMAIN OfFile(f) : OfFile(f)[j].file = f.rank
    OBVIOUS
  <2> QED
    BY <2>4, <2>5
<1> HIDE DEF OfFile, M0
<1>7. lists \in Seq(Seq(M0))
  <2>1. DOMAIN scanned = 1 .. Len(scanned)
    BY <1>3
  <2> QED
    BY <1>4, <1>5, <1>6, <2>1
<1>8. \A n \in DOMAIN lists : \A j \in DOMAIN lists[n] : lists[n][j].file = scanned[n].rank /\ n \in DOMAIN scanned
  BY <1>5, <1>6
<1> HIDE DEF lists
<1>9. FlattenSeq(lists) \in Seq(M0) /\ Gathered(FlattenSeq(lists), lists)
  BY <1>7, FlattenGathers
<1> DEFINE flat == FlattenSeq(lists)
<1> HIDE DEF flat
<1>10. ASSUME NEW i \in DOMAIN flat PROVE \E f \in files : ~f.restricted /\ flat[i].file = f.rank
  <2>1. Gathered(flat, lists)
    BY <1>9 DEF flat
  <2>2. PICK n \in DOMAIN lists : \E j \in DOMAIN lists[n] : lists[n][j] = flat[i]
    BY <2>1, Zenon DEF Gathered
  <2>3. PICK j \in DOMAIN lists[n] : lists[n][j] = flat[i]
    BY <2>2
  <2>4. flat[i].file = scanned[n].rank /\ scanned[n] \in files /\ ~scanned[n].restricted
    BY <1>5, <1>8, <2>3
  <2> QED
    BY <2>4
<1>11. found.matches = flat /\ found.scanned = Len(scanned)
  BY <1>1 DEF flat
<1>12. flat \in Seq(M0)
  BY <1>9 DEF flat
<1> HIDE DEF found
<1> QED
  BY <1>4, <1>10, <1>11, <1>12, Zenon DEF IsCollected, M0, found

LEMMA TuplesAreKeys ==
    \A a, b, c \in Int : <<a, b>> \in [1 .. 2 -> Int] /\ <<a, b, c>> \in [1 .. 3 -> Int]
  OBVIOUS

LEMMA ShortKeyLess ==
    ASSUME NEW a \in Nat, NEW b \in Nat, NEW c \in Nat, NEW d \in Nat,
           KeyLess(<<a, b>>, <<c, d>>) \/ <<a, b>> = <<c, d>>
    PROVE  a <= c
<1>1. CASE <<a, b>> = <<c, d>>
  BY <1>1
<1>2. CASE KeyLess(<<a, b>>, <<c, d>>)
  <2> DEFINE k == <<a, b>>
             l == <<c, d>>
  <2>1. k[1] = a /\ l[1] = c /\ DOMAIN k = 1 .. 2
    OBVIOUS
  <2> HIDE DEF k, l
  <2>2. PICK n \in DOMAIN k : k[n] < l[n] /\ \A o \in 1 .. n - 1 : k[o] = l[o]
    BY <1>2 DEF KeyLess, k, l
  <2>3. CASE n = 1
    BY <2>1, <2>2, <2>3
  <2>4. CASE n = 2
    <3>1. 1 \in 1 .. n - 1
      BY <2>4
    <3> QED
      BY <2>1, <2>2, <3>1
  <2> QED
    BY <2>1, <2>2, <2>3, <2>4
<1> QED
  BY <1>1, <1>2

LEMMA LongKeyLess ==
    ASSUME NEW r \in Nat, NEW a \in Nat, NEW b \in Nat, NEW c \in Nat, NEW d \in Nat,
           KeyLess(<<r, a, b>>, <<r, c, d>>) \/ <<r, a, b>> = <<r, c, d>>
    PROVE  a <= c
<1>1. CASE <<r, a, b>> = <<r, c, d>>
  BY <1>1
<1>2. CASE KeyLess(<<r, a, b>>, <<r, c, d>>)
  <2> DEFINE k == <<r, a, b>>
             l == <<r, c, d>>
  <2>1. k[1] = r /\ l[1] = r /\ k[2] = a /\ l[2] = c /\ DOMAIN k = 1 .. 3
    OBVIOUS
  <2> HIDE DEF k, l
  <2>2. PICK n \in DOMAIN k : k[n] < l[n] /\ \A o \in 1 .. n - 1 : k[o] = l[o]
    BY <1>2 DEF KeyLess, k, l
  <2>3. n # 1
    BY <2>1, <2>2
  <2>4. CASE n = 2
    BY <2>1, <2>2, <2>4
  <2>5. CASE n = 3
    <3>1. 2 \in 1 .. n - 1
      BY <2>5
    <3> QED
      BY <2>1, <2>2, <3>1
  <2> QED
    BY <2>1, <2>2, <2>3, <2>4, <2>5
<1> QED
  BY <1>1, <1>2

\* In the order asked for.
Follow(m, n, sortBy) ==
    CASE sortBy = "file" -> m.file <= n.file
      [] sortBy = "line" -> m.line <= n.line
      [] OTHER -> m.pattern = n.pattern => m.file <= n.file

\* The key of a match, as sort_patterns takes it.
KeyOf(m, sortBy) ==
    CASE sortBy = "file" -> <<m.file, m.line>>
      [] sortBy = "line" -> <<m.line, m.file>>
      [] OTHER -> <<CHOOSE i \in DOMAIN F!PatternNames : F!PatternNames[i] = m.pattern, m.file, m.line>>
KeyLength(sortBy) == IF sortBy \in {"file", "line"} THEN 2 ELSE 3

LEMMA KeysAreOfMatches ==
    ASSUME NEW files, \A f \in files : f.rank \in Nat, NEW m \in MatchesIn(files), NEW sortBy
    PROVE  KeyOf(m, sortBy) \in [1 .. KeyLength(sortBy) -> Int]
<1>1. m.file \in Nat /\ m.line \in Nat /\ m.pattern \in Patterns
  BY DEF MatchesIn
<1> DEFINE rank == CHOOSE i \in DOMAIN F!PatternNames : F!PatternNames[i] = m.pattern
<1>2. rank \in Int
  <2>1. DOMAIN F!PatternNames \subseteq Int
    BY DEF F!PatternNames
  <2>2. \E i \in DOMAIN F!PatternNames : F!PatternNames[i] = m.pattern
    BY <1>1 DEF Patterns, Range
  <2> QED
    BY <2>1, <2>2
<1> HIDE DEF rank
<1>3. CASE sortBy = "file"
  <2>1. KeyOf(m, sortBy) = <<m.file, m.line>> /\ KeyLength(sortBy) = 2
    BY <1>3 DEF KeyOf, KeyLength
  <2> QED
    BY <1>1, <2>1, TuplesAreKeys
<1>4. CASE sortBy = "line"
  <2>1. KeyOf(m, sortBy) = <<m.line, m.file>> /\ KeyLength(sortBy) = 2
    BY <1>4 DEF KeyOf, KeyLength
  <2> QED
    BY <1>1, <2>1, TuplesAreKeys
<1>5. CASE sortBy \notin {"file", "line"}
  <2>1. KeyOf(m, sortBy) = <<rank, m.file, m.line>> /\ KeyLength(sortBy) = 3
    BY <1>5, Zenon DEF KeyOf, KeyLength, rank
  <2> QED
    BY <1>1, <1>2, <2>1, TuplesAreKeys
<1> QED
  BY <1>3, <1>4, <1>5

LEMMA KeysFollow ==
    ASSUME NEW files, \A f \in files : f.rank \in Nat, NEW m \in MatchesIn(files), NEW n \in MatchesIn(files),
           NEW sortBy, KeyLess(KeyOf(m, sortBy), KeyOf(n, sortBy)) \/ KeyOf(m, sortBy) = KeyOf(n, sortBy)
    PROVE  Follow(m, n, sortBy)
<1>1. m.file \in Nat /\ m.line \in Nat /\ n.file \in Nat /\ n.line \in Nat /\ m.pattern \in Patterns
  BY DEF MatchesIn
<1>2. CASE sortBy = "file"
  <2>1. KeyOf(m, sortBy) = <<m.file, m.line>> /\ KeyOf(n, sortBy) = <<n.file, n.line>>
    BY <1>2 DEF KeyOf
  <2>2. m.file <= n.file
    BY <1>1, <2>1, ShortKeyLess
  <2> QED
    BY <1>2, <2>2 DEF Follow
<1>3. CASE sortBy = "line"
  <2>1. KeyOf(m, sortBy) = <<m.line, m.file>> /\ KeyOf(n, sortBy) = <<n.line, n.file>>
    BY <1>3 DEF KeyOf
  <2>2. m.line <= n.line
    BY <1>1, <2>1, ShortKeyLess
  <2> QED
    BY <1>3, <2>2 DEF Follow
<1>4. CASE sortBy \notin {"file", "line"}
  <2> SUFFICES ASSUME m.pattern = n.pattern PROVE m.file <= n.file
    BY <1>4 DEF Follow
  <2> DEFINE rank == CHOOSE i \in DOMAIN F!PatternNames : F!PatternNames[i] = m.pattern
  <2>1. KeyOf(m, sortBy) = <<rank, m.file, m.line>>
    BY <1>4, Zenon DEF KeyOf
  <2>2. KeyOf(n, sortBy) = <<rank, n.file, n.line>>
    <3>1. KeyOf(n, sortBy) = <<CHOOSE i \in DOMAIN F!PatternNames : F!PatternNames[i] = n.pattern, n.file, n.line>>
      BY <1>4, Zenon DEF KeyOf
    <3> QED
      BY <3>1, Zenon
  <2>3. rank \in Nat
    <3>1. DOMAIN F!PatternNames \subseteq Nat
      BY DEF F!PatternNames
    <3>2. \E i \in DOMAIN F!PatternNames : F!PatternNames[i] = m.pattern
      BY <1>1 DEF Patterns, Range
    <3> QED
      BY <3>1, <3>2
  <2> HIDE DEF rank
  <2> QED
    BY <1>1, <2>1, <2>2, <2>3, LongKeyLess
<1> QED
  BY <1>2, <1>3, <1>4

LEMMA PatternsSorted ==
    ASSUME NEW files, \A f \in files : f.rank \in Nat, NEW matches \in Seq(MatchesIn(files)), NEW sortBy
    PROVE  LET sorted == F!sort_patterns(matches, sortBy)
           IN /\ sorted \in Seq(MatchesIn(files)) /\ Len(sorted) = Len(matches)
              /\ \A i, j \in DOMAIN sorted : i < j => Follow(sorted[i], sorted[j], sortBy)
<1> DEFINE M0 == MatchesIn(files)
           key == [i \in DOMAIN matches |-> KeyOf(matches[i], sortBy)]
           N == KeyLength(sortBy)
           Earlier(i) == {j \in DOMAIN matches : \/ KeyLess(KeyOf(matches[j], sortBy), KeyOf(matches[i], sortBy))
                                                 \/ KeyOf(matches[j], sortBy) = KeyOf(matches[i], sortBy) /\ j < i}
           below == [i \in DOMAIN matches |-> Earlier(i)]
           sorted == F!sort_patterns(matches, sortBy)
           out == [n \in DOMAIN matches |-> matches[CHOOSE i \in DOMAIN matches : Cardinality(below[i]) = n - 1]]
<1>1. sorted = [n \in DOMAIN matches |-> matches[CHOOSE i \in DOMAIN matches : F!Cardinality(Earlier(i)) = n - 1]]
  BY Zenon DEF F!sort_patterns, F!Sorted, KeyLess, KeyOf
<1>2. out = sorted
  <2>1. \A i \in DOMAIN matches : F!Cardinality(Earlier(i)) = Cardinality(below[i])
    <3>1. \A i \in DOMAIN matches : below[i] = Earlier(i)
      OBVIOUS
    <3> HIDE DEF Earlier, below
    <3> QED
      BY <3>1, SameCardinality
  <2> HIDE DEF Earlier, below, sorted
  <2> DEFINE c(n) == CHOOSE i \in DOMAIN matches : F!Cardinality(Earlier(i)) = n - 1
             d(n) == CHOOSE i \in DOMAIN matches : Cardinality(below[i]) = n - 1
  <2>2. \A n : c(n) = d(n)
    BY <2>1, Zenon
  <2>3. sorted = [n \in DOMAIN matches |-> matches[c(n)]] /\ out = [n \in DOMAIN matches |-> matches[d(n)]]
    BY <1>1, Zenon
  <2> HIDE DEF c, d, out
  <2> QED
    BY <2>2, <2>3
<1>3. \A i \in DOMAIN matches : matches[i] \in M0
  OBVIOUS
<1>4. key \in [DOMAIN matches -> [1 .. N -> Int]]
  BY <1>3, KeysAreOfMatches
<1>5. N \in Nat
  BY DEF KeyLength
<1>6. below \in [DOMAIN matches -> SUBSET DOMAIN matches]
  OBVIOUS
<1>7. \A j, i \in DOMAIN matches : j \in below[i] <=> (KeyLess(key[j], key[i]) \/ (key[j] = key[i] /\ j < i))
  <2> HIDE DEF N
  <2> QED
    BY Zenon
<1>8. \A i \in DOMAIN matches : key[i] = KeyOf(matches[i], sortBy)
  OBVIOUS
<1> HIDE DEF key, N, below, M0
<1>9. Permuted(out, matches, M0) /\ OrderedBy(out, matches, below)
  <2> DEFINE given == out
  <2>1. given = [n \in DOMAIN matches |-> matches[CHOOSE i \in DOMAIN matches : Cardinality(below[i]) = n - 1]]
    OBVIOUS
  <2>2. matches \in Seq(M0)
    BY DEF M0
  <2> HIDE DEF given
  <2>3. Permuted(given, matches, M0) /\ OrderedBy(given, matches, below)
    BY <1>4, <1>5, <1>6, <1>7, <2>1, <2>2, KeysPermute
  <2> QED
    BY <2>3, Zenon DEF given
<1>10. Permuted(sorted, matches, M0) /\ OrderedBy(sorted, matches, below)
  BY <1>2, <1>9, Zenon
<1> HIDE DEF sorted
<1>11. sorted \in Seq(M0) /\ Len(sorted) = Len(matches) /\ DOMAIN sorted = DOMAIN matches
  <2>1. sorted \in Seq(M0) /\ Len(sorted) = Len(matches) /\ matches \in Seq(M0)
    BY <1>10 DEF Permuted, M0
  <2> QED
    BY <2>1
<1>12. ASSUME NEW m \in DOMAIN sorted, NEW n \in DOMAIN sorted, m < n PROVE Follow(sorted[m], sorted[n], sortBy)
  <2>1. PICK i \in DOMAIN matches, j \in DOMAIN matches : i \in below[j] /\ sorted[m] = matches[i] /\ sorted[n] = matches[j]
    BY <1>10, <1>11, <1>12 DEF OrderedBy
  <2>2. KeyLess(KeyOf(matches[i], sortBy), KeyOf(matches[j], sortBy)) \/ KeyOf(matches[i], sortBy) = KeyOf(matches[j], sortBy)
    BY <1>7, <1>8, <2>1
  <2>3. matches[i] \in MatchesIn(files) /\ matches[j] \in MatchesIn(files)
    BY <1>3 DEF M0
  <2> QED
    BY <2>1, <2>2, <2>3, KeysFollow
<1> QED
  BY <1>11, <1>12 DEF M0, sorted

\* How often each of the keys of the matches is.
TallyOf(matches, of) ==
    [x \in {of[i] : i \in DOMAIN matches} |-> Len(F!At(matches, {i \in DOMAIN matches : of[i] = x})[Len(matches)])]

LEMMA MatchesTallied ==
    ASSUME NEW S, NEW matches \in Seq(S), NEW of
    PROVE  TotalOf(TallyOf(matches, of)) = Len(matches)
<1> DEFINE N == Len(matches)
           counts == TallyOf(matches, of)
           places(x) == {i \in DOMAIN matches : of[i] = x}
<1>1. N \in Nat /\ DOMAIN matches = 1 .. N
  OBVIOUS
<1>2. DOMAIN counts = {of[i] : i \in 1 .. N}
  BY <1>1 DEF TallyOf
<1>3. \A x \in DOMAIN counts : counts[x] = Len(F!At(matches, places(x))[Len(matches)])
  BY DEF TallyOf
<1>4. \A x : Len(F!At(matches, places(x))[Len(matches)]) = Cardinality(places(x))
  <2>1. \A x : places(x) \in SUBSET DOMAIN matches
    OBVIOUS
  <2> HIDE DEF places
  <2>2. \A x : Len(At(matches, places(x))[Len(matches)]) = Cardinality(places(x))
    BY <2>1, AtCounts
  <2> QED
    BY <2>2, SameAt, Zenon
<1>5. \A x : places(x) = {i \in 1 .. N : of[i] = x}
  BY <1>1
<1>6. Tallies(counts, N, of)
  <2> HIDE DEF places, N, counts
  <2> QED
    BY <1>2, <1>3, <1>4, <1>5, Zenon DEF Tallies
<1> HIDE DEF N, counts
<1> QED
  BY <1>1, <1>6, TalliesAdd, Zenon DEF N, counts

\* What search_design_patterns answers when it found any.
Searched(r) ==
    F!collect_pattern_matches(F!select_candidate_files(r.files, r.args), r.args.maxFiles)
LimitOf(args) == IF args.mode = "summary" /\ args.maxMatches > 100 THEN 100 ELSE args.maxMatches
AskedOf(r, sorted) ==
    SubSeq(sorted, 1, IF LimitOf(r.args) < Len(Searched(r).matches) THEN LimitOf(r.args) ELSE Len(Searched(r).matches))
GivenOf(r, asked) == SubSeq(asked, 1, IF r.room < Len(asked) THEN r.room ELSE Len(asked))
IsSearched(ans, r) ==
    LET matches == Searched(r).matches
        asked == AskedOf(r, F!sort_patterns(matches, r.args.sortBy))
    IN /\ ans.total = Len(matches) /\ ans.scanned = Searched(r).scanned
       /\ ans.byPattern = TallyOf(matches, [i \in DOMAIN matches |-> matches[i].pattern])
       /\ ans.byFile = TallyOf(matches, [i \in DOMAIN matches |-> matches[i].file])
       /\ ans.matches = GivenOf(r, asked) /\ ans.truncated = (r.room < Len(asked))

LEMMA SearchGives ==
    ASSUME NEW r, F!search_design_patterns(r.files, r.args, r.room).kind = "patterns"
    PROVE  IsSearched(F!search_design_patterns(r.files, r.args, r.room), r)
<1> DEFINE matches == Searched(r).matches
           sorted == F!sort_patterns(matches, r.args.sortBy)
           asked == AskedOf(r, sorted)
           given == GivenOf(r, asked)
           Keep(places) == Len(F!At(matches, places)[Len(matches)])
           byPattern == [x \in {m.pattern : m \in F!Range(matches)} |-> Keep({i \in DOMAIN matches : matches[i].pattern = x})]
           byFile == [x \in {m.file : m \in F!Range(matches)} |-> Keep({i \in DOMAIN matches : matches[i].file = x})]
           ans == F!search_design_patterns(r.files, r.args, r.room)
           full == [kind |-> "patterns", total |-> Len(matches), scanned |-> Searched(r).scanned,
                    byPattern |-> byPattern, byFile |-> byFile,
                    matches |-> given, truncated |-> r.room < Len(asked)]
<1>1. ans = IF matches = <<>> THEN F!Notice("no patterns") ELSE full
  BY Zenon DEF F!search_design_patterns, F!Where, Searched, LimitOf, AskedOf, GivenOf
<1>2. F!Notice("no patterns").kind # "patterns"
  BY DEF F!Notice
<1>3. ans = full
  <2> HIDE DEF full, ans, matches
  <2> QED
    BY <1>1, <1>2 DEF ans
<1>4. byPattern = TallyOf(matches, [i \in DOMAIN matches |-> matches[i].pattern])
  <2> DEFINE of == [i \in DOMAIN matches |-> matches[i].pattern]
  <2> HIDE DEF matches
  <2>1. {m.pattern : m \in F!Range(matches)} = {of[i] : i \in DOMAIN matches}
    BY DEF F!Range
  <2>2. \A x : {i \in DOMAIN matches : matches[i].pattern = x} = {i \in DOMAIN matches : of[i] = x}
    OBVIOUS
  <2> HIDE DEF of
  <2> QED
    BY <2>1, <2>2 DEF TallyOf, of
<1>5. byFile = TallyOf(matches, [i \in DOMAIN matches |-> matches[i].file])
  <2> DEFINE of == [i \in DOMAIN matches |-> matches[i].file]
  <2> HIDE DEF matches
  <2>1. {m.file : m \in F!Range(matches)} = {of[i] : i \in DOMAIN matches}
    BY DEF F!Range
  <2>2. \A x : {i \in DOMAIN matches : matches[i].file = x} = {i \in DOMAIN matches : of[i] = x}
    OBVIOUS
  <2> HIDE DEF of
  <2> QED
    BY <2>1, <2>2 DEF TallyOf, of
<1> DEFINE fit == r.room < Len(asked)
<1> HIDE DEF ans, byPattern, byFile, given, asked, matches
<1>6. /\ ans.total = Len(matches) /\ ans.scanned = Searched(r).scanned /\ ans.byPattern = byPattern
      /\ ans.byFile = byFile /\ ans.matches = given
  BY <1>3
<1>7. ans.truncated = (r.room < Len(asked))
  BY <1>3
<1> QED
  BY <1>4, <1>5, <1>6, <1>7, Zenon DEF IsSearched, matches, asked, given, ans

LEMMA CandidatesAreFiles ==
    ASSUME NEW r, PatternRequestOK(r)
    PROVE  F!select_candidate_files(r.files, r.args) \in Seq(Range(r.files) \cup Range(r.args.filePath))
<1> DEFINE files == Range(r.files) \cup Range(r.args.filePath)
           scope == {i \in DOMAIN r.files : /\ ~r.files[i].restricted /\ ~r.files[i].outside
                                            /\ r.args.scope \in r.files[i].scopes}
<1>1. r.files \in Seq(files) /\ r.args.filePath \in Seq(files)
  BY DEF PatternRequestOK
<1>2. F!select_candidate_files(r.files, r.args)
        = IF r.args.filePath # <<>> THEN r.args.filePath ELSE F!At(r.files, scope)[Len(r.files)]
  BY Zenon DEF F!select_candidate_files, F!Where
<1> HIDE DEF files, scope
<1>3. F!At(r.files, scope)[Len(r.files)] \in Seq(files)
  BY <1>1, AtPlacesOfF
<1>4. F!select_candidate_files(r.files, r.args) \in Seq(files)
  BY <1>1, <1>2, <1>3
<1> QED
  BY <1>4 DEF files

LEMMA PatternsAnswered ==
    ASSUME CallInv, Answered("search_design_patterns"), Ans.kind = "patterns"
    PROVE  PatternRequestOK(Req) /\ IsSearched(Ans, Req)
<1>1. tool = "search_design_patterns" /\ answer # <<>>
  BY DEF Answered
<1>2. tool \in DOMAIN Requests /\ Req \in Requests[tool] /\ Ans \in Respond(Req)
  BY <1>1 DEF CallInv
<1>3. PatternRequestOK(Req)
  BY <1>1, <1>2, PatternsAssumption
<1>4. Ans = F!search_design_patterns(Req.files, Req.args, Req.room)
  BY <1>1, <1>2 DEF Respond
<1> QED
  BY <1>3, <1>4, SearchGives

\* What the answer must tell.
Accounted(ans, r) ==
    /\ TotalOf(ans.byPattern) = ans.total /\ TotalOf(ans.byFile) = ans.total
    /\ ans.scanned <= r.args.maxFiles
    /\ \A f \in Range(r.files) : f.restricted => f.rank \notin DOMAIN ans.byFile
    /\ Len(ans.matches) < ans.total => \/ ans.truncated \/ Len(ans.matches) = r.args.maxMatches
                                       \/ r.args.mode = "summary" /\ Len(ans.matches) = 100
    /\ \A i, j \in DOMAIN ans.matches : i < j => Follow(ans.matches[i], ans.matches[j], r.args.sortBy)

LEMMA SearchAccounts ==
    ASSUME NEW r, PatternRequestOK(r), NEW ans, IsSearched(ans, r)
    PROVE  Accounted(ans, r)
<1> DEFINE files == Range(r.files) \cup Range(r.args.filePath)
           candidates == F!select_candidate_files(r.files, r.args)
           found == Searched(r)
           matches == found.matches
           patterns == [i \in DOMAIN matches |-> matches[i].pattern]
           ranks == [i \in DOMAIN matches |-> matches[i].file]
           sorted == F!sort_patterns(matches, r.args.sortBy)
           asked == AskedOf(r, sorted)
           limit == LimitOf(r.args)
<1>1. /\ \A f \in files : PatternFileOK(f) /\ f.rank \in Nat
      /\ \A f, g \in files : f.rank = g.rank => f = g
      /\ r.args.maxFiles \in Nat /\ r.args.maxMatches \in Nat /\ r.room \in Nat
  BY DEF PatternRequestOK, PatternFileOK
<1>2. candidates \in Seq(files)
  BY CandidatesAreFiles
<1>3. IsCollected(found, files, r.args.maxFiles)
  <2> HIDE DEF files, candidates
  <2>1. IsCollected(F!collect_pattern_matches(candidates, r.args.maxFiles), files, r.args.maxFiles)
    BY <1>1, <1>2, PatternsCollected
  <2> QED
    BY <2>1, Zenon DEF Searched, candidates
<1>4. matches \in Seq(MatchesIn(files)) /\ found.scanned <= r.args.maxFiles
      /\ \A i \in DOMAIN matches : \E f \in files : ~f.restricted /\ matches[i].file = f.rank
  BY <1>3 DEF IsCollected
<1>5. /\ ans.total = Len(matches) /\ ans.scanned = found.scanned
      /\ ans.byPattern = TallyOf(matches, patterns) /\ ans.byFile = TallyOf(matches, ranks)
      /\ ans.matches = GivenOf(r, asked) /\ ans.truncated = (r.room < Len(asked))
  BY Zenon DEF IsSearched
<1> HIDE DEF files, candidates, found
<1>6. TotalOf(ans.byPattern) = ans.total
  <2> HIDE DEF matches, patterns
  <2>1. TotalOf(TallyOf(matches, patterns)) = Len(matches)
    BY <1>4, MatchesTallied
  <2> QED
    BY <1>5, <2>1, Zenon
<1>7. TotalOf(ans.byFile) = ans.total
  <2> HIDE DEF matches, ranks
  <2>1. TotalOf(TallyOf(matches, ranks)) = Len(matches)
    BY <1>4, MatchesTallied
  <2> QED
    BY <1>5, <2>1, Zenon
<1>8. \A f \in Range(r.files) : f.restricted => f.rank \notin DOMAIN ans.byFile
  <2>1. DOMAIN ans.byFile = {matches[i].file : i \in DOMAIN matches}
    <3>1. DOMAIN TallyOf(matches, ranks) = {ranks[i] : i \in DOMAIN matches}
      BY DEF TallyOf
    <3> QED
      BY <1>5, <3>1
  <2>2. Range(r.files) \subseteq files
    BY DEF files
  <2> SUFFICES ASSUME NEW f \in Range(r.files), f.restricted, f.rank \in DOMAIN ans.byFile PROVE FALSE
    OBVIOUS
  <2>3. PICK i \in DOMAIN matches : matches[i].file = f.rank
    BY <2>1
  <2>4. PICK g \in files : ~g.restricted /\ matches[i].file = g.rank
    BY <1>4
  <2> QED
    BY <1>1, <2>2, <2>3, <2>4
<1> HIDE DEF patterns, ranks, matches
<1>9. /\ sorted \in Seq(MatchesIn(files)) /\ Len(sorted) = Len(matches)
      /\ \A i, j \in DOMAIN sorted : i < j => Follow(sorted[i], sorted[j], r.args.sortBy)
  BY <1>1, <1>4, PatternsSorted
<1> HIDE DEF sorted
<1>10. limit \in Nat /\ (limit = r.args.maxMatches \/ (r.args.mode = "summary" /\ limit = 100))
  BY <1>1 DEF LimitOf
<1> HIDE DEF limit
<1> DEFINE S == MatchesIn(files)
<1> HIDE DEF S
<1>11. /\ asked \in Seq(S) /\ Len(asked) = IF limit < Len(matches) THEN limit ELSE Len(matches)
       /\ \A i \in DOMAIN asked : i \in DOMAIN sorted /\ asked[i] = sorted[i]
  <2>1. asked = SubSeq(sorted, 1, IF limit < Len(sorted) THEN limit ELSE Len(sorted))
    BY <1>9, Zenon DEF AskedOf, limit, matches, found
  <2>2. sorted \in Seq(S)
    BY <1>9 DEF S
  <2> HIDE DEF asked
  <2> QED
    BY <1>9, <1>10, <2>1, <2>2, FirstOfSeq
<1> HIDE DEF asked
<1>12. /\ ans.matches \in Seq(S) /\ Len(ans.matches) = IF r.room < Len(asked) THEN r.room ELSE Len(asked)
       /\ \A i \in DOMAIN ans.matches : i \in DOMAIN asked /\ ans.matches[i] = asked[i]
  <2>1. ans.matches = SubSeq(asked, 1, IF r.room < Len(asked) THEN r.room ELSE Len(asked))
    BY <1>5, Zenon DEF GivenOf
  <2> QED
    BY <1>1, <1>11, <2>1, FirstOfSeq
<1>13. ASSUME Len(ans.matches) < ans.total, ~ans.truncated
       PROVE  \/ Len(ans.matches) = r.args.maxMatches
              \/ r.args.mode = "summary" /\ Len(ans.matches) = 100
  <2>1. ~(r.room < Len(asked))
    BY <1>5, <1>13, Zenon
  <2>2. Len(ans.matches) = Len(asked)
    BY <1>12, <2>1
  <2>3. Len(asked) < Len(matches)
    BY <1>5, <1>13, <2>2
  <2>4. Len(asked) = limit
    BY <1>11, <2>3
  <2> QED
    BY <1>10, <2>2, <2>4
<1>14. \A i, j \in DOMAIN ans.matches : i < j => Follow(ans.matches[i], ans.matches[j], r.args.sortBy)
  BY <1>9, <1>11, <1>12
<1>15. ans.scanned <= r.args.maxFiles
  BY <1>4, <1>5
<1> QED
  BY <1>6, <1>7, <1>8, <1>13, <1>14, <1>15, Zenon DEF Accounted

\* Design patterns are accounted for, whatever the files, the limits and the room: the
\* counts add up, no restricted file has a match, and what is not given was cut by a limit
\* that is told (search_design_patterns, tools/patterns.rs).
THEOREM PatternsTell == Spec => []PatternsAccount
<1>1. CallInv => PatternsAccount
  <2> SUFFICES ASSUME CallInv, Answered("search_design_patterns"), Ans.kind = "patterns"
               PROVE  Accounted(Ans, Req)
    BY Zenon DEF PatternsAccount, Accounted, Follow
  <2> QED
    BY PatternsAnswered, SearchAccounts
<1> QED
  BY <1>1, CallInit, CallNext, PTL DEF Spec
==============================================================================
