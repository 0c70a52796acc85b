----------------------------- MODULE QueryFaces -----------------------------
(***************************************************************************)
(* The two representations a query may be answered from, and what is       *)
(* computed from either: definitions, references, the audit's targets, the *)
(* callers of a symbol, their closure and the derived call edges           *)
(* (engine.rs, cache.rs, fndefs.rs, callers.rs, scip_edges.rs).  An index  *)
(* is a sequence of documents; a symbol is a record of what the predicates *)
(* look at.                                                                *)
(***************************************************************************)
EXTENDS Absence, Counting, FiniteSetsExt, TLC

---------------------------------------------------------------------------
(* Symbols and queries.                                                    *)

\* symbol: kind "fn" (tail name().), "class" (tail name#) or "other"; py, the
\* python producers' prefix; owner, the type a Type.method query can name.
FnTailName(s) == IF s.kind = "fn" THEN s.name ELSE None

\* Mutant: the cache keeps the classes of Python only.
IngestPythonOnly(s, lang) == s.kind = "fn" \/ (s.kind = "class" /\ s.py)

\* The languages whose class definitions are ingested, and whose are queried
\* by a bare name, besides the python faces.
IngestSymbol(s, lang) ==
    \/ s.kind = "fn"
    \/ s.kind = "class" /\ (s.py \/ lang \in {"ts", "rs"})

ClassArmMatches(s, lang) == s.py \/ lang = "ts"

MatchesQuery(s, lang, q) ==
    IF q.type # None
    THEN s.kind = "fn" /\ s.name = q.name /\ s.owner = q.type
    ELSE s.name = q.name
         /\ (s.kind = "fn" \/ (s.kind = "class" /\ ClassArmMatches(s, lang)))

---------------------------------------------------------------------------
(* The protobuf face: a scan of the documents.                             *)

\* The occurrences in scan order, each with its document.
Scan(index) ==
    FlattenSeq([i \in DOMAIN index |->
        [j \in DOMAIN index[i].occs |->
            index[i].occs[j] @@ [path |-> index[i].path, lang |-> index[i].lang]]])

Locs(rows) == [i \in DOMAIN rows |-> <<rows[i].path, rows[i].line>>]

DefsOf(rows, syms) == {o \in ToSet(rows) : o.def /\ o.sym \in syms}
RefsTo(rows, syms) == {o \in ToSet(rows) : ~o.def /\ o.sym \in syms}
SymbolsOf(rows) == {o.sym : o \in ToSet(rows)}

FindDefs(index, q) ==
    LET Matching(rows) == {o \in ToSet(rows) : o.def /\ MatchesQuery(o.sym, o.lang, q)}
        Of(hits) == [s \in SymbolsOf(hits) |-> Locs(Those(hits, DefsOf(hits, {s})))]
        In(scan) == Of(Those(scan, Matching(scan)))
    IN  In(Scan(index))

FindRefs(index, syms) ==
    LET In(scan) == [s \in syms |-> Locs(Those(scan, RefsTo(scan, {s})))] IN In(Scan(index))

RefsRows(index, syms) ==
    LET In(scan) == Those(scan, RefsTo(scan, syms)) IN In(Scan(index))

\* audit_targets: the last defining file of a function among the files asked
\* for under its name.
Targets(rows, filesByName) ==
    LET Sought(o) == /\ o.def
                     /\ FnTailName(o.sym) \in DOMAIN filesByName
                     /\ o.path \in filesByName[FnTailName(o.sym)]
        Latest(mine, s) == <<mine[Len(mine)].path, s.name>>
        Of(hits) == [s \in SymbolsOf(hits) |-> Latest(Those(hits, DefsOf(hits, {s})), s)]
    IN  Of(Those(rows, {o \in ToSet(rows) : Sought(o)}))

---------------------------------------------------------------------------
(* The sqlite face: build_db keeps every row of a symbol some document's   *)
(* gate admits, in scan order.                                             *)

BuildDb(index) ==
    LET scan  == Scan(index)
        tails == {o.sym : o \in {r \in ToSet(scan) : IngestSymbol(r.sym, r.lang)}}
    IN  [tails |-> tails,
         occs  |-> Those(scan, {o \in ToSet(scan) : o.sym \in tails}),
         docsFullyFiltered |->
            Cardinality({i \in DOMAIN index :
                /\ index[i].occs # <<>>
                /\ \A j \in DOMAIN index[i].occs : index[i].occs[j].sym \notin tails})]

SqliteDefs(db, q) ==
    LET Rows(s) == Those(db.occs, DefsOf(db.occs, {s}))
        found   == {s \in db.tails :
                      /\ s.name = q.name
                      /\ \E i \in DOMAIN Rows(s) : MatchesQuery(s, Rows(s)[i].lang, q)}
    IN  [s \in found |-> Locs(Rows(s))]

SqliteRefs(db, syms) ==
    [s \in syms |-> Locs(Those(db.occs, RefsTo(db.occs, {s})))]

SqliteRefsRows(db, syms) == Those(db.occs, RefsTo(db.occs, syms))

SqliteTargets(db, filesByName) ==
    Targets(Those(db.occs, {o \in ToSet(db.occs) : o.sym.name \in DOMAIN filesByName}), filesByName)

\* What an index is: a class of its symbols is a class of one language.
IsIndex(index) ==
    /\ Len(index) \in Nat /\ DOMAIN index = 1 .. Len(index)
    /\ \A i \in DOMAIN index : Len(index[i].occs) \in Nat /\ DOMAIN index[i].occs = 1 .. Len(index[i].occs)
    /\ \A o, p \in ToSet(Scan(index)) : (o.sym = p.sym /\ o.sym.kind = "class") => o.lang = p.lang

\* The promise of the cache: what a scan of the index answers.
SameAnswers(index, db, q) ==
    LET Same(defs) ==
            /\ SqliteDefs(db, q) = defs
            /\ SqliteRefs(db, DOMAIN defs) = FindRefs(index, DOMAIN defs)
            /\ SqliteRefsRows(db, DOMAIN defs) = RefsRows(index, DOMAIN defs)
    IN  Same(FindDefs(index, q))
SameTargets(index, db, asked) == SqliteTargets(db, asked) = Targets(Scan(index), asked)

---------------------------------------------------------------------------
(* Callers: a reference belongs to the innermost function around it.       *)

\* An enclosing range has four elements, three (one line), none, or a number
\* nobody has seen, which is skipped with a warning.
FnSpans(index) ==
    LET Spanned(rows) == {o \in ToSet(rows) :
                            o.def /\ FnTailName(o.sym) # None /\ o.enc.arity \in {3, 4}}
        To(o) == IF o.enc.arity = 3 THEN o.enc.from ELSE o.enc.to
        Of(defs) == {[sym |-> defs[i].sym, path |-> defs[i].path, seq |-> i,
                      from |-> defs[i].enc.from, to |-> To(defs[i])] : i \in DOMAIN defs}
        In(scan) == Of(Those(scan, Spanned(scan)))
    IN  In(Scan(index))

\* Mutant: the widest span.
NarrowerReversed(a, b) ==
    \/ b.to - b.from < a.to - a.from
    \/ a.to - a.from = b.to - b.from /\ a.seq < b.seq

\* Among the spans around the line the narrowest, and of those the first seen.
Narrower(a, b) ==
    \/ a.to - a.from < b.to - b.from
    \/ a.to - a.from = b.to - b.from /\ a.seq < b.seq

Innermost(spans, path, line) ==
    LET around == {s \in spans : s.path = path /\ s.from <= line /\ line <= s.to}
    IN  IF around = {} THEN None
        ELSE CHOOSE s \in around : \A t \in around \ {s} : Narrower(s, t)

\* The callers in the order of their first site, each with its sites, and the
\* references no function encloses.
Attribute(rows, spans) ==
    LET Owner(o) == Innermost(spans, o.path, o.line)
        Owned == {o \in ToSet(rows) : Owner(o) # None}
        Its(inside, sym) == Those(inside, {o \in ToSet(inside) : Owner(o).sym = sym})
        Caller(sym, its) == [sym |-> sym, defPath |-> Owner(its[1]).path, sites |-> Locs(its)]
        Callers(inside, order) == [i \in DOMAIN order |-> Caller(order[i], Its(inside, order[i]))]
        Inside(inside) == Callers(inside, FirstSeen([i \in DOMAIN inside |-> Owner(inside[i]).sym]))
    IN  [callers |-> Inside(Those(rows, Owned)), itemLevel |-> Locs(Those(rows, ToSet(rows) \ Owned))]

\* closure: a caller seen before is counted as a re-entry and not expanded
\* again.
Visit(acc, caller) ==
    IF caller.sym \in acc.visited
    THEN [acc EXCEPT !.reentries = @ + 1]
    ELSE [acc EXCEPT !.visited = @ \cup {caller.sym}, !.next = Append(@, caller)]

\* Level by level, expand[s] being the callers found for s.
Closure(seeds, expand, depth) ==
    LET Level(acc, d) ==
            LET grown == FoldLeft(LAMBDA a, s : FoldLeft(Visit, a, expand[s]),
                                  [acc EXCEPT !.next = <<>>], acc.frontier)
                new   == [i \in DOMAIN grown.next |-> grown.next[i].sym]
                Files == {grown.next[i].defPath : i \in DOMAIN grown.next}
            IN  [grown EXCEPT
                    !.frontier = new,
                    !.levels = Append(@, [new |-> new, byFile |-> [p \in Files |->
                        Cardinality({i \in DOMAIN new : grown.next[i].defPath = p})]])]
    IN  FoldLeft(Level,
                 [visited |-> ToSet(seeds), frontier |-> seeds, next |-> <<>>,
                  levels |-> <<>>, reentries |-> 0],
                 [d \in 1 .. depth |-> d])

---------------------------------------------------------------------------
(* scip_edges: every call edge with its number of sites.                   *)

\* Both faces keep to the function-shaped symbols.
ScanRowsAndDefs(rows) ==
    LET Of(fns) == [rows |-> Those(fns, {o \in ToSet(fns) : ~o.def}),
                    defs |-> {o.sym : o \in {r \in ToSet(fns) : r.def}}]
    IN  Of(Those(rows, {o \in ToSet(rows) : FnTailName(o.sym) # None}))

RefGroups(refs, spans) ==
    [c \in SymbolsOf(refs) |-> Attribute(Those(refs, RefsTo(refs, {c})), spans)]
ItemLevels(groups) == MapThenSumSet(LAMBDA c : Len(groups[c].itemLevel), DOMAIN groups)
CallEdges(groups) ==
    UNION {{[caller |-> x.sym, callee |-> c, sites |-> Len(x.sites)] : x \in ToSet(groups[c].callers)} :
             c \in DOMAIN groups}

DeriveEdges(rows, spans) ==
    LET Of(scanned, groups, edges) ==
            [edges |-> edges, refSites |-> Len(scanned.rows), itemLevel |-> ItemLevels(groups),
             workspace |-> {e \in edges : e.callee \in scanned.defs}]
        Grouped(scanned, groups) == Of(scanned, groups, CallEdges(groups))
        Scanned(scanned) == Grouped(scanned, RefGroups(scanned.rows, spans))
    IN  Scanned(ScanRowsAndDefs(rows))

---------------------------------------------------------------------------
(* What the attribution promises.                                          *)

\* What the lines of an index are.
IsSpanned(index) ==
    /\ None \notin FnSpans(index)
    /\ \A o \in ToSet(Scan(index)) : o.line \in Int /\ (o.def => {o.enc.from, o.enc.to} \subseteq Int)

Encloses(s, o) == s.path = o.path /\ o.line \in s.from .. s.to

\* No span around the row is narrower, none as narrow was seen earlier.
IsInnermost(spans, s, o) ==
    /\ Encloses(s, o)
    /\ \A t \in spans : Encloses(t, o) =>
         /\ s.to - s.from <= t.to - t.from
         /\ s.to - s.from = t.to - t.from => s.seq <= t.seq

Owns(spans, sym, o) == \E s \in spans : s.sym = sym /\ IsInnermost(spans, s, o)

\* A row around which there is a span has one owner, the function of the
\* innermost; a caller is listed once, with the sites it owns, all of them in
\* their order, under the file of the first; the others are at item level.
Attributed(rows, spans) ==
    LET Mine(sym) == {o \in ToSet(rows) : Owns(spans, sym, o)}
        Bare == {o \in ToSet(rows) : \A s \in spans : ~Encloses(s, o)}
        Of(callers, itemLevel) ==
            /\ {x.sym : x \in ToSet(callers)} = {s.sym : s \in {t \in spans : Mine(t.sym) # {}}}
            /\ \A i, j \in DOMAIN callers : callers[i].sym = callers[j].sym => i = j
            /\ \A x \in ToSet(callers) : x.sites = Locs(Those(rows, Mine(x.sym))) /\ x.defPath = x.sites[1][1]
            /\ itemLevel = Locs(Those(rows, Bare))
        With(who) == Of(who.callers, who.itemLevel)
    IN  /\ With(Attribute(rows, spans))
        /\ \A o \in ToSet(rows) : o \notin Bare =>
             \E s \in spans : \A sym \in {t.sym : t \in spans} : Owns(spans, sym, o) <=> sym = s.sym

\* An edge joins a function to one it refers to and counts the references, and
\* the edges are the same from either face.
EdgesCounted(index) ==
    LET Calls(scan, spans, f, c) ==
            {i \in DOMAIN scan : ~scan[i].def /\ scan[i].sym = c /\ Owns(spans, f, scan[i])}
        Ends(scan, spans) ==
            {p \in {s.sym : s \in spans} \X {c \in SymbolsOf(scan) : FnTailName(c) # None} :
               Calls(scan, spans, p[1], p[2]) # {}}
        In(scan, spans) ==
            /\ DeriveEdges(scan, spans).edges =
                 {[caller |-> p[1], callee |-> p[2], sites |-> Cardinality(Calls(scan, spans, p[1], p[2]))] :
                    p \in Ends(scan, spans)}
            /\ DeriveEdges(BuildDb(index).occs, spans) = DeriveEdges(scan, spans)
    IN  In(Scan(index), FnSpans(index))
=============================================================================
