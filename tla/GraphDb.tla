------------------------------ MODULE GraphDb ------------------------------
(***************************************************************************)
(* What one graph build makes of an index: nodes, call and reference edges *)
(* and the counts of what it left out (graph_db.rs), and what hub_refs     *)
(* reads back from it (hub_refs.rs).  An occurrence has a column besides   *)
(* what QueryFaces needs; marks are the call sites the syntax readers      *)
(* found in the sources, by line in Python, by column in TypeScript.       *)
(***************************************************************************)
EXTENDS QueryFaces

CONSTANT TestPath    \* the path is_test_path takes for a test file

\* The rows the ingest gate lets through, of either face.
GraphScan(rows) ==
    LET Kept(o) == IngestSymbol(o.sym, o.lang)
        kept == SelectSeq(rows, Kept)
    IN  [defs |-> SelectSeq(kept, LAMBDA o : o.def),
         refs |-> SelectSeq(kept, LAMBDA o : ~o.def),
         skipped |-> Len(rows) - Len(kept)]

\* The nearest definition above a reference: the harvest face has no spans.
AttributeNearest(defs, refs) ==
    LET Before(o, i) == defs[i].path = o.path /\ defs[i].line <= o.line
        Above(o) == {i \in DOMAIN defs : Before(o, i)}
        Caller(o) == LET last == Max({defs[i].line : i \in Above(o)})
                     IN  defs[CHOOSE i \in Above(o) : defs[i].line = last].sym
        Row(o) == [from |-> Caller(o), to |-> o.sym, path |-> o.path, lang |-> o.lang,
                   line |-> o.line, col |-> -1]
        owned == SelectSeq(refs, LAMBDA o : Above(o) # {})
        calls == SelectSeq(owned, LAMBDA o : Caller(o) # o.sym)
    IN  [rows |-> [i \in DOMAIN calls |-> Row(calls[i])],
         itemLevel |-> Len(refs) - Len(owned),
         selfRefs |-> Len(owned) - Len(calls)]

\* One row per site, and in TypeScript per column the symbol has on its line.
AttributeSpans(refs, spans) ==
    LET callees == {refs[i].sym : i \in DOMAIN refs}
        Group(c) == Attribute(SelectSeq(refs, LAMBDA o : o.sym = c), spans)
        Here(c, site) == SelectSeq(refs, LAMBDA o :
                            o.sym = c /\ o.path = site[1] /\ o.line = site[2])
        Cols(c, site) == LET here == Here(c, site)
                         IN  IF here[1].lang = "ts" THEN {here[i].col : i \in DOMAIN here}
                             ELSE {-1}
        Rows(c, caller) ==
            UNION {{[from |-> caller.sym, to |-> c, path |-> site[1],
                     lang |-> Here(c, site)[1].lang, line |-> site[2], col |-> col]
                      : col \in Cols(c, site)} : site \in ToSet(caller.sites)}
        Others(c) == {x \in ToSet(Group(c).callers) : x.sym # c}
    IN  [rows |-> SetToSeq(UNION {UNION {Rows(c, x) : x \in Others(c)} : c \in callees}),
         itemLevel |-> MapThenSumSet(LAMBDA c : Len(Group(c).itemLevel), callees),
         selfRefs |-> MapThenSumSet(LAMBDA c : MapThenSumSet(LAMBDA x : Len(x.sites),
                          ToSet(Group(c).callers) \ Others(c)), callees)]

\* A site that carries a call to the symbol, or to the class it constructs.
IsCall(row, marks) ==
    \E name \in {FnTailName(row.to), row.to.owner} \ {None} :
        IF row.lang = "ts" /\ row.col >= 0
        THEN <<row.path, row.line, row.col, name>> \in marks.ts
        ELSE <<row.path, row.line, name>> \in marks.py

\* build_from_cache_locked, from the rows of a face to the tables.  A symbol
\* is one node, its first definition by file and line; an edge is its kind,
\* ends, file and line; what has no definition here is counted as external.
BuildGraph(rows, spans, marks, harvest) ==
    LET Earlier(a, b) == a.path < b.path \/ (a.path = b.path /\ a.line <= b.line)
        First(defs) == CHOOSE d \in defs : \A e \in defs : Earlier(d, e)
        Defs(scan, s) == {d \in ToSet(scan.defs) : d.sym = s}
        Syms(scan) == {scan.defs[i].sym : i \in DOMAIN scan.defs}
        Node(s, d) == [sym |-> s, name |-> s.name, qname |-> <<d.path, s.name>>,
                       kind |-> IF s.kind = "fn" THEN "Function" ELSE "Type",
                       path |-> d.path, line |-> d.line, lang |-> d.lang, test |-> d.path = TestPath]
        Edge(r) == [kind |-> IF ~harvest /\ IsCall(r, marks) THEN "CALLS" ELSE "REFERENCES",
                    from |-> r.from, to |-> r.to, path |-> r.path, line |-> r.line]
        Kept(att, known) == SelectSeq(att.rows, LAMBDA r : r.to \in known)
        Tables(scan, att, kept) ==
            [nodes |-> {Node(s, First(Defs(scan, s))) : s \in Syms(scan)},
             edges |-> {Edge(kept[i]) : i \in DOMAIN kept},
             itemLevel |-> att.itemLevel, selfRefs |-> att.selfRefs,
             external |-> Len(att.rows) - Len(kept), nonFn |-> scan.skipped]
        With(scan, att) == Tables(scan, att, Kept(att, Syms(scan)))
        Of(scan) == With(scan, IF harvest THEN AttributeNearest(scan.defs, scan.refs)
                               ELSE AttributeSpans(scan.refs, spans))
    IN  Of(GraphScan(rows))

\* The build from the cache when there is one, from the index otherwise.
GraphFromIndex(index, marks) ==
    BuildGraph(Scan(index), FnSpans(index), marks, FALSE)
GraphFromCache(index, marks) ==
    BuildGraph(BuildDb(index).occs, FnSpans(index), marks, FALSE)

SymbolLanguages(g, name) == {n.lang : n \in {m \in g.nodes : m.name = name}}
=============================================================================
