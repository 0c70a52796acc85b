----------------------------- MODULE MCAnswers -----------------------------
(***************************************************************************)
(* The pure algorithms of the query side over bounded inputs: a state is   *)
(* one input of one algorithm, the properties compare what the code        *)
(* computes with what it means.                                            *)
(***************************************************************************)
EXTENDS Integers, FiniteSets, Sequences, TLC

CONSTANTS None, TestPath, Excluded, OutsideRepo, TriggerProd

VARIABLES alg,   \* which algorithm
          in     \* its input

vars == <<alg, in>>

Q == INSTANCE HubRefs

Given(a) == alg = a /\ in # <<>>

---------------------------------------------------------------------------
(* Indexes: a Rust or Python document and a TypeScript one.  A producer    *)
(* never mixes languages under one symbol.                                 *)

Sym(kind, name, py, owner) == [kind |-> kind, name |-> name, py |-> py, owner |-> owner]
FnF  == Sym("fn", "f", FALSE, None)
FnG  == Sym("fn", "g", FALSE, None)
RsC  == Sym("class", "C", FALSE, None)
RsCf == Sym("fn", "f", FALSE, "C")
PyC  == Sym("class", "C", TRUE, None)
TsC  == [Sym("class", "C", FALSE, None) EXCEPT !.owner = "ts"]
Var  == Sym("other", "f", FALSE, None)

Enc(arity, from, to) == [arity |-> arity, from |-> from, to |-> to]
NoEnc == Enc(0, 0, 0)
DefAt(s, line, enc) == [sym |-> s, line |-> line, col |-> 0, def |-> TRUE, enc |-> enc]
RefCol(s, line, col) == [sym |-> s, line |-> line, col |-> col, def |-> FALSE, enc |-> NoEnc]
RefAt(s, line) == RefCol(s, line, 0)

Doc(path, lang, occs) == [path |-> path, lang |-> lang, occs |-> occs]

SeqUpTo(S, n) == UNION {[1 .. k -> S] : k \in 0 .. n}

Names == {DefAt(FnF, 1, NoEnc), RefAt(FnF, 2), RefAt(Var, 2)}
RsOccs == Names \cup {DefAt(RsC, 1, NoEnc), RefAt(RsC, 3), DefAt(RsCf, 2, NoEnc), RefAt(RsCf, 3)}
PyOccs == Names \cup {DefAt(PyC, 1, NoEnc), RefAt(PyC, 2)}
TsOccs == Names \cup {DefAt(TsC, 1, NoEnc), RefAt(TsC, 2)}

TwoDocs ==
    {<<Doc(1, l, o1), Doc(2, "ts", o2)>> :
        l \in {"rs"}, o1 \in SeqUpTo(RsOccs, 2), o2 \in SeqUpTo(TsOccs, 1)}
    \cup {<<Doc(1, "py", o1), Doc(2, "py", o2)>> :
            o1 \in SeqUpTo(PyOccs, 2), o2 \in SeqUpTo(PyOccs, 2)}

TypeOrName == [type : {None, "C"}, name : {"f", "C"}]
OneFile == "f" :> {1, 2}

---------------------------------------------------------------------------
Spans == {DefAt(FnF, 1, Enc(4, 1, 3)), DefAt(FnG, 1, Enc(4, 1, 3)), DefAt(FnG, 2, Enc(3, 2, 9)),
          DefAt(RsCf, 2, Enc(4, 2, 3)), DefAt(FnF, 4, NoEnc), DefAt(FnG, 4, Enc(2, 4, 4))}
EdgeOccs == Spans \cup {RefAt(s, l) : s \in {FnF, FnG}, l \in {2, 3}} \cup {RefAt(Var, 2)}
SpannedDocs == {<<Doc(1, "rs", o)>> : o \in SeqUpTo(EdgeOccs, 3)}
    \cup {<<Doc(1, "rs", o1), Doc(2, "rs", o2)>> : o1 \in SeqUpTo(Spans, 1), o2 \in SeqUpTo(EdgeOccs, 2)}

\* What an index holds of references is what its edges and the item level hold.
ReferencesCounted ==
    Given("edges") =>
        LET Of(derived) ==
              /\ derived.refSites = derived.itemLevel + Q!MapThenSumSet(LAMBDA e : e.sites, derived.edges)
              /\ derived.workspace \subseteq derived.edges
        IN  Of(Q!DeriveEdges(Q!Scan(in), Q!FnSpans(in)))

---------------------------------------------------------------------------
Syms == {"a", "b", "c", "d"}
CallGraphs == {[calls |-> g] : g \in {h \in [Syms -> SUBSET Syms] : h["d"] = {} /\ Cardinality(h["a"]) <= 2}}
CallersIn(g, s) ==
    LET order == SelectSeq(<<"a", "b", "c", "d">>, LAMBDA t : t \in g[s])
    IN  [i \in DOMAIN order |-> [sym |-> order[i], defPath |-> IF order[i] = "a" THEN "p" ELSE "q"]]

\* Level d of a closure holds the symbols d calls away from the seeds and no
\* nearer, each once, counted under its file; what was seen before is counted
\* as a re-entry, so the walk ends on every cycle.
ClosureLevels ==
    Given("closure") =>
        LET got == Q!Closure(<<"a">>, [s \in Syms |-> CallersIn(in.calls, s)], 3)
            Reached[d \in 0 .. 3] ==
                IF d = 0 THEN {"a"} ELSE Reached[d-1] \cup UNION {in.calls[s] : s \in Reached[d-1]}
            Edges == Q!MapThenSumSet(LAMBDA s : Cardinality(in.calls[s]), Reached[2])
        IN  /\ Len(got.levels) = 3
            /\ \A d \in 1 .. 3 :
                 LET level == got.levels[d]
                 IN  /\ Q!ToSet(level.new) = Reached[d] \ Reached[d-1]
                     /\ Len(level.new) = Cardinality(Q!ToSet(level.new))
                     /\ Q!MapThenSumSet(LAMBDA p : level.byFile[p], DOMAIN level.byFile)
                          = Len(level.new)
            /\ got.reentries = Edges - Cardinality(Reached[3] \ {"a"})

---------------------------------------------------------------------------
(* Graph builds: a Python document, a TypeScript one, and the call sites   *)
(* the syntax readers found.                                               *)

PyF == Sym("fn", "f", TRUE, None)
PyG == Sym("fn", "g", TRUE, None)
PyInit == Sym("fn", "init", TRUE, "C")
TsG == Sym("fn", "g", FALSE, None)

PyDocs == {<<DefAt(PyF, 1, Enc(4, 1, 3))>> \o o :
             o \in SeqUpTo({DefAt(PyG, 4, Enc(4, 4, 5)), DefAt(PyInit, 4, NoEnc), RefAt(PyF, 2),
                            RefAt(PyG, 2), RefAt(PyInit, 3), RefAt(PyG, 9), RefAt(Var, 2)}, 2)}
TsDocs == {<<DefAt(TsG, 1, Enc(4, 1, 3)), DefAt(TsC, 5, NoEnc)>> \o o :
             o \in SeqUpTo({DefAt(FnF, 2, Enc(3, 2, 2)), RefCol(TsG, 2, 1), RefCol(TsG, 2, 5),
                            RefCol(FnF, 3, 1)}, 2)}

MarkSets == [py : SUBSET {<<1, 2, "g">>, <<1, 3, "C">>}, ts : SUBSET {<<2, 2, 1, "g">>, <<2, 3, 1, "f">>}]
GraphInputs == [index : {<<Doc(1, "py", p), Doc(2, "ts", t)>> : p \in PyDocs, t \in TsDocs},
                marks : MarkSets]

\* A graph holds what the index and the marks say, from whichever face it was
\* built: an edge for every reference inside a function to another symbol
\* known here, a CALLS where that very site carries a call, its two ends
\* nodes; what is left out is counted.
GraphFaithful ==
    Given("graph") =>
        LET rows == Q!ToSet(Q!Scan(in.index))
            refs == {o \in rows : ~o.def /\ o.sym.kind # "other"}
            known == {o.sym : o \in {r \in rows : r.def /\ r.sym.kind # "other"}}
            Called(o) == \E n \in {o.sym.name, o.sym.owner} \ {None} :
                            \/ o.lang = "py" /\ <<o.path, o.line, n>> \in in.marks.py
                            \/ o.lang = "ts" /\ <<o.path, o.line, o.col, n>> \in in.marks.ts
            Edge(o, owner) == [kind |-> IF Called(o) THEN "CALLS" ELSE "REFERENCES",
                               from |-> owner.sym, to |-> o.sym, path |-> o.path, line |-> o.line]
            Faithful(g, owned, back) ==
                /\ g.edges = {Edge(p[1], p[2]) : p \in {x \in owned : /\ x[1].sym \in known
                                                                      /\ x[2] # None /\ x[2].sym # x[1].sym}}
                /\ \A e \in g.edges : {e.from, e.to} \subseteq {n.sym : n \in g.nodes}
                /\ Cardinality(g.nodes) = Cardinality({n.sym : n \in g.nodes})
                /\ (g.itemLevel > 0) = (\E p \in owned : p[2] = None)
                /\ [g EXCEPT !.nonFn = 0] = [back EXCEPT !.nonFn = 0]
            Owned(spans) == {<<o, Q!Innermost(spans, o.path, o.line)>> : o \in refs}
        IN  Faithful(Q!GraphFromIndex(in.index, in.marks), Owned(Q!FnSpans(in.index)),
                     Q!GraphFromCache(in.index, in.marks))

---------------------------------------------------------------------------
Node(sym, path, lang, test) ==
    [sym |-> sym, name |-> sym.name, qname |-> <<path, sym.name>>, path |-> path,
     kind |-> "Function", line |-> 1, lang |-> lang, test |-> test]
HubNodes == {Node(PyF, 1, "py", FALSE), Node(PyG, 1, "py", FALSE), Node(TsG, 2, "ts", FALSE),
             Node(PyInit, 3, "py", TRUE), Node(FnF, 4, "rs", FALSE)}
HubEdge(kind, from, to, line) ==
    [kind |-> kind, from |-> from, to |-> to, path |-> 1, line |-> line]
HubEdges == {HubEdge("CALLS", PyG, PyF, 1), HubEdge("CALLS", PyG, PyF, 2), HubEdge("CALLS", PyInit, PyF, 3),
             HubEdge("CALLS", FnF, PyF, 4), HubEdge("REFERENCES", TsG, PyF, 5), HubEdge("CALLS", PyF, TsG, 6)}
HubAsks == [form : {"bare", "dotted", "qualified"}, name : {"f", "g", "typo"}, path : {1, 2}, lang : {"py"}]

HubInputs ==
    [g : [nodes : {S \in SUBSET HubNodes : Node(PyF, 1, "py", FALSE) \in S}, edges : SUBSET HubEdges],
     req : {[r EXCEPT !.lang = IF r.path = 2 THEN "ts" ELSE "py"] : r \in HubAsks},
     classFile : BOOLEAN]

HubAnswer == Q!HubRefsRun(in.g, in.req, in.classFile, "callers", 9, FALSE)

\* A count of callers accounts for every call of the symbol as production,
\* test, excluded or outside; a count of next to none comes with the full
\* hazard scan, or with a mark that there is none for such a target; and one
\* of several same-named symbols is never counted as if it were all.
HubAccounts ==
    Given("hub") =>
        LET a == HubAnswer
            Named == {n \in in.g.nodes : n.path \notin Excluded \cup OutsideRepo
                        /\ IF in.req.form = "bare" THEN n.name = in.req.name
                           ELSE n.qname = <<in.req.path, in.req.name>>}
        IN  /\ a.agg.totalProd + a.agg.totalTest + a.agg.excluded + a.agg.outside
                 = Cardinality({e \in in.g.edges : a.status = "ok" /\ a.key # None
                                                   /\ e.to = a.key /\ e.kind = "CALLS"})
            /\ a.exit = 0 /\ a.agg.totalProd <= TriggerProd =>
                 a.level \in {"full", "unsupported-js-ts"}
            /\ (a.exit = 0 /\ \E n \in in.g.nodes : n.sym = a.key /\ n.lang = "ts")
                 => a.level = "unsupported-js-ts"
            /\ in.req.form # "dotted" /\ Cardinality(Named) > 1 => a.exit = 1

---------------------------------------------------------------------------
Algorithms == {"closure", "graph", "hub"}

Start == alg \in Algorithms /\ in = <<>>

Input ==
    \/ alg = "closure" /\ in' \in CallGraphs
    \/ alg = "graph" /\ in' \in GraphInputs
    \/ alg = "hub" /\ in' \in HubInputs

Spec == Start /\ [][in = <<>> /\ Input /\ UNCHANGED alg]_vars
=============================================================================
