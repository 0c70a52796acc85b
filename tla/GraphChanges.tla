---------------------------- MODULE GraphChanges ----------------------------
(***************************************************************************)
(* What a change touches and how risky it is: the derived tables a graph   *)
(* build leaves (graph_db.rs), the functions under a diff's hunks, their   *)
(* risk, and the contexts composed of them (graph_engine.rs).  A node lies *)
(* on the lines from line to last; a build writes both alike (graph_db.rs).*)
(***************************************************************************)
EXTENDS GraphFlows

CONSTANTS GluedTails,   \* pairs <<path, file>>: path's text ends with file's, inside a segment
          MaxFuncs      \* functions a detection reports (500 in the code)

\* materialize_derived_at: flows by their number, communities by node; both
\* tables and the column are emptied first, all in one transaction.
MaterializeDerived(g, communities) ==
    [flows |-> TraceFlows(g, 15, FALSE),
     community |-> [s \in UNION {communities[c] : c \in DOMAIN communities} |->
                       Max({c \in DOMAIN communities : s \in communities[c]})]]

\* map_changes_to_nodes: a file by its path, or by the end of its text when no
\* node has the path; hunks is a sequence of files, each with its ranges.
LikeSuffix(path, file) == PathMatches(path, file) \/ <<path, file>> \in GluedTails

\* Mutant: a node reached by two files is reported twice.
AddAlways(acc, n) == Append(acc, n)

AddOnce(acc, n) ==
    IF \E i \in DOMAIN acc : acc[i].sym = n.sym THEN acc ELSE Append(acc, n)

MapChangesToNodes(g, hunks) ==
    LET Exact(h) == SelectSeq(g.nodes, LAMBDA n : n.path = h.file)
        Like(h)  == SelectSeq(g.nodes, LAMBDA n : LikeSuffix(n.path, h.file))
        Rows(h)  == IF Exact(h) # <<>> THEN Exact(h) ELSE Like(h)
        Hit(n, h) == \E r \in h.ranges : n.line <= r[2] /\ n.last >= r[1]
        File(acc, h) == FoldLeft(AddOnce, acc, SelectSeq(Rows(h), LAMBDA n : Hit(n, h)))
    IN  FoldLeft(File, <<>>, hunks)

\* compute_risk_score, in ten-thousandths: the stored flows through the node,
\* callers from other communities, no test (no build writes a TESTED_BY), a
\* security name, callers.  Churn is never passed.
RiskScore(g, derived, n) ==
    LET through == SelectSeq(derived.flows, LAMBDA f : n.sym \in ToSet(f.path))
        flow    == SumFunction(Each(through, LAMBDA f : f.criticality))
        callers == ToSet(Ends(g, {"CALLS"}, "to", n.sym, "from"))
        crossing == {s \in callers : /\ {n.sym, s} \subseteq DOMAIN derived.community
                                     /\ derived.community[s] # derived.community[n.sym]}
    IN  Least(flow, 2500) + Least(500 * Cardinality(crossing), 1500) + 3000
        + (IF n.sec THEN 2000 ELSE 0) + Least(500 * Cardinality(callers), 1000)

RiskBand(score) == IF score > 7000 THEN "high" ELSE IF score > 4000 THEN "medium" ELSE "low"

\* detect_changes: the nodes under the hunks, or without a base every node of
\* the files named, spelled as the graph spells them.
NoHunks == <<"no base">>

DetectChanges(g, derived, files, hunks) ==
    LET rows == IF hunks # NoHunks THEN MapChangesToNodes(g, hunks)
                ELSE FlattenSeq(Each(files, LAMBDA f : SelectSeq(g.nodes, LAMBDA n : n.path = f)))
        Sym(r) == r.sym
        Rated(funcs) == Each(funcs, LAMBDA n : [sym |-> n.sym, risk |-> RiskScore(g, derived, n)])
        Report(all, funcs, rated) ==
            [functions |-> rated,
             risk |-> Max({rated[i].risk : i \in DOMAIN rated} \cup {0}),
             affected |-> AffectedFlows(g, ToSet(files), 15, FALSE),
             gaps |-> Each(SelectSeq(funcs, LAMBDA n : ~n.test), Sym),
             priorities |-> AtMost(Each(StableSort(rated, LAMBDA a, b : a.risk > b.risk), Sym), 10),
             truncated |-> Len(all) > MaxFuncs]
        Of(all) == Report(all, AtMost(all, MaxFuncs), Rated(AtMost(all, MaxFuncs)))
    IN  Of(SelectSeq(rows, LAMBDA n : n.kind \in {"Function", "Test", "Class"}))

\* get_minimal_context: a risk only when files are named; get_review_context
\* joins the impact of the same files with their test gaps.
MinimalContext(g, derived, files) ==
    LET Of(found) ==
            [risk |-> IF files = <<>> THEN "unknown" ELSE RiskBand(found.risk),
             entities |-> IF files = <<>> THEN <<>>
                          ELSE AtMost(Each(found.functions, LAMBDA r : NodeOf(g, r.sym).name), 5),
             gaps |-> IF files = <<>> THEN 0 ELSE Len(found.gaps)]
    IN  Of(DetectChanges(g, derived, files, NoHunks))

ReviewContext(g, derived, files, maxDepth) ==
    [impact |-> ImpactRadius(g, ToSet(files), maxDepth, 500),
     gaps |-> DetectChanges(g, derived, files, NoHunks).gaps]
=============================================================================
