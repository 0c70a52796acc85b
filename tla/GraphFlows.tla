----------------------------- MODULE GraphFlows -----------------------------
(***************************************************************************)
(* Execution flows: where one may enter the program, what each entry point *)
(* reaches by calls, how critical that is, and which flows a change        *)
(* touches (graph_engine.rs).  A node says whether its name is a           *)
(* conventional entry's (entry) and whether it hits a security keyword     *)
(* (sec); a build of this program writes no decorators.                    *)
(***************************************************************************)
EXTENDS GraphRank

\* detect_entry_points: production functions nothing but a file calls, and
\* those named like one.
DetectEntryPoints(g, includeTests) ==
    LET FromFile(e) == e.from \in Known(g) /\ NodeOf(g, e.from).kind = "File"
        called == {g.edges[i].to : i \in {j \in DOMAIN g.edges :
                      g.edges[j].kind = "CALLS" /\ ~FromFile(g.edges[j])}}
    IN  SelectSeq(g.nodes, LAMBDA n :
            /\ n.kind \in {"Function", "Test"}
            /\ includeTests \/ ~n.test
            /\ n.sym \notin called \/ n.entry)

\* The calls of a symbol in row order, duplicates and unknown targets too.
CallsOut(g, s) == Ends(g, {"CALLS"}, "from", s, "to")

Least(a, b) == IF a < b THEN a ELSE b

\* compute_criticality, in ten-thousandths: the spread over files, calls out
\* of the graph, security names, untested nodes (no build writes a TESTED_BY)
\* and depth.  Each factor but the security one is a whole number of
\* ten-thousandths.
Criticality(g, path, depth) ==
    LET n == Len(path)
        files == Cardinality({NodeOf(g, path[i]).path : i \in DOMAIN path})
        External(s) == Len(SelectSeq(CallsOut(g, s), LAMBDA t : t \notin Known(g)))
        external == SumFunction(Each(path, External))
        security == Len(SelectSeq(path, LAMBDA s : NodeOf(g, s).sec))
        Round(num, den) == (2 * num + den) \div (2 * den)
    IN  750 * Least(files - 1, 4) + 400 * Least(external, 5)
        + Round(2500 * security, n) + 1500 + 100 * Least(depth, 10)

NewTarget(g, st, taken, t) == t \in Known(g) /\ t \notin ToSet(st.path)

\* The breadth-first walk from an entry point: path is its queue too.
Flow(g, entry, maxDepth) ==
    LET Push(st, i, t) ==
            IF ~NewTarget(g, st, i, t) THEN st
            ELSE [path |-> Append(st.path, t), depth |-> Append(st.depth, st.depth[i] + 1)]
        Pop(st, i) ==
            IF i > Len(st.path) \/ st.depth[i] >= maxDepth THEN st
            ELSE FoldLeft(LAMBDA a, t : Push(a, i, t), st, CallsOut(g, st.path[i]))
        Of(path, depth) ==
            [entry |-> entry, path |-> path, depth |-> depth,
             files |-> FirstSeen(Each(path, LAMBDA s : NodeOf(g, s).path)),
             criticality |-> Criticality(g, path, depth)]
        Walked(walk) == Of(walk.path, Max(ToSet(walk.depth)))
    IN  Walked(FoldLeft(Pop, [path |-> <<entry>>, depth |-> <<0>>],
                        [i \in 1 .. Len(g.nodes) |-> i]))

TraceFlows(g, maxDepth, includeTests) ==
    StableSort(SelectSeq(Each(DetectEntryPoints(g, includeTests),
                              LAMBDA n : Flow(g, n.sym, maxDepth)),
                         LAMBDA f : Len(f.path) > 1),
               LAMBDA a, b : a.criticality > b.criticality)

\* affected_flows: only a path spelled as the graph spells it counts.
AffectedFlows(g, files, maxDepth, includeTests) ==
    SelectSeq(TraceFlows(g, maxDepth, includeTests),
              LAMBDA f : \E i \in DOMAIN f.path : NodeOf(g, f.path[i]).path \in files)
=============================================================================
