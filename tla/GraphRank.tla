----------------------------- MODULE GraphRank -----------------------------
(***************************************************************************)
(* What the graph engine computes from a graph's tables by degree,         *)
(* betweenness and distance (graph_engine.rs).  A graph is its nodes and   *)
(* its edges in row order: the sort that ranks an answer is stable and     *)
(* ties keep it.  A score is an integer in the unit named beside it.       *)
(***************************************************************************)
EXTENDS Counting, FiniteSetsExt

CONSTANT ScoreFloor     \* IMPACT_SCORE_FLOOR, in millionths

NodesAt(g, sym) == {i \in DOMAIN g.nodes : g.nodes[i].sym = sym}
NodeOf(g, sym)  == g.nodes[CHOOSE i \in NodesAt(g, sym) : TRUE]
Known(g)        == {g.nodes[i].sym : i \in DOMAIN g.nodes}

\* load_edges, by one end, of the kinds asked for.
Ends(g, kinds, from, sym, to) ==
    Each(SelectSeq(g.edges, LAMBDA e : e.kind \in kinds /\ e[from] = sym), LAMBDA e : e[to])
Kinds(g) == {g.edges[i].kind : i \in DOMAIN g.edges}

\* impact_weight, in tenths; a TESTED_BY, an inheritance or a containment
\* edge is never written by a build of this program.
ImpactWeight(kind) == IF kind = "CALLS" THEN 10 ELSE 6

---------------------------------------------------------------------------
\* find_hub_nodes: a node's degree counts every row of the edge table.
HubNodes(g, topN) ==
    LET In(s)  == Len(Ends(g, Kinds(g), "to", s, "from"))
        Out(s) == Len(Ends(g, Kinds(g), "from", s, "to"))
        rows == Each(g.nodes, LAMBDA n : [sym |-> n.sym, total |-> In(n.sym) + Out(n.sym)])
        kept == SelectSeq(rows, LAMBDA r : r.total > 0)
    IN  AtMost(StableSort(kept, LAMBDA a, b : a.total > b.total), topN)

\* w continues a shortest path through v.
SameLevel(st, v, w) == w \in DOMAIN st.dist => st.dist[w] = st.dist[v] + 1

\* One source of find_bridge_nodes: Brandes' search, its queue left in the
\* order of the visits, then the dependencies from the last visit back, in
\* sixtieths: no pair of the graphs checked has more than six shortest paths.
Dependencies(succ, s) ==
    LET Relax(st, v, w) ==
            IF ~SameLevel(st, v, w) THEN st
            ELSE [st EXCEPT
                    !.queue = IF w \in DOMAIN st.dist THEN @ ELSE Append(@, w),
                    !.dist  = (w :> st.dist[v] + 1) @@ @,
                    !.sigma = (w :> st.sigma[v] + (IF w \in DOMAIN @ THEN @[w] ELSE 0)) @@ @,
                    !.preds = (w :> Append(IF w \in DOMAIN @ THEN @[w] ELSE <<>>, v)) @@ @]
        Pop(st, i) ==
            IF i > Len(st.queue) THEN st
            ELSE FoldLeft(LAMBDA a, w : Relax(a, st.queue[i], w), st, succ[st.queue[i]])
        seen == FoldLeft(Pop, [queue |-> <<s>>, dist |-> s :> 0, sigma |-> s :> 1,
                               preds |-> s :> <<>>],
                         [i \in 1 .. Cardinality(DOMAIN succ) |-> i])
        Back(delta, v) ==
            FoldLeft(LAMBDA d, p : [d EXCEPT ![p] =
                        @ + (seen.sigma[p] * (60 + delta[v])) \div seen.sigma[v]],
                     delta, seen.preds[v])
    IN  FoldLeft(Back, [v \in DOMAIN succ |-> 0], Reverse(seen.queue))

\* Ids follow the sorted pairs, parallel edges count once, and only what lies
\* between two others is a bridge.  (Above 5000 nodes the code samples its
\* sources.)
BridgeNodes(g, topN) ==
    LET pairs == Ranked({<<g.edges[i].from, g.edges[i].to>> : i \in DOMAIN g.edges},
                              LAMBDA a, b : a[1] < b[1] \/ (a[1] = b[1] /\ a[2] < b[2]))
        ids   == FirstSeen(FlattenSeq(pairs))
        succ  == [v \in ToSet(ids) |->
                    Each(SelectSeq(pairs, LAMBDA p : p[1] = v), LAMBDA p : p[2])]
        Through(rows, s) ==
            LET delta == Dependencies(succ, s)
            IN  Each(rows, LAMBDA r : IF r.sym = s THEN r
                                      ELSE [r EXCEPT !.score = @ + delta[r.sym]])
        rows  == FoldLeft(Through, Each(ids, LAMBDA v : [sym |-> v, score |-> 0]), ids)
        kept  == SelectSeq(rows, LAMBDA r : r.score > 0 /\ r.sym \in Known(g))
    IN  AtMost(StableSort(kept, LAMBDA a, b : a.score > b.score), topN)

---------------------------------------------------------------------------
\* A changed file names a node's path, or a suffix of it from a "/" on.
PathMatches(path, file) == path = file \/ (Len(file) < Len(path) /\ IsSuffix(file, path))

\* Mutant: the first score a symbol gets is kept, as in an unweighted search.
ImprovesFirst(best, s, score) == s \notin DOMAIN best

Improves(best, s, score) == s \notin DOMAIN best \/ score > best[s]

\* The relaxation of impact_radius: each round spreads the frontier's scores
\* over the edges of either direction, with a decay of six tenths.
ImpactScores(g, seeds, maxDepth) ==
    LET Step(score, kind) == (score * ImpactWeight(kind) * 6) \div 100
        Touches(e, a, b) == <<e.from, e.to>> \in {<<a, b>>, <<b, a>>}
        Offers(frontier, t) ==
            UNION {{Step(frontier[s], g.edges[i].kind) :
                       i \in {j \in DOMAIN g.edges : Touches(g.edges[j], s, t)}}
                   : s \in DOMAIN frontier}
        Round(st, d) ==
            LET Best(t) == Max(Offers(st.frontier, t) \cup {0})
                ends == UNION {{g.edges[i].from, g.edges[i].to} : i \in DOMAIN g.edges}
                next == {t \in ends : Best(t) > ScoreFloor /\ Improves(st.best, t, Best(t))}
                grown == [t \in next |-> Best(t)]
            IN  [best |-> grown @@ st.best, frontier |-> grown]
        start == [s \in seeds |-> 1000000]
    IN  FoldLeft(Round, [best |-> start, frontier |-> start], [d \in 1 .. maxDepth |-> d]).best

\* impact_radius: the impacted rows are ranked by score and symbol before the
\* cut; the answer's list is sorted again, by the scores found under the nodes'
\* qualified names and then by these: but the map's keys are symbols.
ImpactRadius(g, files, maxDepth, maxNodes) ==
    LET changed == SelectSeq(g.nodes, LAMBDA n : \E f \in files : PathMatches(n.path, f))
        seeds == {changed[i].sym : i \in DOMAIN changed}
        Hits(scores) == Ranked((DOMAIN scores \ seeds) \cap Known(g), LAMBDA a, b :
            scores[a] > scores[b] \/ (scores[a] = scores[b] /\ a < b))
        Listed(scores, rows) ==
            LET ByQn(q) == IF q \in ToSet(rows) THEN scores[q] ELSE 0
                Qn(s)   == NodeOf(g, s).qname
            IN  StableSort(rows, LAMBDA a, b :
                    ByQn(Qn(a)) > ByQn(Qn(b)) \/ (ByQn(Qn(a)) = ByQn(Qn(b)) /\ Qn(a) < Qn(b)))
        Answer(scores, total, rows) ==
            [note |-> IF files = {} THEN "vacuous" ELSE IF seeds = {} THEN "missed" ELSE "none",
             changed |-> changed, impacted |-> Listed(scores, rows),
             impactedFiles |-> FirstSeen([i \in DOMAIN rows |-> NodeOf(g, rows[i]).path]),
             edges |-> SelectSeq(g.edges, LAMBDA e : {e.from, e.to} \subseteq seeds \cup ToSet(rows)),
             total |-> total, truncated |-> total > maxNodes,
             scores |-> [s \in ToSet(rows) |-> scores[s]]]
        Cut(scores, ranked) == Answer(scores, Len(ranked), AtMost(ranked, maxNodes))
        Of(scores) == Cut(scores, Hits(scores))
    IN  Of(ImpactScores(g, seeds, maxDepth))
=============================================================================
