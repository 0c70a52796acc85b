------------------------------ MODULE MCGraphs ------------------------------
(***************************************************************************)
(* The graph engine over small graphs: a state is one input of one of its  *)
(* computations, the properties compare what the code computes with what   *)
(* it means.  Symbols, names and paths are numbers where only their order  *)
(* and equality matter.                                                    *)
(***************************************************************************)
EXTENDS Integers, FiniteSets, Sequences, TLC

CONSTANTS ScoreFloor, MaxFuncs, Qualify, HighCoupling, CommonWords

VARIABLES alg,   \* which computation
          in     \* its input

vars == <<alg, in>>

Glued == {<<<<"r", "b", "xx">>, <<"x">>>>}

IsTestName(name) == name[1] = "test"

E == INSTANCE GraphChanges WITH GluedTails <- Glued
C == INSTANCE GraphCommunities

Given(a) == alg = a /\ in # <<>>

Range1(n) == [i \in 1 .. n |-> i]
Rows(pairs, Kind(_)) ==
    LET order == E!Ranked(pairs, LAMBDA a, b : a[1] < b[1] \/ (a[1] = b[1] /\ a[2] < b[2]))
    IN  [i \in DOMAIN order |-> [kind |-> Kind(order[i]), from |-> order[i][1], to |-> order[i][2]]]
Call(p) == "CALLS"

\* The files of the nodes, and what a name says of itself.
Path(i) == CASE i = 1 -> <<"r", "a", "x">> [] i = 2 -> <<"r", "a", "x">>
             [] i = 3 -> <<"r", "b", "x">> [] OTHER -> <<"r", "b", "xx">>
Node(i) == [sym |-> i, qname |-> 20 - i, name |-> i, path |-> Path(i), line |-> i, last |-> i,
            kind |-> "Function", test |-> FALSE, entry |-> FALSE, sec |-> i = 2]
Nodes(n) == [i \in 1 .. n |-> Node(i)]

---------------------------------------------------------------------------
Pairs(n) == {p \in (1 .. n) \X (1 .. n) : p[1] # p[2]}
RankInputs ==
    LET some == {p \in Pairs(5) : p[1] < p[2] /\ p \notin {<<1, 5>>, <<2, 5>>}}
    IN  {[nodes |-> Nodes(5), edges |-> Rows(S, Call)] :
            S \in SUBSET (some \cup {<<4, 1>>, <<5, 2>>})}

\* The number of walks of k edges between each two nodes.
Walks(g) ==
    LET Edge(a, b) == \E i \in DOMAIN g.edges : g.edges[i].from = a /\ g.edges[i].to = b
        Longer(w) ==
            E!Each(w, LAMBDA row : E!Each(Range1(Len(row)), LAMBDA t :
                E!MapThenSumSet(LAMBDA m : row[m], {m \in DOMAIN row : Edge(m, t)})))
        none == E!Each(g.nodes, LAMBDA a : E!Each(g.nodes, LAMBDA b : IF a = b THEN 1 ELSE 0))
    IN  E!FoldLeft(LAMBDA acc, k : Append(acc, Longer(acc[k])), <<none>>, Range1(Len(g.nodes)))

\* A node is a bridge by the share of the shortest paths of each pair that
\* run through it, and bridges are ranked by it.
BridgesExact ==
    Given("rank") =>
        LET n == Len(in.nodes)
            Shortest(W) ==
                [s, t \in 1 .. n |->
                    LET reach == {k \in DOMAIN W : W[k][s][t] > 0}
                    IN  IF reach = {} THEN [far |-> 100, paths |-> 0]
                        ELSE [far |-> E!Min(reach) - 1, paths |-> W[E!Min(reach)][s][t]]]
            Through(P, s, v, t) ==
                IF P[s, v].far + P[v, t].far # P[s, t].far THEN 0
                ELSE (60 * P[s, v].paths * P[v, t].paths) \div P[s, t].paths
            Shares(P) == [v \in 1 .. n |->
                E!MapThenSumSet(LAMBDA p : Through(P, p[1], v, p[2]),
                    {p \in Pairs(n) : v \notin {p[1], p[2]} /\ P[p[1], p[2]].paths > 0})]
            Exact(got, share) ==
                /\ {<<got[i].sym, got[i].score>> : i \in DOMAIN got}
                     = {<<v, share[v]>> : v \in {x \in 1 .. n : share[x] > 0}}
                /\ \A i \in 1 .. Len(got) - 1 : got[i].score >= got[i+1].score
            Degrees(hubs) == E!SumFunction([i \in DOMAIN hubs |-> hubs[i].total])
        IN  /\ Exact(E!BridgeNodes(in, n), Shares(Shortest(Walks(in))))
            /\ Degrees(E!HubNodes(in, n)) = 2 * Len(in.edges)

---------------------------------------------------------------------------
Kinds == {"none", "CALLS", "REFERENCES"}
ImpactGraphs ==
    {[nodes |-> Nodes(5),
      edges |-> Rows({p \in DOMAIN k : k[p] # "none"}, LAMBDA p : k[p])] :
        k \in [{<<3, 4>>, <<4, 1>>, <<3, 2>>, <<2, 5>>, <<5, 1>>, <<6, 5>>} -> Kinds]}
ImpactInputs ==
    [g : ImpactGraphs, files : {{}, {<<"q">>}, {<<"a", "x">>}, {Path(3)}},
     depth : {1, 3}, most : {1, 4}]

\* A node's impact is the best of all walks to it from a changed file, of no
\* more steps than asked for; the answer holds all that score above the floor
\* or says that it is cut; the best are kept, and every edge among them; but
\* what is kept is listed by qualified name, whatever it scored.
ImpactExact ==
    Given("impact") =>
        LET g == in.g
            seeds == {i \in 1 .. 5 : \E f \in in.files : E!IsSuffix(f, Path(i))}
            Step(a, b) == {6 * E!ImpactWeight(g.edges[i].kind) :
                              i \in {j \in DOMAIN g.edges : {g.edges[j].from, g.edges[j].to} = {a, b}}}
            Walked[d \in 0 .. 3] ==
                [t \in 1 .. 6 |->
                    IF d = 0 THEN (IF t \in seeds THEN 1000000 ELSE 0)
                    ELSE E!Max({Walked[d-1][t]} \cup
                             UNION {{(Walked[d-1][s] * w) \div 100 : w \in Step(s, t)} : s \in 1 .. 6})]
            Hit(best) == {t \in (1 .. 5) \ seeds : best[t] > ScoreFloor}
            Exact(got, kept, best) ==
                /\ kept \subseteq Hit(best)
                /\ \A t \in kept : got.scores[t] = best[t]
                /\ \A t \in Hit(best) \ kept, s \in kept : best[s] >= best[t]
                /\ got.total = Cardinality(Hit(best))
                /\ got.truncated = (kept # Hit(best))
                /\ E!ToSet(got.impacted) = kept
                /\ \A i \in 1 .. Len(got.impacted) - 1 :
                     Node(got.impacted[i]).qname < Node(got.impacted[i+1]).qname
                /\ got.note = "none" => Len(got.changed) = Cardinality(seeds)
                /\ Len(got.edges) = Cardinality({i \in DOMAIN g.edges :
                       {g.edges[i].from, g.edges[i].to} \subseteq seeds \cup kept})
            Of(got) == Exact(got, DOMAIN got.scores, Walked[in.depth])
        IN  Of(E!ImpactRadius(g, in.files, in.depth, in.most))

---------------------------------------------------------------------------
FlowInputs ==
    [g : {[nodes |-> [Nodes(4) EXCEPT ![4].test = t, ![3].entry = e], edges |-> Rows(S, Call)] :
            t \in BOOLEAN, e \in BOOLEAN,
            S \in SUBSET {<<1, 2>>, <<1, 3>>, <<2, 3>>, <<3, 2>>, <<2, 4>>, <<4, 4>>, <<3, 9>>, <<4, 1>>}},
     depth : {1, 3}]

\* A flow is what its entry point reaches by calls within the depth, each
\* node once and the nearer ones first; every production function nobody
\* calls, or named like an entry, that calls something known has one, and the
\* more critical come first.
FlowsReach ==
    Given("flows") =>
        LET g == in.g
            Calls(a) == {g.edges[i].to : i \in {j \in DOMAIN g.edges : g.edges[j].from = a}} \cap 1 .. 4
            Near[s \in 1 .. 4, d \in 0 .. 3] ==
                IF d = 0 THEN {s} ELSE Near[s, d-1] \cup UNION {Calls(x) : x \in Near[s, d-1]}
            Called == {g.edges[i].to : i \in DOMAIN g.edges}
            Starts == {i \in 1 .. 4 : /\ ~g.nodes[i].test
                                      /\ i \notin Called \/ g.nodes[i].entry
                                      /\ Calls(i) \ {i} # {}}
            Far(f, x) == E!Min({d \in 0 .. 3 : x \in Near[f.entry, d]})
            Sound(f) == /\ E!ToSet(f.path) = Near[f.entry, in.depth]
                        /\ Len(f.path) = Cardinality(E!ToSet(f.path))
                        /\ \A j \in 1 .. Len(f.path) - 1 : Far(f, f.path[j]) <= Far(f, f.path[j+1])
                        /\ f.depth = Far(f, f.path[Len(f.path)])
                        /\ f.criticality \in 1500 .. 10000
            Reach(flows) ==
                /\ {flows[i].entry : i \in DOMAIN flows} = Starts
                /\ Len(flows) = Cardinality(Starts)
                /\ \A i \in DOMAIN flows : Sound(flows[i])
                /\ \A i \in 1 .. Len(flows) - 1 : flows[i].criticality >= flows[i+1].criticality
        IN  Reach(E!TraceFlows(g, in.depth, FALSE))

---------------------------------------------------------------------------
Place(k) == CASE k = 1 -> <<"r", "a", "m", "x">> [] k = 2 -> <<"r", "b", "m", "y">>
              [] k = 3 -> <<"r", "c", "m", "z">> [] OTHER -> <<"r", "w">>
Member(i, k, words) ==
    [sym |-> i, path |-> Place(k), words |-> words, lang |-> "py", test |-> i = 5]
CommunityInputs ==
    [g : {[nodes |-> [i \in 1 .. 6 |-> Member(i, at[i], IF i \in odd THEN <<"p", "q">> ELSE <<"the", "p">>)],
           edges |-> Rows(S, Call)] :
            at \in [1 .. 6 -> 1 .. 3] \cup [1 .. 6 -> {1, 4}], odd \in {{}, {1, 3}, {2, 3, 5}},
            S \in {{<<1, 2>>, <<2, 3>>, <<3, 1>>, <<5, 1>>, <<6, 9>>}, {<<1, 4>>, <<4, 2>>, <<2, 6>>, <<6, 2>>}}},
     min : {1, 2}]

EndsIn(S) ==
    E!SumFunction(E!Each(in.g.edges, LAMBDA e : (IF e.from \in S THEN 1 ELSE 0)
                                                + (IF e.to \in S THEN 1 ELSE 0)))
Half(S) == {e \in E!ToSet(in.g.edges) : (e.from \in S) # (e.to \in S)}
Covered(cs) == UNION {cs[c].members : c \in DOMAIN cs}

\* Communities, by directory or by a clustering, are disjoint, of the size
\* asked for and of distinct names, and together account for every end of
\* every edge that lies in one; the couplings of an overview are the edges
\* with their two ends in two of them.
CommunitiesSound ==
    Given("communities") =>
        LET parity == E!Each(in.g.nodes, LAMBDA n : n.sym % 2)
            Sound(cs, least) ==
                /\ \A c, d \in DOMAIN cs : c # d =>
                     cs[c].name # cs[d].name /\ cs[c].members \cap cs[d].members = {}
                /\ \A c \in DOMAIN cs : Cardinality(cs[c].members) >= least
                /\ EndsIn(Covered(cs)) = E!SumFunction(E!Each(cs, LAMBDA c :
                                            2 * c.cohesion.internal + c.cohesion.external))
            Coupled(view) ==
                /\ Sound(view.communities, 2)
                /\ 2 * E!SumFunction(E!Each(view.pairs, LAMBDA p : p.count))
                     + Cardinality(Half(Covered(view.communities)))
                     = E!SumFunction(E!Each(view.communities, LAMBDA c : c.cohesion.external))
                /\ \A i \in DOMAIN view.warnings : view.warnings[i].count > HighCoupling
        IN  /\ Sound(C!DetectCommunities(in.g, in.min), in.min)
            /\ Sound(C!LeidenCommunities(in.g, parity, in.min), in.min)
            /\ Coupled(C!Overview(in.g, 2))

---------------------------------------------------------------------------
Hunk(file, ranges) == [file |-> file, ranges |-> ranges]
ChangeInputs ==
    [g : {[nodes |-> [Nodes(4) EXCEPT ![4].test = t, ![3].kind = k], edges |-> Rows(S, Call)] :
            t \in BOOLEAN, k \in {"Function", "Type"},
            S \in SUBSET {<<1, 2>>, <<1, 3>>, <<4, 3>>, <<3, 4>>, <<2, 9>>}},
     hunks : {<<>>, E!NoHunks, <<Hunk(Path(1), {<<1, 1>>}), Hunk(<<"x">>, {<<1, 3>>})>>,
              <<Hunk(<<"x">>, {<<2, 9>>, <<3, 3>>}), Hunk(Path(3), {<<3, 4>>})>>},
     files : {<<>>, <<Path(1)>>, <<Path(3), Path(4)>>, <<Path(3), Path(4), Path(3)>>,
              <<Path(1), Path(1)>>, <<<<"a", "x">>>>}]

\* Under hunks, a function is reported once, however many of them overlap the
\* lines the graph has for it; without a base, once for each time its file is
\* named as the graph names it.  The riskiest come first, and a cut is told.
\* What is reported of named files an impact query of them seeds; no risk is
\* stated when no file is named.
ChangesReported ==
    Given("changes") =>
        LET Under(i) == \E h \in E!ToSet(in.hunks) :
                /\ \/ Path(i) = h.file
                   \/ /\ ~\E j \in 1 .. 4 : Path(j) = h.file
                      /\ E!IsSuffix(h.file, Path(i)) \/ <<Path(i), h.file>> \in Glued
                /\ \E r \in h.ranges : r[1] .. r[2] \cap Node(i).line .. Node(i).last # {}
            Meant(i) ==
                CASE in.g.nodes[i].kind # "Function" -> 0
                  [] in.hunks = E!NoHunks -> Cardinality({k \in DOMAIN in.files : in.files[k] = Path(i)})
                  [] OTHER -> IF Under(i) THEN 1 ELSE 0
            Count(syms, s) == Cardinality({k \in DOMAIN syms : syms[k] = s})
            Risk(got, s) == (CHOOSE f \in E!ToSet(got.functions) : f.sym = s).risk
            Reported(got, syms, around) ==
                /\ E!ToSet(syms) \subseteq 1 .. 4 /\ \A i \in 1 .. 4 : Count(syms, i) <= Meant(i)
                /\ got.truncated = (\E i \in 1 .. 4 : Count(syms, i) < Meant(i))
                /\ \A i \in 1 .. 4 : Count(got.priorities, i) = Count(syms, i)
                /\ \A i \in 1 .. Len(got.priorities) - 1 :
                     Risk(got, got.priorities[i]) >= Risk(got, got.priorities[i+1])
                /\ E!ToSet(got.gaps) = {s \in E!ToSet(syms) : ~in.g.nodes[s].test}
                /\ in.hunks = E!NoHunks =>
                     E!ToSet(syms) \subseteq {n.sym : n \in E!ToSet(around.impact.changed)}
            Syms(got) == E!Each(got.functions, LAMBDA f : f.sym)
            Of(got, around, small) == /\ Reported(got, Syms(got), around)
                                      /\ (small.risk = "unknown") = (in.files = <<>>)
            Derived(d) == Of(E!DetectChanges(in.g, d, in.files, in.hunks),
                             E!ReviewContext(in.g, d, in.files, 2), E!MinimalContext(in.g, d, in.files))
        IN  Derived(E!MaterializeDerived(in.g, <<{1, 2}, {3, 4}>>))

---------------------------------------------------------------------------
Algorithms == {"rank", "impact", "flows", "communities", "changes"}

Start == alg \in Algorithms /\ in = <<>>

Input ==
    \/ alg = "rank" /\ in' \in RankInputs
    \/ alg = "impact" /\ in' \in ImpactInputs
    \/ alg = "flows" /\ in' \in FlowInputs
    \/ alg = "communities" /\ in' \in CommunityInputs
    \/ alg = "changes" /\ in' \in ChangeInputs

Spec == Start /\ [][in = <<>> /\ Input /\ UNCHANGED alg]_vars
=============================================================================
