-------------------------- MODULE GraphCommunities --------------------------
(***************************************************************************)
(* Communities: nodes grouped by directory, or by a clustering given from  *)
(* outside, their cohesion, their names and the coupling between them      *)
(* (graph_engine.rs).  A path is the sequence of its segments, the last    *)
(* one the file's stem; a node's name is the sequence of its words.        *)
(***************************************************************************)
EXTENDS GraphRank

CONSTANTS Qualify,       \* groups enough to stop descending (10 in the code)
          HighCoupling,  \* edges between two communities not yet warned of (10)
          CommonWords,   \* words that name nothing
          IsTestName(_)  \* a community's name tells that it holds tests

\* extract_file_prefix, extract_keywords.
FilePrefix(members) ==
    LET Part(path) == IF Len(path) >= 2 THEN path[Len(path) - 1] ELSE Last(path)
    IN  MostCommon(Each(members, LAMBDA n : Part(n.path)), 1)

Keywords(members) ==
    LET words == FlattenSeq(Each(members, LAMBDA n : n.words))
    IN  MostCommon(SelectSeq(words, LAMBDA w : w \notin CommonWords), 5)

\* A community is named after its production nodes while it has any.
Naming(members) ==
    LET production == SelectSeq(members, LAMBDA n : ~n.test)
    IN  IF production = <<>> THEN members ELSE production

\* generate_community_name: the directory most of them lie in and the word
\* most of them share.  (No build writes classes as nodes of that kind, so
\* the dominant class has no part in it.)
CommunityName(members) ==
    LET Name(naming)  == FilePrefix(naming) \o AtMost(Keywords(naming), 1)
        Default(name) == IF name = <<>> THEN <<"cluster">> ELSE name
    IN  Default(Name(Naming(members)))

\* compute_cohesion_batch: an edge is inside a community or outside at each
\* of its ends that lies in one.
Cohesion(g, sets) ==
    LET Of(s) == IF \E c \in DOMAIN sets : s \in sets[c]
                 THEN CHOOSE c \in DOMAIN sets : s \in sets[c] ELSE 0
        Inside(e, c)  == Of(e.from) = c /\ Of(e.to) = c
        Outside(e, c) == (Of(e.from) = c) # (Of(e.to) = c)
    IN  Each([c \in DOMAIN sets |-> c], LAMBDA c :
            [internal |-> Len(SelectSeq(g.edges, LAMBDA e : Inside(e, c))),
             external |-> Len(SelectSeq(g.edges, LAMBDA e : Outside(e, c)))])

---------------------------------------------------------------------------
Take(taken, name) == taken \cup {name}

\* dedupe_community_names: of the communities of one name the largest keeps
\* it; each other one gets a keyword of its own, or a number.
Rename(st, base, pos) ==
    LET Own(words) == SelectSeq(words, LAMBDA w :
                         w \notin ToSet(base) /\ Append(base, w) \notin st.taken)
        Number(k) == Append(base, ToString(k))
        fresh == Min({k \in 2 .. Len(st.cs) + 2 : Number(k) \notin st.taken})
        Name(own) == IF own # <<>> THEN Append(base, own[1]) ELSE Number(fresh)
        Give(name) == [cs |-> [st.cs EXCEPT ![pos].name = name], taken |-> Take(st.taken, name)]
    IN  Give(Name(Own(Keywords(Naming(st.cs[pos].nodes)))))

DedupeNames(cs) ==
    LET names == [i \in DOMAIN cs |-> cs[i].name]
        Largest(i, j) == LET a == Len(cs[i].nodes)
                             b == Len(cs[j].nodes)
                         IN  a > b \/ (a = b /\ i < j)
        SameNamed(base) == Ranked({i \in DOMAIN cs : names[i] = base}, Largest)
        One(st, base) ==
            FoldLeft(LAMBDA s, pos : Rename(s, base, pos), st, Tail(SameNamed(base)))
    IN  FoldLeft(One, [cs |-> cs, taken |-> ToSet(names)], FirstSeen(names)).cs

\* The positions of each key, the keys in the order they were first seen.
GroupsBy(keys) ==
    Each(FirstSeen(keys), LAMBDA key :
         SelectSeq([i \in DOMAIN keys |-> i], LAMBDA i : keys[i] = key))

\* What either tier makes of its groups of node positions.
Communities(g, groups, minSize) ==
    LET kept == SelectSeq(groups, LAMBDA grp : Len(grp) >= minSize)
        Syms(nodes) == {nodes[i].sym : i \in DOMAIN nodes}
        Described(nodes, cohesion) == Each([c \in DOMAIN nodes |-> c], LAMBDA c :
            [name |-> CommunityName(nodes[c]), nodes |-> nodes[c], members |-> Syms(nodes[c]),
             cohesion |-> cohesion[c],
             language |-> MostCommon(Each(nodes[c], LAMBDA n : n.lang), 1)])
        All(nodes) == DedupeNames(Described(nodes, Cohesion(g, Each(nodes, Syms))))
    IN  All(Each(kept, LAMBDA grp : Each(grp, LAMBDA i : g.nodes[i])))

\* detect_communities_with: below the directories all share, as deep as it
\* takes to have enough groups of the size asked for, or as deep as they go.
DirGroups(g, minSize) ==
    LET Dirs(n) == Front(n.path)
        Shared(k) == \A i, j \in DOMAIN g.nodes :
                        Len(Dirs(g.nodes[i])) >= k
                        /\ SubSeq(Dirs(g.nodes[i]), 1, k) = SubSeq(Dirs(g.nodes[j]), 1, k)
        lens == {Len(Dirs(g.nodes[i])) : i \in DOMAIN g.nodes}
        prefix == Max({k \in 0 .. Min(lens) : Shared(k)})
        Below(n) == SubSeq(Dirs(n), prefix + 1, Len(Dirs(n)))
        Key(n, d) == IF Below(n) = <<>> THEN <<Last(n.path)>> ELSE AtMost(Below(n), d)
        GroupAt(d) == GroupsBy(Each(g.nodes, LAMBDA n : Key(n, d)))
        Enough(d) == Len(SelectSeq(GroupAt(d), LAMBDA grp : Len(grp) >= minSize)) >= Qualify
        deepest == Max({1, Max(lens) - prefix})
        depths == {d \in 1 .. deepest : Enough(d)}
    IN  IF g.nodes = <<>> THEN <<>>
        ELSE GroupAt(IF depths = {} THEN deepest ELSE Min(depths))

DetectCommunities(g, minSize) == Communities(g, DirGroups(g, minSize), minSize)

\* detect_communities_leiden: the clustering itself is the library's, label
\* its labels; without an edge between two nodes there is nothing to cluster.
ClusterPairs(g) ==
    {{g.edges[i].from, g.edges[i].to} :
        i \in {j \in DOMAIN g.edges :
                 /\ g.edges[j].from # g.edges[j].to
                 /\ {g.edges[j].from, g.edges[j].to} \subseteq Known(g)}}

LeidenCommunities(g, label, minSize) ==
    Communities(g, IF ClusterPairs(g) = {} THEN DirGroups(g, minSize)
                   ELSE GroupsBy([i \in DOMAIN g.nodes |-> label[i]]), minSize)

---------------------------------------------------------------------------
\* The rows with their two ends in two communities.
CrossEdges(g, cs) ==
    LET Of(s) == IF \E c \in DOMAIN cs : s \in cs[c].members
                 THEN CHOOSE c \in DOMAIN cs : s \in cs[c].members ELSE 0
        Pair(e) == {Of(e.from), Of(e.to)}
    IN  SelectSeq(Each(g.edges, LAMBDA e : [edge |-> e, pair |-> Pair(e)]),
                  LAMBDA x : 0 \notin x.pair /\ Cardinality(x.pair) = 2)

\* architecture_overview: the edges between two communities, counted by pair,
\* and a warning for each pair coupled by more than so many, unless one of
\* the two is a test community by its name.
Overview(g, maxResults) ==
    LET Counted(pairs) == Each(MostCommon(pairs, Len(pairs)),
                               LAMBDA p : [pair |-> p, count |-> Tally(pairs, p)])
        Loud(cs, ranked) == SelectSeq(ranked, LAMBDA r :
            r.count > HighCoupling /\ \A c \in r.pair : ~IsTestName(cs[c].name))
        View(cs, cross, ranked) ==
            [communities |-> cs, cross |-> AtMost(cross, maxResults), pairs |-> ranked,
             warnings |-> AtMost(Loud(cs, ranked), Max({1, maxResults}))]
        Seen(cs, cross) == View(cs, cross, Counted(Each(cross, LAMBDA x : x.pair)))
        Of(cs) == Seen(cs, CrossEdges(g, cs))
    IN  Of(DetectCommunities(g, 2))
=============================================================================
