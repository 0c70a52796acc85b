---------------------------- MODULE MCAlgorithms ----------------------------
(***************************************************************************)
(* The bounded inputs of the algorithms for TLC.                           *)
(***************************************************************************)
EXTENDS Algorithms, TLC

MCFaceIndexes == OfAnswers!TwoDocs
MCEdgeIndexes == OfAnswers!SpannedDocs
MCQueries == OfAnswers!TypeOrName
MCAsked == OfAnswers!OneFile

---------------------------------------------------------------------------
(* The anchoring of tours.                                                 *)

Impl(recv, traits, chain) ==
    [head |-> "impl", recv |-> recv, traits |-> traits, chain |-> chain, kind |-> "Function", twin |-> None]
Broken(recv) == [Impl(recv, {}, None) EXCEPT !.head = "malformed"]
Plain(chain, kind, twin) ==
    [head |-> "none", recv |-> None, traits |-> {}, chain |-> chain, kind |-> kind, twin |-> twin]

MCIdentifiers == {"A", "B", "n", "m", "a", "b", "t", "v", "x"}

\* All of the name n; 7 is the class n, 8 the constructor minted for it.
MCSymbols ==
    <<Impl("A", {"T"}, <<"A", "n">>), Impl("A", {"U"}, <<"A", "n">>), Impl("A", {}, <<"A", "n">>),
      Impl("B", {"T"}, None), Broken("A"), Broken(None),
      Plain(<<"n">>, "Type", 8), Plain(<<"n">>, "Function", None),
      Plain(<<"A", "n">>, "Function", None), Plain(<<"B", "A", "n">>, "Function", None)>>
MCDrifts == {[s \in 1 .. 10 |-> 5]}

\* The path of g ends in that of f: src/lib.rs and x/src/lib.rs.
MCEnding(file) == IF file = "f" THEN {"f", "g"} ELSE {file}

Places == {<<"f", 1>>, <<"f", 2>>, <<"g", 1>>, <<"h", 1>>, <<"h", None>>}
MCRowSets ==
    UNION {{[rows |-> {[file |-> at[s][1], line |-> at[s][2], sym |-> s] : s \in S}] : at \in [S -> Places]} :
           S \in kSubset(0, 1 .. 10) \cup kSubset(1, 1 .. 10) \cup kSubset(2, 1 .. 10)
                 \cup kSubset(3, 1 .. 9)}

Blank == [file |-> "f", line |-> 0, qual |-> None, chain |-> <<"n">>, whole |-> TRUE,
          missing |-> TRUE, long |-> TRUE, nonblank |-> TRUE]
Quals == {[recv |-> "A", trait |-> "T"], [recv |-> "B", trait |-> "T"]}
MCFrames ==
    {[Blank EXCEPT !.file = x, !.line = l, !.qual = q] : x \in {"f", "h"}, l \in 0 .. 2, q \in Quals}
    \cup {[Blank EXCEPT !.chain = c, !.whole = w] :
            c \in {<<"n">>, <<"A", "n">>, <<"B", "A", "n">>}, w \in BOOLEAN}
    \cup {[Blank EXCEPT !.file = x, !.line = l, !.long = g] : x \in {"f", "h"}, l \in 1 .. 2, g \in BOOLEAN}

Universe == {<<"m", "a", "x">>, <<"m", "b", "x">>, <<"m", "x">>, <<"t", "x">>, <<"t", "a", "x">>, <<"v", "x">>}
Order == <<"m", "a", "x">> :> 1 @@ <<"m", "b", "x">> :> 2 @@ <<"m", "x">> :> 3
         @@ <<"t", "a", "x">> :> 4 @@ <<"t", "x">> :> 5 @@ <<"v", "x">> :> 6
MCSpelled == {<<"x">>, <<"a", "x">>, <<"t", "x">>, <<"v", "x">>, <<"m", "b", "x">>}
MCTrees ==
    [files : SUBSET Universe, roots : {<<<<"m">>>>, <<<<"m">>, <<"m", "b">>>>, <<<<>>>>},
     excluded : {{}, {<<"v">>}, {<<"v">>, <<"m", "a">>}}, hidden : {{}, {<<"t">>}},
     incomplete : BOOLEAN, order : {Order}]
MCBefores == {<<>>} \cup {<<p>> : p \in MCSpelled} \cup (MCSpelled \X MCSpelled)

---------------------------------------------------------------------------
(* The differences of two snapshots.  1 and 2 lie in one module, 3 in      *)
(* another, 4 is excluded, 5 has no node but names its file.               *)

MCQualified(s) == IF s = 5 THEN <<"lib", "q.rs">> ELSE None
MCOwnNoise == {<<".kanban">>, <<".tours">>}

Files == <<<<"crates", "a", "x.rs">>, <<"crates", "a", "y.rs">>, <<"crates", "b", "x.rs">>, <<"old", "z.rs">>>>
Profile(out) == [modules |-> <<[prefix |-> <<"crates">>, depth |-> 1]>>, exclude |-> {<<"old">>} \cup out]
Standing == Profile({})
Edge(kind, from, to) == [kind |-> kind, from |-> from, to |-> to]
Edges ==
    {Edge("CALLS", 1, 3), Edge("CALLS", 3, 1), Edge("INHERITS", 3, 1), Edge("CALLS", 1, 2),
     Edge("REFERENCES", 2, 5), Edge("CALLS", 3, 4)}
Graph(edges, n) == [nodes |-> Files, edges |-> edges, sha |-> n, updated |-> 10 * n, mtime |-> 10 * n]

MCHistories ==
    {[graphs |-> [n \in 1 .. 2 |-> Graph(edges[n], n)], times |-> <<10, 20>>, first |-> d[1], then |-> d[2],
      profiles |-> <<d[3], Standing>>, older |-> d[4]] :
        edges \in [1 .. 2 -> SUBSET Edges],
        d \in ({<<1, 1, 1>>, <<1, 1, 2>>, <<1, 2, 2>>, <<2, 2, 2>>} \X {<<1, 1>>, <<2, 2>>, <<1, 2>>}
               \X {Standing} \X {FALSE})
              \cup {<<<<1, 1, 1>>, <<2, 2>>, Standing, TRUE>>, <<<<1, 1, 1>>, <<2, 2>>, Profile({<<"lib">>}), FALSE>>}}

Paths == {<<"crates", "a", "x.rs">>, <<"crates", "b", "x.rs">>, <<".tours", "z.rs">>, <<"old", "z.rs">>}
Change(code, old, new) == [code |-> code, old |-> old, new |-> new]
Changes == {Change(c, None, f) : c \in {"A", "M", "D", "T"}, f \in Paths}
           \cup {Change(c, f, f2) : c \in {"R", "C"}, f \in {<<"old", "z.rs">>}, f2 \in Paths \ {<<"old", "z.rs">>}}
MCChangeLists ==
    {[changes |-> cs, claims |-> cl, profile |-> Standing,
      first |-> [f \in {cs[i].new : i \in {j \in DOMAIN cs : cs[j].code = "M"}} |-> 7]] :
        cs \in {c \in UNION {[1 .. n -> Changes] : n \in 1 .. 3} :
                  \A i, j \in DOMAIN c : i # j => c[i].new # c[j].new},
        cl \in {None, {}, {<<"crates", "a">>}, {<<"elsewhere">>}}}
=============================================================================
