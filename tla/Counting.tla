------------------------------ MODULE Counting ------------------------------
(***************************************************************************)
(* The insertion-ordered counter the aggregations share: Python's Counter, *)
(* whose most_common breaks ties by first appearance.                      *)
(***************************************************************************)
EXTENDS Integers, Sequences, SequencesExt, FiniteSets

\* The distinct elements in the order they were first seen.
FirstSeen(seq) ==
    FoldLeft(LAMBDA acc, x : IF \E i \in DOMAIN acc : acc[i] = x THEN acc ELSE Append(acc, x),
             <<>>, seq)

\* Op of each element.
Each(seq, Op(_)) == FoldLeft(LAMBDA acc, x : Append(acc, Op(x)), <<>>, seq)

\* The elements that lie in a set, in their order.
Those(seq, keep) == FoldLeft(LAMBDA acc, x : IF x \in keep THEN Append(acc, x) ELSE acc, <<>>, seq)

Tally(seq, x) == Cardinality({i \in DOMAIN seq : seq[i] = x})

AtMost(seq, n) == SubSeq(seq, 1, IF Len(seq) < n THEN Len(seq) ELSE n)

\* seq sorted by the stable order "Less comes first".
StableSort(seq, Less(_, _)) ==
    LET Insert(sorted, x) == SelectSeq(sorted, LAMBDA y : ~Less(x, y)) \o <<x>>
                             \o SelectSeq(sorted, LAMBDA y : Less(x, y))
    IN  FoldLeft(Insert, <<>>, seq)

\* The elements of a set by a strict total order.
Ranked(S, Less(_, _)) ==
    [i \in 1 .. Cardinality(S) |->
        CHOOSE x \in S : Cardinality({y \in S : Less(y, x)}) = i - 1]

MostCommon(seq, n) ==
    AtMost(StableSort(FirstSeen(seq), LAMBDA x, y : Tally(seq, x) > Tally(seq, y)), n)
=============================================================================
