----------------------------- MODULE Algorithms -----------------------------
(***************************************************************************)
(* The pure algorithms of the tool over given inputs, in one               *)
(* specification: a state is one input of one algorithm, and what the      *)
(* algorithm makes of it is compared with what it means.                   *)
(***************************************************************************)
EXTENDS TourAnchors, QueryFaces, Deltas

CONSTANTS TestPath, Excluded, OutsideRepo, TriggerProd,
          ScoreFloor, MaxFuncs, Qualify, HighCoupling, CommonWords

\* Of the anchoring of tours: rows of a graph, frames, ways the lines may
\* drift; trees of files, paths a frame spells, those of the frames before.
CONSTANTS RowSets, Frames, Drifts, Trees, Spelled, Befores

\* Of the two faces of an index: indexes, queries, the files asked for; of the
\* attribution of references: indexes.
CONSTANTS FaceIndexes, Queries, Asked, EdgeIndexes

\* Of the differences of two snapshots, and of the steps over git's changes.
CONSTANTS Histories, ChangeLists

VARIABLES alg,   \* which algorithm
          in     \* its input, <<>> before it is given

Given(a) == alg = a /\ in # <<>>

OfAnswers  == INSTANCE MCAnswers
OfGraphs   == INSTANCE MCGraphs
OfBoundary == INSTANCE MCBoundary

---------------------------------------------------------------------------
ASSUME NoneAssumption == None \notin Nat \cup Refusals \cup {"noanchor", "all-kinds"}

ASSUME AnchorsAssumption ==
    /\ \A s \in DOMAIN Symbols : s \in Nat /\ IsSymbol(Symbols[s])
    /\ \A x \in RowSets : IsRows(x.rows) /\ \A to \in Drifts : None \notin Moved(x.rows, to)
    /\ \A f \in Frames : IsFrame(f)
    /\ Drifts \subseteq [DOMAIN Symbols -> Nat]

ASSUME PathsAssumption ==
    /\ \A t \in Trees : IsTree(t)
    /\ Spelled \subseteq Seq(Identifiers) \ {<<>>}
    /\ Befores \subseteq Seq(Spelled)

ASSUME FacesAssumption == (\A index \in FaceIndexes : IsIndex(index)) /\ None \notin DOMAIN Asked

ASSUME EdgesAssumption == \A index \in EdgeIndexes : IsIndex(index) /\ IsSpanned(index)

ASSUME DeltasAssumption ==
    /\ \A x \in Histories : IsHistory(x)
    /\ \A x \in ChangeLists : IsChanges(x.changes)

OwnInput ==
    \/ alg = "anchors" /\ in' \in RowSets
    \/ alg = "paths" /\ in' \in Trees
    \/ alg = "faces" /\ in' \in FaceIndexes
    \/ alg = "edges" /\ in' \in EdgeIndexes
    \/ alg = "delta" /\ in' \in Histories
    \/ alg = "tour" /\ in' \in ChangeLists

OwnStart == alg \in {"anchors", "paths", "faces", "edges", "delta", "tour"} /\ in = <<>>

Start == OfAnswers!Start \/ OfGraphs!Start \/ OwnStart \/ OfBoundary!Start
Input == OfAnswers!Input \/ OfGraphs!Input \/ OwnInput \/ OfBoundary!Input

Spec == Start /\ [][in = <<>> /\ Input /\ UNCHANGED alg]_<<alg, in>>

---------------------------------------------------------------------------
\* The sqlite cache is an accelerator, never another answer: definitions,
\* references, rows and audit targets are those of a scan of the index.
FacesAgree ==
    Given("faces") =>
      LET Of(db) == (\A q \in Queries : SameAnswers(in, db, q)) /\ SameTargets(in, db, Asked)
      IN  Of(BuildDb(in))

\* A reference is attributed once, to the innermost function around it or, if
\* there is none, to the item level; and an edge between two functions counts
\* the references the one owns to the other, from whichever face.
CallersAttributed ==
    Given("edges") =>
      /\ \A callee \in SymbolsOf(Scan(in)) : Attributed(RefsRows(in, {callee}), FnSpans(in))
      /\ EdgesCounted(in)

\* Betweenness, impact, flows and communities are what their definitions on
\* paths, walks, reachability and edge ends say; bridges and flows are ranked
\* by it, an impact is cut by it and then listed by name; a graph built from
\* either face holds the edges and the calls the index holds; a closure reaches
\* what is that many calls away, each symbol once; a count of callers accounts
\* for every call, and a low one comes with its hazard scan.
EngineExact ==
    /\ OfGraphs!BridgesExact /\ OfGraphs!ImpactExact
    /\ OfGraphs!FlowsReach /\ OfGraphs!CommunitiesSound
    /\ OfAnswers!ReferencesCounted /\ OfAnswers!GraphFaithful
    /\ OfAnswers!ClosureLevels /\ OfAnswers!HubAccounts

\* A change is reported once for each function its hunks overlap, or without
\* a base as often as the function's file is named, the riskiest first.
ChangesReported == OfGraphs!ChangesReported

\* The identity a tour step carries rests on what the frame gives: where it
\* declares one it is the only symbol of its file that can be it, and stays it
\* wherever the lines drift; without a line it is the only one of the name,
\* the class of a constructor, or the only one the spelled chain can end in;
\* with a line, where impls of one type compete, it is the one on that line.
\* With a line and no such rivals it may be a guess, and then no row of the
\* name in the file is nearer.  Rows of nested paths are excepted.
AnchorsGrounded ==
    Given("anchors") => \A f \in Frames : FrameGrounded(in.rows, f, Drifts)

\* What a frame resolves to does not depend on the frames before it, unless
\* alone it is ambiguous: they settle a choice, never change an answer.  A
\* file is of the spelled name, and of the spelled path if the pool it is
\* taken from has one; the pooled ones are never excluded ones.
ContextOnlySettles ==
    Given("paths") =>
      LET After(done, alone) ==
            \A p \in Spelled : Settled(in, p, Resolve(in, done.ctx, p), alone[p], done.got)
          Always(alone) == \A before \in Befores : After(ResolveAll(in, before), alone)
      IN  Always([p \in Spelled |-> ResolveAll(in, <<p>>).got[1]])

\* An edge across languages, or of a trace, joins what belongs together, none
\* is lost, and a sidecar answered from without a warning is complete.
BoundaryTrue == OfBoundary!EdgesJoinTheirOwn /\ OfBoundary!SidecarComplete /\ OfBoundary!TraceNests

\* What two snapshots, or a range of commits, differ in is what changed in the
\* code between their commits, or it is warned of.
DeltaTrue == (Given("delta") => Explained(in)) /\ (Given("tour") => Covered(in))
=============================================================================
