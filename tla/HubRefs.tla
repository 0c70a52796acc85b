------------------------------ MODULE HubRefs ------------------------------
(***************************************************************************)
(* hub_refs: a name resolved on the graph, its callers or callees counted  *)
(* by directory, and the hazard layer that is to keep an empty count from  *)
(* reading as "no one calls it" (hub_refs.rs).  A request is bare, dotted  *)
(* (Class.method), or qualified (path::rest).                              *)
(***************************************************************************)
EXTENDS GraphDb, Counting

CONSTANTS Excluded,     \* the paths the profile excludes
          OutsideRepo,  \* the paths outside of the repository
          TriggerProd   \* RG_TRIGGER_PROD

\* query_nodes_pairs: the build writes no parent name, so a dotted request
\* matches nothing before the retry on the qualified name, which takes only
\* a request with "::".  A qualified name is the file's and the tail's.
NodeRows(g, req) ==
    CASE req.form = "bare"      -> {n \in g.nodes : n.name = req.name}
      [] req.form = "dotted"    -> {}
      [] req.form = "qualified" -> {n \in g.nodes : n.qname = <<req.path, req.name>>}

\* resolve_qualified.  classFile: the bare name is a class defined in exactly
\* one file, known to the file system only.
Resolve(g, req, classFile) ==
    LET kept == {n \in NodeRows(g, req) : n.path \notin Excluded \cup OutsideRepo}
    IN  CASE Cardinality(kept) = 1 ->
                [status |-> "ok", key |-> (CHOOSE n \in kept : TRUE).sym]
          [] Cardinality(kept) > 1 -> [status |-> "ambiguous", key |-> None]
          [] kept = {} /\ (req.form = "qualified" \/ (req.form = "bare" /\ classFile)) ->
                [status |-> "ok", key |-> None]
          [] OTHER -> [status |-> "notFound", key |-> None]

\* refs_query: the CALLS edges at the symbol, each with the file and the test
\* flag of its other end, or the edge's file where that is no node.
RefsQuery(g, direction, key) ==
    LET mine == {e \in g.edges : e.kind = "CALLS"
                    /\ key = (IF direction = "callers" THEN e.to ELSE e.from)}
        Other(e) == IF direction = "callers" THEN e.from ELSE e.to
        Node(e)  == {n \in g.nodes : n.sym = Other(e)}
    IN  SetToSeq({[edge |-> e,
                   path |-> IF Node(e) = {} THEN e.path ELSE (CHOOSE n \in Node(e) : TRUE).path,
                   test |-> \E n \in Node(e) : n.test] : e \in mine})

\* aggregate: every row is outside, excluded, a test's or production's.
Aggregate(results, top) ==
    LET in   == SelectSeq(results, LAMBDA r : r.path \notin OutsideRepo)
        kept == SelectSeq(in, LAMBDA r : r.path \notin Excluded)
        IsTest(r) == r.test \/ r.path = TestPath
        Dirs(rows) == [i \in DOMAIN rows |-> rows[i].path]
        test == SelectSeq(kept, IsTest)
        prod == SelectSeq(kept, LAMBDA r : ~IsTest(r))
    IN  [prod |-> MostCommon(Dirs(prod), top), test |-> MostCommon(Dirs(test), top),
         totalProd |-> Len(prod), totalTest |-> Len(test),
         outside |-> Len(results) - Len(in), excluded |-> Len(in) - Len(kept)]

\* hazard_stage and the language guard before it: the dynamic layer knows
\* Python only, so a JS or TS target is marked unsupported, never clean.
HazardLevel(g, req, key, direction, totalProd, force) ==
    LET js == \/ "ts" \in SymbolLanguages(g, req.name) /\ req.form = "bare"
              \/ key # None /\ \E n \in g.nodes : n.sym = key /\ n.lang = "ts"
              \/ req.form = "qualified" /\ req.lang = "ts"
    IN  IF js THEN "unsupported-js-ts"
        ELSE IF force \/ (direction = "callers" /\ totalProd <= TriggerProd) THEN "full"
        ELSE "resident"

\* run: a failed resolution is an exit 1 with the candidates, anything else
\* an [OK] with its counts.
HubRefsRun(g, req, classFile, direction, top, force) ==
    LET got == Resolve(g, req, classFile)
        results == IF got.status # "ok" THEN <<>> ELSE RefsQuery(g, direction, got.key)
        agg == Aggregate(results, top)
    IN  [status |-> got.status, key |-> got.key, results |-> results, agg |-> agg,
         exit |-> IF got.status = "ok" THEN 0 ELSE 1,
         level |-> HazardLevel(g, req, got.key, direction, agg.totalProd, force)]
=============================================================================
