------------------------------- MODULE Deltas -------------------------------
(***************************************************************************)
(* What changed between two points of a repository: a snapshot of the      *)
(* graph's files and module edges (snapshot.rs), the difference of two     *)
(* snapshots and what it may not be trusted for (transition.rs), and the   *)
(* steps of the review tour over git's changes (delta_tour.rs).  A path is *)
(* a sequence of names.                                                    *)
(***************************************************************************)
EXTENDS Absence, Counting

CONSTANTS Structural,    \* EDGE_KINDS
          Dotted,        \* the names with a dot in them
          Qualified(_),  \* the path a symbol itself names in the repository
          OwnNoise       \* .kanban, .tours

---------------------------------------------------------------------------
(* profile.rs: modules by [prefix, depth] rules, exclusion by prefix.      *)

ModuleOf(profile, path) ==
  LET rules == SelectSeq(profile.modules, LAMBDA r : IsPrefix(r.prefix, path))
      rest == SubSeq(path, Len(rules[1].prefix) + 1, Len(path))
      within == SubSeq(rest, 1, IF Len(rest) < rules[1].depth THEN Len(rest) ELSE rules[1].depth)
  IN  CASE rules = <<>> -> <<path[1]>>
        [] rules # <<>> /\ ToSet(within) \cap Dotted # {} -> rules[1].prefix
        [] rules # <<>> /\ ToSet(within) \cap Dotted = {} -> rules[1].prefix \o within

IsExcluded(profile, path) == \E x \in profile.exclude : IsPrefix(x, path)

---------------------------------------------------------------------------
(* snapshot.rs.  A graph is [nodes, edges, sha, updated, mtime].           *)

Rel(g, symbol) == IF symbol \in DOMAIN g.nodes THEN g.nodes[symbol] ELSE Qualified(symbol)

\* The files of the edges of any kind, the module edges of the structural.
ExportModuleEdges(g, profile) ==
  LET Inside(s) == Rel(g, s) # None /\ ~IsExcluded(profile, Rel(g, s))
      kept == {e \in g.edges : Inside(e.from) /\ Inside(e.to)}
      Mod(s) == ModuleOf(profile, Rel(g, s))
  IN  [files |-> UNION {{Rel(g, e.from), Rel(g, e.to)} : e \in kept},
       edges |-> {<<Mod(e.from), Mod(e.to), e.kind>> :
                    e \in {x \in kept : x.kind \in Structural /\ Mod(x.from) # Mod(x.to)}},
       raw |-> Cardinality(g.edges)]

\* The commit the graph records decides alone; without one its time, or
\* that of its file.
DetectStale(g, head) ==
  CASE g.sha # None -> g.sha # head.sha
    [] g.sha = None /\ g.updated # None -> g.updated < head.time
    [] g.sha = None /\ g.updated = None -> g.mtime < head.time

\* The metadata and the edges are read one after the other; only from the
\* second on does the guard on the file's time hold them together.
BuildSnapshot(told, read, head, profile) ==
  IF told.sha = None /\ told.updated = None THEN None ELSE
  LET export == ExportModuleEdges(read, profile) IN
  [commit |-> head.sha, stale |-> DetectStale(told, head), generation |-> told.updated,
   face |-> "all-kinds", raw |-> export.raw, files |-> export.files, edges |-> export.edges]

---------------------------------------------------------------------------
(* transition.rs.                                                          *)

Pairs(edges) == {<<e[1], e[2]>> : e \in edges}
\* Mutant: reversed by the edge, kind and all.
ReversedEdges(added, removed) ==
  {<<e[1], e[2]>> : e \in {x \in added : <<x[2], x[1], x[3]>> \in removed}}
Reversed(added, removed) == {p \in Pairs(added) : <<p[2], p[1]>> \in Pairs(removed)}

Summarize(a, b) ==
  LET added == b.edges \ a.edges  removed == a.edges \ b.edges IN
  [added |-> added, removed |-> removed, reversed |-> Reversed(added, removed),
   new |-> b.files \ a.files, gone |-> a.files \ b.files]

\* degenerate_pair, face_mismatch, generation_mismatch: an older snapshot
\* has no face and no generation.
Warnings(a, b) ==
  {w \in {"degenerate", "face", "generation"} :
     CASE w = "degenerate" -> a.files = {} \/ b.files = {}
       [] w = "face"       -> a.face # b.face
       [] w = "generation" -> None \notin {a.generation, b.generation} /\ a.generation # b.generation}

---------------------------------------------------------------------------
(* delta_tour.rs.                                                          *)

\* The claims of the plan against the changes; a comparison that finds none
\* of the claims among them is taken for a failure to read the plan.
ClaimTag(claims, changed, module) ==
  CASE claims = None \/ claims = {} -> ""
    [] claims # None /\ claims # {} /\ claims \cap changed = {} /\ changed # {} -> ""
    [] OTHER -> IF module \in claims \cap changed THEN "claimed"
                ELSE IF module \in changed THEN "unclaimed" ELSE ""

\* range_status reads git's fields, two to an entry, three to a rename or copy.
Fields(code) == IF code \in {"R", "C"} THEN 3 ELSE 2

\* The last field of an entry is the file.
Filed(got, entry, file) ==
  CASE entry[1] \in {"A", "C"} -> [got EXCEPT !.added = Append(@, file)]
    [] entry[1] = "D" -> [got EXCEPT !.deleted = Append(@, file)]
    [] entry[1] = "R" -> [got EXCEPT !.renamed = @ \cup {[new |-> file, old |-> entry[2]]}]
    [] OTHER -> [got EXCEPT !.modified = Append(@, file)]

TakeField(acc, x) ==
  CASE acc.entry = <<>> -> [acc EXCEPT !.entry = <<x>>]
    [] acc.entry # <<>> /\ Len(acc.entry) + 1 < Fields(acc.entry[1]) ->
         [acc EXCEPT !.entry = Append(@, x)]
    [] OTHER -> [entry |-> <<>>, got |-> Filed(acc.got, acc.entry, x)]

NothingRead == [entry |-> <<>>, got |-> [added |-> <<>>, modified |-> <<>>, deleted |-> <<>>, renamed |-> {}]]

RangeStatus(fields) == FoldLeft(TakeField, NothingRead, fields).got

\* build_tour: one step for each file added, renamed or modified, one for all
\* the deleted ones; first[f] is the first line git reports changed, claims and
\* changed the modules the plan names and the comparison found.
BuildTour(fields, first, profile, claims, changed) ==
  LET got == RangeStatus(fields)
      Noise(f) == IsExcluded(profile, f) \/ IsExcluded([exclude |-> OwnNoise], f)
      Quiet(files) == Those(files, {f \in ToSet(files) : ~Noise(f)})
      news == {r.new : r \in got.renamed}
      Step(f, kind, line) == [file |-> f, kind |-> kind, line |-> line,
                              tag |-> ClaimTag(claims, changed, ModuleOf(profile, f))]
      Line(f) == IF f \in DOMAIN first THEN first[f] ELSE 1
      gone == Quiet(got.deleted)
  IN  {Step(f, "added", None) : f \in ToSet(Quiet(got.added))}
      \cup {Step(f, "renamed", None) : f \in {x \in news : ~Noise(x)}}
      \cup {Step(f, "modified", Line(f)) : f \in {x \in ToSet(Quiet(got.modified)) : x \notin news}}
      \cup IF gone = <<>> THEN {}
           ELSE {[file |-> gone[1], kind |-> "deleted", line |-> 1, all |-> ToSet(gone)]}

---------------------------------------------------------------------------
(* What a difference says of the code.  A history is the graph of each     *)
(* commit and its time; two snapshots, the first taken from <<the graph    *)
(* its metadata, the one its edges were read from, the commit at the       *)
(* time>>, then one from <<a graph, the commit>>, each by its profile, the *)
(* first one perhaps by an older version of the tool.                      *)

\* A build stamps its commit and a time of its own.
IsHistory(x) ==
  /\ \A n \in DOMAIN x.graphs : x.graphs[n].sha = n /\ n # None /\ x.graphs[n].updated # None
  /\ \A m, n \in DOMAIN x.graphs : x.graphs[m].updated = x.graphs[n].updated => m = n
  /\ {x.first[1], x.first[2], x.then[1]} \subseteq DOMAIN x.graphs

Lies(g, profile, symbol, module) ==
  /\ Rel(g, symbol) # None /\ ~IsExcluded(profile, Rel(g, symbol))
  /\ ModuleOf(profile, Rel(g, symbol)) = module

\* The kinds of the edges of a graph between two modules, and all its files.
Kinds(g, profile, from, to) ==
  {k \in Structural : \E e \in g.edges : e.kind = k /\ Lies(g, profile, e.from, from) /\ Lies(g, profile, e.to, to)}
Participants(g, profile) ==
  UNION {{Rel(g, e.from), Rel(g, e.to)} : e \in
    {y \in g.edges : \A s \in {y.from, y.to} : Rel(g, s) # None /\ ~IsExcluded(profile, Rel(g, s))}}

\* The difference is that of the code: an edge between modules that one has
\* and the other has not, reversed where all there was ran the other way.
Differ(was, is, profile, s) ==
  LET modules == {ModuleOf(profile, f) : f \in Participants(was, profile) \cup Participants(is, profile)}
      Had(p, q) == Kinds(was, profile, p, q)
      Has(p, q) == Kinds(is, profile, p, q)
  IN  /\ \A p, q \in modules : p # q =>
           /\ \A k \in Structural : <<p, q, k>> \in s.added <=> k \in Has(p, q) \ Had(p, q)
           /\ \A k \in Structural : <<p, q, k>> \in s.removed <=> k \in Had(p, q) \ Has(p, q)
           /\ Had(q, p) # {} /\ Has(q, p) = {} /\ Had(p, q) = {} /\ Has(p, q) # {} => <<p, q>> \in s.reversed
      /\ s.new = Participants(is, profile) \ Participants(was, profile)
      /\ s.gone = Participants(was, profile) \ Participants(is, profile)

TakenAt(x, told, read, head, profile) ==
  BuildSnapshot(x.graphs[told], x.graphs[read], [sha |-> head, time |-> x.times[head]], profile)
Before(x) ==
  LET first == TakenAt(x, x.first[1], x.first[2], x.first[3], x.profiles[1])
  IN  IF x.older THEN [first EXCEPT !.generation = None, !.face = None] ELSE first
Since(x) == TakenAt(x, x.then[1], x.then[1], x.then[2], x.profiles[2])

\* What two snapshots differ in is warned of, unless it is the profile that
\* changed, or the graph was rebuilt while the first was taken; and for two
\* that are not stale it is the difference of the code of their commits.
Explained(x) ==
  LET alike == x.profiles[1] = x.profiles[2] /\ x.first[1] = x.first[2]
      Of(a, b, s) ==
        /\ alike /\ Warnings(a, b) = {} => s.added = {} /\ s.removed = {} /\ s.new = {} /\ s.gone = {}
        /\ alike /\ ~a.stale /\ ~b.stale =>
             Differ(x.graphs[a.commit], x.graphs[b.commit], x.profiles[2], s)
  IN  Of(Before(x), Since(x), Summarize(Before(x), Since(x)))

---------------------------------------------------------------------------
(* What a tour shows of the changes.                                       *)

IsChanges(changes) ==
  /\ changes \in Seq(ToSet(changes))
  /\ \A i \in DOMAIN changes :
       /\ changes[i].code \in {"A", "M", "D", "T", "R", "C"}
       /\ changes[i].old = None <=> changes[i].code \notin {"R", "C"}
  /\ \A i, j \in DOMAIN changes : changes[i].new = changes[j].new => i = j

\* What git prints of them.
Printed(out, c) ==
  IF c.old = None THEN Append(Append(out, c.code), c.new)
  ELSE Append(Append(Append(out, c.code), c.old), c.new)
FieldsOf(changes) == FoldLeft(Printed, <<>>, changes)

KindOf(code) ==
  CASE code \in {"A", "C"} -> "added" [] code = "R" -> "renamed"
    [] code \in {"M", "T"} -> "modified" [] code = "D" -> "deleted"

\* Every change outside of the excluded paths has its step, of its own kind,
\* and no other file has one, whatever renames and copies stand between; a
\* step says the plan did not mention its module only where a part of the
\* plan was found among the changes.
Covered(x) ==
  LET changes == ToSet(x.changes)
      changed == {ModuleOf(x.profile, c.new) : c \in changes}
      Told(c) == ~IsExcluded(x.profile, c.new) /\ ~IsExcluded([exclude |-> OwnNoise], c.new)
      Of(steps) ==
        LET shown == {t \in steps : t.kind # "deleted"}
            dead == {t \in steps : t.kind = "deleted"}
        IN  /\ {<<t.file, t.kind>> : t \in shown}
                 = {<<c.new, KindOf(c.code)>> : c \in {y \in changes : Told(y) /\ y.code # "D"}}
            /\ UNION {t.all : t \in dead} = {c.new : c \in {y \in changes : Told(y) /\ y.code = "D"}}
            /\ \A t, u \in dead : t = u
            /\ \A t \in shown : t.tag = "unclaimed" =>
                 \E m \in changed : x.claims # None /\ m \in x.claims /\ ModuleOf(x.profile, t.file) \notin x.claims
  IN  Of(BuildTour(FieldsOf(x.changes), x.first, x.profile, x.claims, changed))
=============================================================================
