------------------------------ MODULE Boundary ------------------------------
(***************************************************************************)
(* The joins of a name in one language to what stands behind it in the     *)
(* other: boundary_build.rs and boundary.rs (PyO3 items and the .pyi       *)
(* declarations), runtime_edges.rs (the calls in a recorded trace).        *)
(***************************************************************************)
EXTENDS Counting, FiniteSetsExt

CONSTANTS None,
          Dunder,        \* the names written __so__
          Accessed(_),   \* a name without its get_ or set_
          Bare(_),       \* a name without its py_
          Screaming(_)   \* a name in SCREAMING_SNAKE_CASE

---------------------------------------------------------------------------
(* scan_rust_file: a file is [crate, items]; an item is a class, an impl   *)
(* or a function with what its attributes say.                             *)

Named(it, default) == IF it.rename = None THEN default ELSE it.rename

Precedence == <<"new", "getter", "setter", "staticmethod", "classmethod">>
Kind(m) ==
  LET told == SelectSeq(Precedence, LAMBDA k : k \in m.attrs) IN
  CASE told # <<>>                         -> told[1]
    [] told = <<>> /\ m.name \in Dunder    -> "dunder"
    [] told = <<>> /\ m.name \notin Dunder -> "method"

ExposedName(m, kind) ==
  CASE m.rename # None -> m.rename
    [] m.rename = None /\ kind = "new" -> "__new__"
    [] m.rename = None /\ kind \in {"getter", "setter"} /\ Accessed(m.name) # m.name -> Accessed(m.name)
    [] OTHER -> Bare(m.name)

Method(file, class, m, kind, exposed) ==
  [crate |-> file.crate, class |-> class, fn |-> m.name, exposed |-> exposed, kind |-> kind]

\* The header of a trait impl, or one that cannot be read, names no class.
ImplMethods(file, it) ==
  Each(it.methods, LAMBDA m : Method(file, IF it.self = None THEN "?" ELSE it.self, m,
                                     Kind(m), ExposedName(m, Kind(m))))

\* The variants of an enum; the public fields where they are all readable.
Synthesised(file, it) ==
  CASE it.body = "enum" ->
         Each(it.parts, LAMBDA v : Method(file, it.name, v, "variant", Named(v, Screaming(v.name))))
    [] it.body = "struct" /\ it.open ->
         Each(it.parts, LAMBDA v : Method(file, it.name, v, "field_property", v.name))
    [] OTHER -> <<>>

ScanRust(files) ==
  FoldLeft(LAMBDA acc, file :
    FoldLeft(LAMBDA got, it :
        CASE it.item = "impl" -> [got EXCEPT !.methods = @ \o ImplMethods(file, it)]
          [] it.item = "class" ->
               [got EXCEPT !.methods = @ \o Synthesised(file, it),
                           !.classes = Append(@, [crate |-> file.crate, rust |-> it.name, module |-> it.module,
                                                  exposed |-> Named(it, it.name)])]
          [] it.item = "function" ->
               [got EXCEPT !.functions = Append(@, [crate |-> file.crate, rust |-> it.name, module |-> it.module,
                                                    exposed |-> Named(it, Bare(it.name))])],
      acc, file.items),
    [classes |-> <<>>, methods |-> <<>>, functions |-> <<>>], files)

\* parse_pyi: of two methods the last one stands, of two members the first;
\* a property get_x is x as well.
PyClass(module, c) ==
  LET Names(m) == {m.name} \cup IF m.property THEN {Accessed(m.name)} ELSE {}
  IN  [module |-> module, name |-> c.name,
       methods |-> [n \in UNION {Names(m) : m \in ToSet(c.methods)} |->
                      Max({i \in DOMAIN c.methods : n \in Names(c.methods[i])})],
       members |-> [n \in ToSet(c.members) |-> Min({i \in DOMAIN c.members : c.members[i] = n})]]

---------------------------------------------------------------------------
(* build_boundary.                                                         *)

FirstOf(seq, Is(_)) == LET some == SelectSeq(seq, Is) IN IF some = <<>> THEN None ELSE some[1]
Declared(decls, module, name) == FirstOf(decls, LAMBDA d : d.module = module /\ d.name = name)

\* Mutant: the first class of the name, of whatever crate.
ClassOfAny(rs, m) == FirstOf(rs.classes, LAMBDA c : c.rust = m.class)
\* The class of the name in the method's crate; in another one, if it is the
\* only class of that name.
ClassOf(rs, m) ==
  LET own == FirstOf(rs.classes, LAMBDA c : c.crate = m.crate /\ c.rust = m.class)
      any == SelectSeq(rs.classes, LAMBDA c : c.rust = m.class)
  IN  IF own = None /\ Len(any) = 1 THEN any[1] ELSE own

Matched(rs, py) ==
  {c \in ToSet(rs.classes) : c.module # None /\ Declared(py.classes, c.module, c.exposed) # None}
MatchedKeys(rs, py) == {<<c.crate, c.rust>> : c \in Matched(rs, py)}

\* What becomes of a method: "panics" where the class found by its key is
\* another than the one that matched.
Join(rs, py, m) ==
  LET Ctor(d) == {"__init__", "__new__"} \cap DOMAIN d.methods
      NameIn(d) == CASE m.kind = "new" /\ "__init__" \in Ctor(d) -> "__init__"
                     [] m.kind = "new" /\ Ctor(d) = {"__new__"}  -> "__new__"
                     [] OTHER                                    -> m.exposed
      Table(d) == IF m.kind = "variant" THEN d.members ELSE d.methods
      Verdict(d, name) == CASE name \in DOMAIN Table(d) -> "matched"
                            [] name \notin DOMAIN Table(d) /\ m.kind = "dunder" -> "dunder"
                            [] name \notin DOMAIN Table(d) /\ m.kind # "dunder" -> "rs_only"
      As(c, d, name) == [verdict |-> Verdict(d, name), class |-> c, name |-> name, m |-> m]
      To(c, d) == IF d = None THEN [verdict |-> "panics"] ELSE As(c, d, NameIn(d))
      Of(c) == CASE c = None -> [verdict |-> "unresolved"]
                 [] c # None /\ <<c.crate, c.rust>> \notin MatchedKeys(rs, py) -> [verdict |-> "unmatched"]
                 [] c # None /\ <<c.crate, c.rust>> \in MatchedKeys(rs, py) ->
                      To(c, IF c.module = None THEN None ELSE Declared(py.classes, c.module, c.exposed))
  IN  Of(ClassOf(rs, m))

BuildBoundary(rs, py) ==
  LET With(joins, verdicts) == SelectSeq(joins, LAMBDA j : j.verdict \in verdicts)
      Told(joins) == With(joins, {"matched", "dunder", "rs_only"})
      exposedClasses == {<<c.module, c.exposed>> : c \in {x \in ToSet(rs.classes) : x.module # None}}
      Known(told) == {<<told[i].class.module, told[i].class.exposed, told[i].name>> : i \in DOMAIN told}
      Methods(d) == {<<d.module, d.name, n>> : n \in DOMAIN d.methods \ Dunder}
      declared == {d \in ToSet(py.classes) : <<d.module, d.name>> \in exposedClasses}
      functions == {f \in ToSet(rs.functions) : f.module # None}
      joined == {f \in functions : Declared(py.functions, f.module, f.exposed) # None}
      Report(joins) ==
          [panics |-> FALSE,
           edges |-> [class |-> Matched(rs, py), function |-> joined,
                      method |-> {[from |-> j.class, name |-> j.name, to |-> j.m] :
                                    j \in ToSet(With(joins, {"matched"}))}],
           unresolved |-> Len(With(joins, {"unresolved"})), considered |-> Len(Told(joins)),
           matched |-> Len(With(joins, {"matched"})), dunder |-> Len(With(joins, {"dunder"})),
           rsOnly |-> Len(With(joins, {"rs_only"})),
           pyOnlyClasses |-> ToSet(py.classes) \ declared,
           pyOnly |-> UNION {Methods(d) : d \in declared} \ Known(Told(joins)),
           pyOnlyFunctions |-> {d \in ToSet(py.functions) :
                                  ~\E f \in functions : f.module = d.module /\ f.exposed = d.name}]
      Of(joins) == IF With(joins, {"panics"}) # <<>> THEN [panics |-> TRUE] ELSE Report(joins)
  IN  Of(Each(rs.methods, LAMBDA m : Join(rs, py, m)))

---------------------------------------------------------------------------
(* write_sidecar, load_sidecar, run_query: every statement is committed on *)
(* its own, so a build that dies, and a reader beside one, sees a prefix.  *)

Writes(edges) ==
  <<"remove", "edges table", "meta table">> \o [i \in 1 .. edges |-> "edge"] \o <<"nt_commit">>

Sidecar(commit, edges, done) ==
  LET at == SubSeq(Writes(edges), 1, done) IN
  [there |-> done > 1, readable |-> "meta table" \in ToSet(at), edges |-> Tally(at, "edge"),
   commit |-> IF "nt_commit" \in ToSet(at) THEN commit ELSE None]

\* read_meta fails on a file without a meta table.
LoadSidecar(dbs, head) ==
  LET there == SelectSeq(dbs, LAMBDA d : d.there)
      current == FirstOf(there, LAMBDA d : d.readable /\ head # None /\ d.commit = head)
      late == {i \in DOMAIN there : \A j \in DOMAIN there : there[i].mtime >= there[j].mtime}
      latest == there[Max(late)]
  IN  CASE there = <<>> -> [db |-> None, behind |-> FALSE]
        [] there # <<>> /\ current # None -> [db |-> current, behind |-> FALSE]
        [] there # <<>> /\ current = None ->
             [db |-> IF latest.readable THEN latest ELSE None, behind |-> head # None]

\* The rows of the file opened, unless its time moved while they were read.
QueryBoundary(opened, rechecked) == IF opened # rechecked THEN None ELSE opened.edges

---------------------------------------------------------------------------
(* runtime_edges.rs: an event is [pid, tid, ts, dur, name].                *)

Thread(e) == <<e.pid, e.tid>>
End(e) == e.ts + e.dur

ExtractEdges(events) ==
  LET Group(t) == StableSort(SelectSeq(events, LAMBDA e : Thread(e) = t),
                             LAMBDA a, b : a.ts < b.ts \/ (a.ts = b.ts /\ a.dur > b.dur))
      Popped(stack, ts) ==
        LET live == {i \in DOMAIN stack : End(stack[i]) > ts} IN
        IF live = {} THEN <<>> ELSE SubSeq(stack, 1, Max(live))
      Scan(group) ==
        FoldLeft(LAMBDA acc, e :
            LET stack == Popped(acc.stack, e.ts) IN
            [stack |-> Append(stack, e),
             edges |-> IF stack = <<>> THEN acc.edges
                       ELSE Append(acc.edges, [caller |-> Last(stack), callee |-> e])],
          [stack |-> <<>>, edges |-> <<>>], group).edges
  IN  FoldLeft(LAMBDA acc, t : acc \o Scan(Group(t)), <<>>, FirstSeen(Each(events, Thread)))

\* The calls between two names: how many, and the duration at rank
\* ceil(95%); the most frequent first.
Aggregate(edges) ==
  LET Pair(e) == <<e.caller.name, e.callee.name>>
      pairs == Each(edges, Pair)
      Durations(p) == Each(StableSort(SelectSeq(edges, LAMBDA e : Pair(e) = p),
                                      LAMBDA a, b : a.callee.dur < b.callee.dur),
                           LAMBDA e : e.callee.dur)
      Row(p) == [pair |-> p, count |-> Len(Durations(p)),
                 p95 |-> Durations(p)[(95 * Len(Durations(p)) + 99) \div 100]]
  IN  StableSort(Each(FirstSeen(pairs), Row), LAMBDA a, b : a.count > b.count)
=============================================================================
