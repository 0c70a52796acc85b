----------------------------- MODULE MCBoundary -----------------------------
(***************************************************************************)
(* The boundary joins over bounded inputs: the PyO3 items of three files   *)
(* of two crates against the declarations, a sidecar at every point of a   *)
(* build and a rebuild, the events of a trace.                             *)
(***************************************************************************)
EXTENDS Integers, FiniteSets, Sequences, TLC

CONSTANT None

VARIABLES alg, in

Dunder == {"__init__", "__new__", "__str__"}
Accessed(n) == IF n = "get_p" THEN "p" ELSE n
Bare(n) == IF n = "py_f" THEN "f" ELSE n
Screaming(n) == IF n = "Vee" THEN "VEE" ELSE n

B == INSTANCE Boundary

Given(a) == alg = a /\ in # <<>>

Name(n, rename) == [name |-> n, rename |-> rename]
Fn(n, rename, attrs) == [name |-> n, rename |-> rename, attrs |-> attrs]
Class(module, rename, body, open, parts) ==
  [item |-> "class", name |-> "X", module |-> module, rename |-> rename,
   body |-> body, open |-> open, parts |-> parts]
Impl(self, methods) == [item |-> "impl", self |-> self, methods |-> methods]
Function(n, module) == [item |-> "function", name |-> n, module |-> module, rename |-> None]

X == Class("m", None, "tuple", FALSE, <<>>)
Y == Class("m", "Y", "struct", TRUE, <<Name("p", None)>>)
Hidden == Class(None, None, "tuple", FALSE, <<>>)
Enum == Class("m", None, "enum", FALSE, <<Name("Vee", None), Name("Zed", "w")>>)
Plain == Impl("X", <<Fn("get_p", None, {"getter"}), Fn("py_f", None, {}), Fn("make", None, {"new"})>>)
Special == Impl("X", <<Fn("__str__", None, {}), Fn("h", "f", {"staticmethod"})>>)
OfTrait == Impl(None, <<Fn("py_f", None, {})>>)
Items == {X, Y, Hidden, Enum, Plain, Special, OfTrait, Function("py_f", "m"), Function("h", None)}
UpTo(n, S) == UNION {[1 .. k -> S] : k \in 0 .. n}

Method(n, property) == [name |-> n, property |-> property]
Decl(n, methods, members) ==
  B!PyClass("m", [name |-> n, methods |-> methods, members |-> members])
DX == Decl("X", <<Method("__init__", FALSE), Method("get_p", TRUE), Method("f", FALSE), Method("h", FALSE)>>, <<"VEE">>)
DY == Decl("Y", <<Method("__new__", FALSE), Method("f", FALSE)>>, <<>>)
Pys == [classes : {<<>>, <<DX>>, <<DY>>, <<DX, DY>>, <<DY, DX, Decl("X", <<Method("f", FALSE)>>, <<"w">>)>>},
        functions : {<<[module |-> "m", name |-> "f"], [module |-> "m", name |-> "g"]>>}]
JoinInputs ==
  {[files |-> <<[crate |-> "a", items |-> p], [crate |-> "a", items |-> q], [crate |-> "b", items |-> r]>>, py |-> y] :
     p \in UpTo(2, Items), q \in UpTo(1, Items), r \in UpTo(1, Items), y \in Pys}

\* An edge joins a Rust method to a declaration of its own class: the one of
\* that name in its crate, or the only one of that name anywhere.  Nothing is
\* lost: a method of a matched class is joined or counted, a declared method
\* is joined or reported as missing in Rust.  A crate that gives two classes
\* one name is outside of this, and alone can stop the build.
EdgesJoinTheirOwn ==
  Given("join") =>
    LET Crates(name) == [c \in {"a", "b"} |->
            Cardinality({p \in (DOMAIN in.files) \X (1 .. 2) :
              LET file == in.files[p[1]]  item == file.items[p[2]] IN
              /\ p[2] \in DOMAIN file.items /\ file.crate = c
              /\ item.item = "class" /\ item.name = name})]
        twice == \E c \in {"a", "b"} : Crates("X")[c] > 1
        Own(m, c) == c.rust = m.class /\ (c.crate = m.crate \/ (Crates("X")[m.crate] = 0 /\ Crates("X")[c.crate] = 1))
        Meant(c) == B!Declared(in.py.classes, c.module, c.exposed)
        Joins(e, classes) == /\ Own(e.to, e.from) /\ e.from \in classes
                             /\ e.name \in DOMAIN Meant(e.from).methods \cup DOMAIN Meant(e.from).members
        Whole(methods, edges, got) ==
            /\ \A e \in edges.method : Joins(e, edges.class)
            /\ \A c \in edges.class, m \in methods :
                 (Own(m, c) /\ m.kind # "variant" /\ m.exposed \in DOMAIN Meant(c).methods \ Dunder) =>
                    [from |-> c, name |-> m.exposed, to |-> m] \in edges.method
            /\ \A c \in edges.class : \A n \in DOMAIN Meant(c).methods \ Dunder :
                 (\E e \in edges.method : Meant(e.from) = Meant(c) /\ e.name = n) # (<<c.module, c.exposed, n>> \in got.pyOnly)
        Of(rs, got) ==
            /\ got.panics => twice
            /\ ~twice =>
                /\ Whole(B!ToSet(rs.methods), got.edges, got)
                /\ got.considered = Cardinality({i \in DOMAIN rs.methods : \E c \in got.edges.class : Own(rs.methods[i], c)})
        Scanned(rs) == Of(rs, B!BuildBoundary(rs, in.py))
    IN  Scanned(B!ScanRust(in.files))

---------------------------------------------------------------------------
\* A build of the head's sidecar that died after any of its writes, then a
\* rebuild; beside it another sidecar, or a file that is none.
Edges == 2
Last == Len(B!Writes(Edges))
Beside == {"none", "older", "newer", "foreign"}
SidecarInputs == [died : 0 .. Last, beside : Beside, head : {"new", None}, rebuilt : 0 .. Last]
Stamped(db, mtime) ==
  [mtime |-> mtime, there |-> db.there, readable |-> db.readable, edges |-> db.edges, commit |-> db.commit]
HeadDb(t) == Stamped(B!Sidecar("new", Edges, IF t = 0 THEN in.died ELSE t), 10 + t)
Other ==
  CASE in.beside = "none"    -> <<>>
    [] in.beside = "foreign" -> <<Stamped([B!Sidecar("old", Edges, Last) EXCEPT !.readable = FALSE], 50)>>
    [] in.beside = "older"   -> <<Stamped(B!Sidecar("old", Edges, Last), 5)>>
    [] in.beside = "newer"   -> <<Stamped(B!Sidecar("old", Edges, Last), 50)>>

\* The answer of a sidecar taken without a warning is complete, whatever
\* write a build died after and wherever a rebuild stands, unless a rebuild
\* removed the file between the reading of its meta rows and its opening;
\* and the warning is given only where no sidecar of the head is complete.
SidecarComplete ==
  Given("sidecar") =>
    \A looked \in 0 .. in.rebuilt, opened \in 0 .. in.rebuilt :
      LET loaded == B!LoadSidecar(<<HeadDb(looked)>> \o Other, in.head)
          rows == B!QueryBoundary(HeadDb(opened), HeadDb(in.rebuilt))
          raced == looked = 0 /\ opened > 0
          done == IF looked = 0 THEN in.died ELSE looked
      IN  (looked <= opened /\ in.head # None) =>
          /\ (loaded.db = HeadDb(looked) /\ ~loaded.behind /\ HeadDb(opened).there /\ rows # None /\ ~raced)
               => rows = Edges
          /\ (loaded.db # None /\ ~loaded.behind) => loaded.db.commit = in.head
          /\ loaded.behind => done < Last

---------------------------------------------------------------------------
Event(pid, ts, dur, i) == [pid |-> pid, tid |-> 1, ts |-> ts, dur |-> dur, name |-> (i % 2), id |-> i]
Nested(x, y) == B!End(x) <= y.ts \/ B!End(y) <= x.ts
                \/ (x.ts <= y.ts /\ B!End(y) <= B!End(x)) \/ (y.ts <= x.ts /\ B!End(x) <= B!End(y))
\* Processes are interchangeable: the first event is of the first.
TraceInputs ==
  LET Trace(e) == [i \in 1 .. 4 |-> Event(e[i][1], e[i][2], e[i][3], i)] IN
  {es \in {Trace(e) : e \in [1 .. 4 -> {1, 2} \X (0 .. 2) \X (0 .. 2)]} :
     /\ es[1].pid = 1
     /\ \A i, j \in DOMAIN es : es[i].pid # es[j].pid \/ Nested(es[i], es[j])}

\* The caller of an event is the innermost call of its own process and thread
\* that was running when it began; one with none has no edge, and a row of
\* the table counts every call between two names.
TraceNests ==
  Given("trace") =>
    LET edges == B!ExtractEdges(in)
        Before(x, e) == x.ts < e.ts \/ (x.ts = e.ts /\ (x.dur > e.dur \/ (x.dur = e.dur /\ x.id < e.id)))
        Running(e) == {x \in B!Range(in) : x.pid = e.pid /\ Before(x, e) /\ e.ts < B!End(x)}
        Caller(e) == CHOOSE x \in Running(e) : \A y \in Running(e) : y = x \/ Before(y, x)
        meant == {[caller |-> Caller(e), callee |-> e] : e \in {x \in B!Range(in) : Running(x) # {}}}
        rows == B!Aggregate(edges)
    IN  /\ B!ToSet(edges) = meant /\ Len(edges) = Cardinality(meant)
        /\ \A r \in B!ToSet(rows) :
             r.count = Cardinality({e \in meant : <<e.caller.name, e.callee.name>> = r.pair})

---------------------------------------------------------------------------
Algorithms == {"join", "sidecar", "trace"}
Input ==
    \/ alg = "join" /\ in' \in JoinInputs
    \/ alg = "sidecar" /\ in' \in SidecarInputs
    \/ alg = "trace" /\ in' \in TraceInputs
Start == alg \in Algorithms /\ in = <<>>
Spec == Start /\ [][in = <<>> /\ Input /\ UNCHANGED alg]_<<alg, in>>
=============================================================================
