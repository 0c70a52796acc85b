---------------------------- MODULE TourAnchors ----------------------------
(***************************************************************************)
(* How a frame of a call-chain document gets its place: the path it spells *)
(* is resolved to a file (PathResolver), the name in it to a row of the    *)
(* graph (GraphAnchor, symbol_resolve.rs).  A row is [file, line, sym];    *)
(* Symbols gives what the symbol's descriptor says: the head of an impl,   *)
(* or one that does not parse, or none; the chain of scopes, or None.      *)
(***************************************************************************)
EXTENDS Absence, Integers, Sequences, SequencesExt, FiniteSets, FiniteSetsExt

CONSTANTS Identifiers, \* the identifiers that chains and paths are made of
          Symbols,     \* sequence of [head, recv, traits, chain, kind, twin]
          Ending(_)    \* the files whose path ends in that of a file

---------------------------------------------------------------------------
(* symbol_resolve.rs.                                                      *)

At(r) == Symbols[r.sym]
SameFileRows(rows, file) == {r \in rows : r.file = file /\ r.line # None}

\* qualified_select: an impl that cannot be read may be the one declared.
Declared(rows, q) == {r \in rows : /\ At(r).head = "impl" /\ At(r).recv = q.recv
                                   /\ q.trait \in At(r).traits}
\* Mutant: the one match is taken whatever else may be it.
Unshadowed(rows, q) == FALSE
Shadowed(rows, q) == \E r \in rows : At(r).head = "malformed" /\ At(r).recv \in {None, q.recv}
QualifiedSelect(rows, q) ==
  LET found == Declared(rows, q)  shadow == Shadowed(rows, q) IN
  CASE Cardinality(found) > 1             -> [why |-> "qualifier_ambiguous", row |-> None]
    [] shadow                             -> [why |-> "qualifier_unverified", row |-> None]
    [] found = {} /\ ~shadow              -> [why |-> "qualifier_no_hit", row |-> None]
    [] Cardinality(found) = 1 /\ ~shadow  -> [why |-> "unique", row |-> CHOOSE r \in found : TRUE]

\* explicit_trait_collision
TraitCollision(rows) ==
  \/ \E r \in rows : At(r).head = "malformed"
  \/ \E r, s \in rows : /\ At(r).head = "impl" /\ At(s).head = "impl"
                        /\ At(r).recv = At(s).recv /\ At(r).traits # At(s).traits

\* r1_pseudo_ctor_pair: a class and the constructor minted for it.
CtorPair(rows) ==
  LET types == {t \in rows : /\ At(t).kind = "Type"
                             /\ \E c \in rows : /\ rows = {t, c} /\ At(c).kind = "Function"
                                                /\ At(t).twin = c.sym /\ c.line = t.line}
  IN  IF types = {} THEN None ELSE CHOOSE t \in types : TRUE

\* r2_qualified_unique: the whole chain, or else the end of a longer one.
TailUnique(rows, chain) ==
  LET Chain(r) == At(r).chain
      exact == {r \in rows : Chain(r) = chain}
      tails == {r \in rows : Chain(r) # None /\ Len(Chain(r)) > Len(chain)
                             /\ IsSuffix(chain, Chain(r))}
      tier  == IF exact # {} THEN exact ELSE tails
  IN  IF Cardinality(tier) # 1 \/ \E r \in rows : Chain(r) = None THEN None
      ELSE CHOOSE r \in tier : TRUE

ResolveCandidates(rows, chain, whole) ==
  LET pair == CtorPair(rows)  tail == TailUnique(rows, chain) IN
  CASE rows = {}             -> [why |-> "not-in-graph", row |-> None]
    [] Cardinality(rows) = 1 -> [why |-> "filled", row |-> CHOOSE r \in rows : TRUE]
    [] Cardinality(rows) > 1 /\ whole /\ pair # None -> [why |-> "filled", row |-> pair]
    [] Cardinality(rows) > 1 /\ whole /\ pair = None /\ tail # None ->
         [why |-> "filled", row |-> tail]
    [] OTHER -> [why |-> "ambiguous", row |-> None]

---------------------------------------------------------------------------
(* chain_tour.rs, GraphAnchor.                                             *)

Away(r, line) == IF r.line < line THEN line - r.line ELSE r.line - line
Nearest(rows, line) ==
  CHOOSE r \in rows : \A s \in rows :
    \/ Away(r, line) < Away(s, line)
    \/ /\ Away(r, line) = Away(s, line)
       /\ r.line < s.line \/ (r.line = s.line /\ r.sym <= s.sym)
Hit(why, file, row) == [why |-> why, file |-> file, row |-> row]

\* fill_anchor: a frame without a line, in exactly its file.
FillAnchor(rows, f) ==
  LET here == SameFileRows(rows, f.file)
      got == IF f.qual # None THEN QualifiedSelect(here, f.qual)
             ELSE ResolveCandidates(here, f.chain, f.whole)
  IN  Hit(IF got.row = None THEN got.why ELSE "filled", f.file, got.row)

AnchorHere(here, f) ==
  LET got == QualifiedSelect(here, f.qual)
      exact == {r \in here : r.line = f.line}
      Kept(row) == Hit(IF row.line = f.line THEN "same" ELSE "moved", f.file, row)
      one == CHOOSE r \in exact : TRUE
  IN  CASE f.qual # None ->
             IF got.row = None THEN Hit(got.why, f.file, None) ELSE Kept(got.row)
        [] f.qual = None /\ TraitCollision(here) ->
             IF Cardinality(exact) = 1 THEN Kept(one)
             ELSE Hit("explicit_trait_ambiguous", f.file, None)
        [] f.qual = None /\ ~TraitCollision(here) -> Kept(Nearest(here, f.line))

\* The name is in one other file: the file may come without any line.
AnchorThere(rows, file, f) ==
  LET there == SameFileRows(rows, file)  got == QualifiedSelect(there, f.qual) IN
  CASE f.qual # None ->
         Hit(IF got.row = None THEN got.why ELSE "moved-file", file, got.row)
    [] f.qual = None /\ TraitCollision(there) -> Hit("cross_file_trait_ambiguous", file, None)
    [] f.qual = None /\ ~TraitCollision(there) ->
         Hit("moved-file", file, IF there = {} THEN None ELSE Nearest(there, 0))

\* anchor: a frame with a line, in a file whose path ends like its own; then,
\* for a declared identity or a long name the text does not show, anywhere.
Anchor(rows, f) ==
  LET here  == {r \in rows : r.file \in Ending(f.file) /\ r.line # None}
      files == {r.file : r \in rows}
  IN  CASE here # {} -> AnchorHere(here, f)
        [] here = {} /\ f.qual = None /\ ~(f.missing /\ f.long) -> Hit("not-in-graph", f.file, None)
        [] OTHER ->
             CASE Cardinality(files) = 1 -> AnchorThere(rows, CHOOSE x \in files : TRUE, f)
               [] Cardinality(files) > 1 -> Hit("moved-file-ambiguous", f.file, None)
               [] files = {} -> Hit(IF f.qual = None THEN "not-in-graph" ELSE "qualifier_no_hit",
                                    f.file, None)

\* build_tours, one frame: the step it becomes, or the reason it is skipped.
Refusals == {"qualifier_no_hit", "qualifier_ambiguous", "qualifier_unverified",
             "cross_file_trait_ambiguous", "explicit_trait_ambiguous"}
Frame(rows, f) ==
  LET Skip(hit) == IF hit.why \in Refusals THEN hit.why
                   ELSE IF f.line = 0 /\ (hit.row = None \/ ~f.nonblank) THEN "noanchor" ELSE None
      Step(hit, skip) ==
        [skip |-> skip, why |-> hit.why, file |-> hit.file,
         line |-> IF hit.row # None THEN hit.row.line ELSE IF hit.why = "moved-file" THEN 1 ELSE f.line,
         sym  |-> IF skip # None \/ hit.row = None THEN None ELSE hit.row.sym]
      Of(hit) == Step(hit, Skip(hit))
  IN  Of(IF f.line = 0 THEN FillAnchor(rows, f) ELSE Anchor(rows, f))

---------------------------------------------------------------------------
(* chain_tour.rs, PathResolver.  A tree is [files, roots, excluded,        *)
(* hidden, incomplete]; a path is a sequence of names.  ctx counts the     *)
(* frames resolved before into each directory.                             *)

Under(p, dirs) == \E d \in dirs : IsPrefix(d, p)
NameOf(p) == p[Len(p)]
DirOf(p) == SubSeq(p, 1, Len(p) - 1)
Count(ctx, p) == IF DirOf(p) \in DOMAIN ctx THEN ctx[DirOf(p)] ELSE 0
Bump(ctx, p) == [d \in DOMAIN ctx \cup {DirOf(p)} |->
                   (IF d \in DOMAIN ctx THEN ctx[d] ELSE 0) + (IF d = DirOf(p) THEN 1 ELSE 0)]
Found(ctx, p, kind) == [file |-> p, kind |-> kind, ctx |-> Bump(ctx, p)]
Unfound(ctx, kind) == [file |-> None, kind |-> kind, ctx |-> ctx]

\* Mutant: the name is enough.
PoolByName(files, path) == {p \in files : NameOf(p) = NameOf(path)}
\* Those whose path ends as spelled, or else all of the name.
Pool(files, path) ==
  LET ends == {p \in files : IsSuffix(path, p)} IN
  IF ends = {} THEN {p \in files : NameOf(p) = NameOf(path)} ELSE ends
Best(ctx, pool) == {p \in pool : \A q \in pool : Count(ctx, p) >= Count(ctx, q)}

\* module_pool breaks a tie of the context by the order of the paths, given
\* by the tree; repo_pool_hit leaves it.
ModulePool(t, ctx, path) ==
  LET pool == Pool({p \in t.files : Under(p, Range(t.roots)) /\ ~Under(p, t.excluded)}, path)
      best == Best(ctx, pool)
      pick == CHOOSE p \in best : \A q \in best : t.order[p] <= t.order[q]
  IN  CASE pool = {}              -> Unfound(ctx, "none")
        [] Cardinality(pool) = 1  -> Found(ctx, CHOOSE p \in pool : TRUE, "suffix")
        [] Cardinality(pool) > 1 /\ Count(ctx, pick) > 0  -> Found(ctx, pick, "ctx")
        [] Cardinality(pool) > 1 /\ Count(ctx, pick) <= 0 -> Unfound(ctx, "ambiguous")

RepoPool(t, ctx, path) ==
  LET pool == Pool({p \in t.files : ~Under(p, t.hidden) /\ ~Under(p, t.excluded)}, path)
      best == Best(ctx, pool)
      pick == CHOOSE p \in best : TRUE
  IN  CASE t.incomplete                              -> Unfound(ctx, "ambiguous")
        [] ~t.incomplete /\ pool = {}                -> Unfound(ctx, "none")
        [] ~t.incomplete /\ Cardinality(pool) = 1    -> Found(ctx, pick, "repo-suffix")
        [] ~t.incomplete /\ Cardinality(pool) > 1    ->
             IF Cardinality(best) = 1 /\ Count(ctx, pick) > 0 THEN Found(ctx, pick, "repo-suffix")
             ELSE Unfound(ctx, "ambiguous")

Resolve(t, ctx, path) ==
  LET direct == {i \in DOMAIN t.roots : t.roots[i] \o path \in t.files}
      pooled == ModulePool(t, ctx, path)
  IN  CASE direct # {} -> Found(ctx, t.roots[Min(direct)] \o path, "direct")
        [] direct = {} /\ Under(path, t.excluded) -> Unfound(ctx, "none")
        [] direct = {} /\ ~Under(path, t.excluded) /\ path \in t.files -> Found(ctx, path, "repo-direct")
        [] OTHER -> IF pooled.kind # "none" THEN pooled ELSE RepoPool(t, ctx, path)

ResolveAll(t, paths) ==
  LET Next(acc, r) == [got |-> Append(acc.got, r), ctx |-> r.ctx]
  IN  FoldLeft(LAMBDA acc, p : Next(acc, Resolve(t, acc.ctx, p)),
               [got |-> <<>>, ctx |-> [d \in {} |-> 0]], paths)

---------------------------------------------------------------------------
(* What an anchored frame and a resolved path promise.                     *)

\* A descriptor that parses as an impl has a receiver; a graph has one row
\* of a symbol.
IsSymbol(x) == /\ x.head \in {"impl", "malformed", "none"}
               /\ x.head = "impl" => x.recv # None
               /\ x.chain # None => x.chain \in Seq(Identifiers)
IsRows(rows) == /\ IsFiniteSet(rows) /\ None \notin rows
                /\ \A r \in rows : /\ r = [file |-> r.file, line |-> r.line, sym |-> r.sym]
                                   /\ r.sym \in DOMAIN Symbols /\ (r.line # None => r.line \in Nat)
                /\ \A r, s \in rows : r.sym = s.sym => r = s
IsFrame(f) == /\ f.line \in Nat /\ f.chain \in Seq(Identifiers)
              /\ {f.whole, f.missing, f.long, f.nonblank} \subseteq BOOLEAN

\* Could the symbol be the method of this receiver for this trait?
CouldBe(s, q) ==
  /\ Symbols[s].head # "none" /\ Symbols[s].recv \in {q.recv, None}
  /\ Symbols[s].head = "impl" => q.trait \in Symbols[s].traits
Rivals(s, r) ==
  \/ Symbols[s].head = "malformed" \/ Symbols[r].head = "malformed"
  \/ Symbols[s].head = "impl" /\ Symbols[r].head = "impl"
     /\ Symbols[s].recv = Symbols[r].recv /\ Symbols[s].traits # Symbols[r].traits
Aligned(s, chain) == Symbols[s].chain # None /\ IsSuffix(chain, Symbols[s].chain)
Moved(rows, to) == {[r EXCEPT !.line = IF @ = None THEN None ELSE to[r.sym]] : r \in rows}

\* Row is the row of the step's symbol, rest the other symbols of its file,
\* drifts are ways the lines of the symbols may move.
OfItsFile(rows, f, got, row) ==
  /\ row.file = got.file /\ row.line = got.line
  /\ got.file = f.file \/ \A r \in rows : r.file = got.file
OnlyDeclared(rows, f, row, rest, drifts) ==
  /\ CouldBe(row.sym, f.qual) /\ Symbols[row.sym].head = "impl"
  /\ \A s \in rest : ~CouldBe(s, f.qual)
  /\ \A to \in drifts : Frame(Moved(rows, to), f).sym = row.sym
OnlySpelled(f, row, rest) ==
  /\ f.whole
  /\ \/ rest = {Symbols[row.sym].twin}
     \/ /\ Aligned(row.sym, f.chain)
        /\ \A s \in rest : /\ Symbols[s].chain # None
                           /\ Aligned(s, f.chain) => /\ Symbols[row.sym].chain = f.chain
                                                     /\ Symbols[s].chain # f.chain
OnlyOnLine(rows, f, got, row) ==
  /\ row.line = f.line
  /\ \A r \in rows : (r.file = got.file /\ r.line = f.line) => r.sym = row.sym

\* The guess that is kept: another file than the frame's is read from its top.
NearestOfName(rows, f, got, row) ==
  LET from == IF got.why = "moved-file" THEN 0 ELSE f.line IN
  \A r \in rows : (r.file = got.file /\ r.line # None) => Away(row, from) <= Away(r, from)

Grounded(rows, f, got, row, rest, drifts) ==
  /\ OfItsFile(rows, f, got, row)
  /\ f.qual # None => OnlyDeclared(rows, f, row, rest, drifts)
  /\ (f.qual = None /\ f.line = 0 /\ rest # {}) => OnlySpelled(f, row, rest)
  /\ (f.qual = None /\ f.line # 0) =>
       IF \E s, r \in rest \cup {row.sym} : Rivals(s, r) THEN OnlyOnLine(rows, f, got, row)
       ELSE NearestOfName(rows, f, got, row)

\* Nested paths are excepted, where a row of x/f answers for the file f.
Nests(rows, f) == f.line # 0 /\ \E r \in rows : r.file \in Ending(f.file) \ {f.file}
FrameGrounded(rows, f, drifts) ==
  LET Rest(got) == {r.sym : r \in {x \in rows : x.file = got.file /\ x.line # None}} \ {got.sym}
      Of(got) == got.sym # None =>
          Grounded(rows, f, got, CHOOSE r \in rows : r.sym = got.sym, Rest(got), drifts)
  IN  Nests(rows, f) \/ Of(Frame(rows, f))

IsTree(t) == /\ t.files \subseteq Seq(Identifiers) /\ <<>> \notin t.files /\ None \notin t.files
             /\ IsFiniteSet(t.files) /\ t.roots \in Seq(Seq(Identifiers)) /\ t.incomplete \in BOOLEAN
             /\ \A f \in t.files : t.order[f] \in Nat

\* The files that the spelled path p may mean.
Likely(t, p, repo) ==
  {f \in t.files : /\ ~Under(f, t.excluded) /\ IsSuffix(p, f)
                   /\ IF repo THEN ~Under(f, t.hidden) ELSE Under(f, Range(t.roots))}

\* What p resolves to after the frames before, alone being what it resolves
\* to with none.
Settled(t, p, got, alone, before) ==
  /\ alone.kind # "ambiguous" => got.file = alone.file /\ got.kind = alone.kind
  /\ got.file # None =>
       /\ got.file \in t.files /\ NameOf(got.file) = NameOf(p)
       /\ got.kind # "direct" => ~Under(got.file, t.excluded)
       /\ got.kind \in {"suffix", "ctx", "repo-suffix"} =>
            \A q \in Likely(t, p, got.kind = "repo-suffix") : IsSuffix(p, got.file)
       /\ got.kind \in {"ctx", "repo-suffix"} /\ alone.kind = "ambiguous" =>
            \E q \in {before[i].file : i \in DOMAIN before} :
              q # None /\ DirOf(q) = DirOf(got.file)
=============================================================================
