-------------------------- MODULE Algorithms_proof --------------------------
(***************************************************************************)
(* What the algorithms promise, for every input of every size and every    *)
(* value of the constants the inputs are made of.                          *)
(***************************************************************************)
EXTENDS Algorithms, FiniteSetTheorems, SequenceTheorems, WellFoundedInduction, TLAPS

---------------------------------------------------------------------------
(* Numbers and finite sets.                                                *)

\* A set of numbers that is not empty has a least one.
LEMMA MinimalBy ==
    ASSUME NEW Less, IsWellFoundedOn(Less, Nat), NEW U, U \subseteq Nat, U # {}
    PROVE  \E x \in U : \A y \in U : ~ (<<y, x>> \in Less)
  BY WFMin, Zenon

LEMMA LeastBy ==
    ASSUME NEW Less, IsWellFoundedOn(Less, Nat), \A x, y \in Nat : <<x, y>> \in Less <=> x < y,
           NEW U, U \subseteq Nat, U # {}
    PROVE  \E x \in U : \A y \in U : x <= y
<1>1. \E x \in U : \A y \in U : ~ (<<y, x>> \in Less)
  BY MinimalBy
<1>2. PICK x \in U : \A y \in U : ~ (<<y, x>> \in Less)
  BY <1>1
<1>3. \A y \in U : ~ (y < x)
  BY <1>2
<1>4. QED
  BY <1>2, <1>3

LEMMA LeastNumber ==
    ASSUME NEW U, U \subseteq Nat, U # {}
    PROVE  \E x \in U : \A y \in U : x <= y
<1>1. IsWellFoundedOn(OpToRel(<, Nat), Nat)
  BY NatLessThanWellFounded
<1>2. \A x, y \in Nat : <<x, y>> \in OpToRel(<, Nat) <=> x < y
  BY Z3 DEF OpToRel
<1>3. \E Less : IsWellFoundedOn(Less, Nat) /\ \A x, y \in Nat : <<x, y>> \in Less <=> x < y
  BY <1>1, <1>2, Zenon
<1>4. QED
  BY <1>3, LeastBy

\* What holds of zero and of the successor of each number it holds of, holds
\* of every number: induction, over the set of the numbers it holds of.
LEMMA EveryNumber ==
    ASSUME NEW S, 0 \in S, \A n \in Nat : n \in S => n + 1 \in S
    PROVE  Nat \subseteq S
<1>1. SUFFICES ASSUME Nat \ S # {} PROVE FALSE
  OBVIOUS
<1>2. PICK x \in Nat \ S : \A y \in Nat \ S : x <= y
  BY <1>1, LeastNumber
<1>3. x # 0 /\ x - 1 \in Nat /\ ~ (x <= x - 1)
  BY <1>2
<1>4. QED
  BY <1>2, <1>3

\* A finite set of one element is a singleton.
LEMMA OneElement ==
    ASSUME NEW S, IsFiniteSet(S), Cardinality(S) = 1
    PROVE  \E x : S = {x}
  BY FS_Singleton

---------------------------------------------------------------------------
(* The identity a declared frame gets.                                     *)

LEMMA RowParts ==
    ASSUME NEW rows, IsRows(rows), NEW file
    PROVE  /\ SameFileRows(rows, file) \subseteq rows
           /\ IsFiniteSet(SameFileRows(rows, file)) /\ None \notin SameFileRows(rows, file)
<1>1. SameFileRows(rows, file) \subseteq rows
  BY DEF SameFileRows
<1>2. QED
  BY <1>1, FS_Subset DEF IsRows

LEMMA SelectedOne ==
    ASSUME NEW rows, IsFiniteSet(rows), None \notin rows, NEW q,
           QualifiedSelect(rows, q).row # None
    PROVE  /\ QualifiedSelect(rows, q).row \in rows
           /\ Declared(rows, q) = {QualifiedSelect(rows, q).row}
           /\ ~Shadowed(rows, q)
<1> DEFINE found == Declared(rows, q)
<1>1. found \subseteq rows /\ IsFiniteSet(found) /\ Cardinality(found) \in Nat
  <2>1. found \subseteq rows
    BY DEF Declared
  <2>2. QED
    BY <2>1, FS_Subset, FS_CardinalityType
<1>2. ~(Cardinality(found) > 1) /\ ~Shadowed(rows, q) /\ found # {}
  BY DEF QualifiedSelect
<1>3. Cardinality(found) = 1
  BY <1>1, <1>2, FS_EmptySet
<1>4. PICK x : found = {x}
  BY <1>1, <1>3, OneElement
<1>5. QualifiedSelect(rows, q).row = CHOOSE r \in found : TRUE
  BY <1>2, <1>3 DEF QualifiedSelect
<1>6. QED
  BY <1>1, <1>2, <1>4, <1>5

\* And the other way around.
LEMMA OneSelected ==
    ASSUME NEW rows, NEW q, NEW x, Declared(rows, q) = {x}, ~Shadowed(rows, q)
    PROVE  QualifiedSelect(rows, q) = [why |-> "unique", row |-> x]
<1>1. Cardinality({x}) = 1 /\ {x} # {}
  BY FS_Singleton
<1>2. (CHOOSE r \in {x} : TRUE) = x
  OBVIOUS
<1>3. QED
  BY <1>1, <1>2 DEF QualifiedSelect

\* A row after a drift.
MovedTo(r, to) == [r EXCEPT !.line = IF @ = None THEN None ELSE to[r.sym]]

\* A drift moves the lines of the rows, and nothing else of them.
LEMMA MovedRow ==
    ASSUME NEW rows, IsRows(rows), NEW to \in [DOMAIN Symbols -> Nat], NEW r \in rows,
           None \notin Moved(rows, to)
    PROVE  /\ MovedTo(r, to) \in Moved(rows, to) /\ MovedTo(r, to) # None
           /\ MovedTo(r, to).sym = r.sym /\ MovedTo(r, to).file = r.file
           /\ MovedTo(r, to).line = None <=> r.line = None
<1> DEFINE m == MovedTo(r, to)
<1>1. m \in Moved(rows, to)
  BY DEF Moved, MovedTo
<1>2. r = [file |-> r.file, line |-> r.line, sym |-> r.sym] /\ r.sym \in DOMAIN Symbols
  BY DEF IsRows
<1>3. to[r.sym] \in Nat /\ to[r.sym] # None
  BY <1>2, NoneAssumption
<1>4. m = [file |-> r.file, line |-> IF r.line = None THEN None ELSE to[r.sym], sym |-> r.sym]
  BY <1>2 DEF MovedTo
<1>5. m.sym = r.sym /\ m.file = r.file /\ (m.line = None <=> r.line = None)
  BY <1>3, <1>4
<1>6. QED
  BY <1>1, <1>5

\* So the frame's declared identity is chosen alike after any drift.
LEMMA DriftKeepsSelection ==
    ASSUME NEW rows, IsRows(rows), NEW to \in [DOMAIN Symbols -> Nat], None \notin Moved(rows, to),
           NEW file, NEW q, NEW row,
           Declared(SameFileRows(rows, file), q) = {row}, ~Shadowed(SameFileRows(rows, file), q)
    PROVE  LET got == QualifiedSelect(SameFileRows(Moved(rows, to), file), q)
           IN  got.why = "unique" /\ got.row # None /\ got.row.sym = row.sym
<1> DEFINE Move(r) == MovedTo(r, to)
           here == SameFileRows(rows, file)
           there == SameFileRows(Moved(rows, to), file)
<1>1. ASSUME NEW r \in rows
      PROVE  /\ Move(r) \in Moved(rows, to) /\ Move(r).sym = r.sym /\ Move(r).file = r.file
             /\ (Move(r).line = None <=> r.line = None) /\ Move(r) # None
  <2> HIDE DEF here, there
  <2>1. QED
    BY MovedRow
<1>2. \A m \in Moved(rows, to) : \E r \in rows : m = Move(r)
  BY DEF Moved, MovedTo
<1> HIDE DEF Move
<1>3. \A r \in rows : Move(r) \in there <=> r \in here
  BY <1>1 DEF SameFileRows
<1>4. \A r \in rows : At(Move(r)) = At(r)
  BY <1>1 DEF At
<1>5. row \in here /\ row \in rows
  BY DEF Declared, SameFileRows
<1>6. Declared(there, q) = {Move(row)}
  <2>1. Move(row) \in Declared(there, q)
    BY <1>3, <1>4, <1>5 DEF Declared
  <2>2. ASSUME NEW m \in Declared(there, q) PROVE m = Move(row)
    <3>1. PICK r \in rows : m = Move(r)
      BY <1>2 DEF Declared, SameFileRows
    <3>2. r \in Declared(here, q)
      BY <1>3, <1>4, <3>1 DEF Declared
    <3>3. QED
      BY <3>1, <3>2
  <2>3. QED
    BY <2>1, <2>2
<1>7. ~Shadowed(there, q)
  <2>1. SUFFICES ASSUME NEW m \in there, At(m).head = "malformed", At(m).recv \in {None, q.recv}
                 PROVE FALSE
    BY DEF Shadowed
  <2>2. PICK r \in rows : m = Move(r)
    BY <1>2 DEF SameFileRows
  <2>3. QED
    BY <1>3, <1>4, <2>1, <2>2 DEF Shadowed
<1>8. QualifiedSelect(there, q) = [why |-> "unique", row |-> Move(row)]
  BY <1>6, <1>7, OneSelected
<1>9. QED
  BY <1>1, <1>5, <1>8

---------------------------------------------------------------------------
(* What a frame becomes, by what it declares.                              *)

\* The rows that a frame with a line is looked for among, where no path nests.
LEMMA HereIsItsFile ==
    ASSUME NEW rows, NEW f, ~Nests(rows, f), f.line # 0,
           NEW r \in rows, r.file \in Ending(f.file), r.line # None
    PROVE  {x \in rows : x.file \in Ending(f.file) /\ x.line # None} = SameFileRows(rows, f.file)
<1>1. \A x \in rows : x.file \in Ending(f.file) => x.file = f.file
  BY DEF Nests
<1>2. f.file \in Ending(f.file)
  BY <1>1
<1>3. QED
  BY <1>1, <1>2 DEF SameFileRows

LEMMA FilesFinite ==
    ASSUME NEW rows, IsRows(rows)
    PROVE  IsFiniteSet({r.file : r \in rows})
<1>1. IsFiniteSet(rows)
  BY DEF IsRows
<1> DEFINE File == [r \in rows |-> r.file]
           files == {r.file : r \in rows}
<1>2. File \in [rows -> files]
  OBVIOUS
<1>3. \A x \in files : \E r \in rows : File[r] = x
  OBVIOUS
<1> HIDE DEF File, files
<1>4. File \in Surjection(rows, files)
  BY <1>2, <1>3 DEF Surjection
<1>5. IsFiniteSet(files)
  BY <1>1, <1>4, FS_Surjection
<1>6. QED
  BY <1>5 DEF files

\* A frame that is looked for elsewhere: in the only file there is.
LEMMA OnlyFile ==
    ASSUME NEW rows, IsRows(rows), Cardinality({r.file : r \in rows}) = 1
    PROVE  \E file : {r.file : r \in rows} = {file} /\ \A r \in rows : r.file = file
<1>1. IsFiniteSet({r.file : r \in rows})
  BY FilesFinite
<1>2. PICK file : {r.file : r \in rows} = {file}
  BY <1>1, OneElement
<1>3. \A r \in rows : r.file \in {file}
  BY <1>2
<1>4. QED
  BY <1>2, <1>3

\* A step that carries an identity is of a row of its file with a line.
Chosen(rows, f, got, row) ==
    /\ row \in SameFileRows(rows, got.file)
    /\ got.sym = row.sym /\ got.line = row.line
    /\ got.file = f.file \/ \A r \in rows : r.file = got.file

\* A frame that carries an identity was hit by a row, and not refused.
HitOf(rows, f) == IF f.line = 0 THEN FillAnchor(rows, f) ELSE Anchor(rows, f)

LEMMA FrameParts ==
    ASSUME NEW rows, NEW f
    PROVE  LET got == Frame(rows, f)  hit == HitOf(rows, f) IN
           /\ got.file = hit.file /\ got.why = hit.why
           /\ got.sym # None => /\ hit.row # None /\ got.sym = hit.row.sym
                                /\ got.line = hit.row.line /\ hit.why \notin Refusals
                                /\ (f.line = 0 => f.nonblank)
           /\ (hit.row # None /\ hit.why \notin Refusals /\ (f.line = 0 => f.nonblank)) =>
                got.sym = hit.row.sym
<1> DEFINE got == Frame(rows, f)
           hit == HitOf(rows, f)
           skip == IF hit.why \in Refusals THEN hit.why
                   ELSE IF f.line = 0 /\ (hit.row = None \/ ~f.nonblank) THEN "noanchor" ELSE None
<1>1. got = [skip |-> skip, why |-> hit.why, file |-> hit.file,
             line |-> IF hit.row # None THEN hit.row.line
                      ELSE IF hit.why = "moved-file" THEN 1 ELSE f.line,
             sym  |-> IF skip # None \/ hit.row = None THEN None ELSE hit.row.sym]
  BY DEF Frame, HitOf
<1> HIDE DEF got, hit
<1>2. got.file = hit.file /\ got.why = hit.why /\ got.sym = (IF skip # None \/ hit.row = None THEN None ELSE hit.row.sym)
      /\ (hit.row # None => got.line = hit.row.line)
  BY <1>1
<1>3. "noanchor" # None /\ None \notin Refusals
  BY NoneAssumption
<1>4. QED
  BY <1>2, <1>3 DEF got, hit

\* The file in which the identity that a frame declares is looked for.
Place(rows, f, file) ==
    IF f.line # 0 /\ {r \in rows : r.file \in Ending(f.file) /\ r.line # None} = {}
    THEN {r.file : r \in rows} = {file} ELSE file = f.file

\* The frame declares its identity.
LEMMA FrameDeclared ==
    ASSUME NEW rows, IsRows(rows), NEW f, IsFrame(f), ~Nests(rows, f),
           f.qual # None, Frame(rows, f).sym # None
    PROVE  \E row \in rows : /\ Chosen(rows, f, Frame(rows, f), row)
                             /\ Place(rows, f, Frame(rows, f).file) /\ (f.line = 0 => f.nonblank)
                             /\ Declared(SameFileRows(rows, Frame(rows, f).file), f.qual) = {row}
                             /\ ~Shadowed(SameFileRows(rows, Frame(rows, f).file), f.qual)
<1> DEFINE got == Frame(rows, f)
           hit == HitOf(rows, f)
           Select(file) == QualifiedSelect(SameFileRows(rows, file), f.qual)
<1>1. got.file = hit.file /\ hit.row # None /\ got.sym = hit.row.sym /\ got.line = hit.row.line
      /\ (f.line = 0 => f.nonblank)
  BY FrameParts
<1>2. \E file : /\ hit.file = file /\ hit.row = Select(file).row /\ Place(rows, f, file)
                /\ file = f.file \/ \A r \in rows : r.file = file
  <2>1. CASE f.line = 0
    BY <2>1 DEF HitOf, FillAnchor, Hit, Place
  <2>2. CASE f.line # 0 /\ {r \in rows : r.file \in Ending(f.file) /\ r.line # None} # {}
    <3> DEFINE here == {r \in rows : r.file \in Ending(f.file) /\ r.line # None}
    <3>1. here = SameFileRows(rows, f.file)
      BY <2>2, HereIsItsFile
    <3>2. Anchor(rows, f) = AnchorHere(here, f)
      BY <2>2 DEF Anchor
    <3>3. hit = AnchorHere(SameFileRows(rows, f.file), f)
      BY <2>2, <3>1, <3>2 DEF HitOf
    <3>4. QED
      BY <1>1, <2>2, <3>3 DEF AnchorHere, Hit, Place
  <2>3. CASE f.line # 0 /\ {r \in rows : r.file \in Ending(f.file) /\ r.line # None} = {}
    <3> DEFINE files == {r.file : r \in rows}
    <3>1. Cardinality(files) = 1 /\ hit = AnchorThere(rows, CHOOSE x \in files : TRUE, f)
      <4>1. hit = CASE Cardinality(files) = 1 -> AnchorThere(rows, CHOOSE x \in files : TRUE, f)
                    [] Cardinality(files) > 1 -> Hit("moved-file-ambiguous", f.file, None)
                    [] files = {} -> Hit(IF f.qual = None THEN "not-in-graph" ELSE "qualifier_no_hit",
                                         f.file, None)
        BY <2>3 DEF HitOf, Anchor
      <4>2. IsFiniteSet(files) /\ Cardinality(files) \in Nat /\ (Cardinality(files) = 0 <=> files = {})
        BY FilesFinite, FS_CardinalityType, FS_EmptySet
      <4>3. Hit("moved-file-ambiguous", f.file, None).row = None
            /\ \A why : Hit(why, f.file, None).row = None
        BY DEF Hit
      <4>4. files # {} /\ ~(Cardinality(files) > 1)
        <5> HIDE DEF files, hit
        <5>1. CASE files = {}
          <6>1. hit = Hit(IF f.qual = None THEN "not-in-graph" ELSE "qualifier_no_hit", f.file, None)
            BY <4>1, <4>2, <5>1
          <6>2. QED
            BY <1>1, <4>3, <6>1
        <5>2. CASE Cardinality(files) > 1
          <6>1. hit = Hit("moved-file-ambiguous", f.file, None)
            BY <4>1, <4>2, <5>2
          <6>2. QED
            BY <1>1, <4>3, <6>1
        <5>3. QED
          BY <5>1, <5>2
      <4>5. Cardinality(files) = 1
        <5> HIDE DEF files
        <5>1. QED
          BY <4>2, <4>4
      <4>6. QED
        <5> HIDE DEF files, hit
        <5>1. QED
          BY <4>1, <4>4, <4>5
    <3>2. PICK file : files = {file} /\ \A r \in rows : r.file = file
      BY <3>1, OnlyFile
    <3>3. hit = AnchorThere(rows, file, f)
      BY <3>1, <3>2
    <3>4. QED
      BY <1>1, <2>3, <3>2, <3>3 DEF AnchorThere, Hit, Place
  <2>4. QED
    BY <2>1, <2>2, <2>3
<1>3. PICK file : /\ hit.file = file /\ hit.row = Select(file).row /\ Place(rows, f, file)
                  /\ file = f.file \/ \A r \in rows : r.file = file
  BY <1>2
<1>4. /\ hit.row \in SameFileRows(rows, file) /\ ~Shadowed(SameFileRows(rows, file), f.qual)
      /\ Declared(SameFileRows(rows, file), f.qual) = {hit.row}
  BY <1>1, <1>3, RowParts, SelectedOne
<1>5. hit.row \in rows
  BY <1>4 DEF SameFileRows
<1>6. QED
  BY <1>1, <1>3, <1>4, <1>5 DEF Chosen

\* The one whose chain ends as spelled is one of the candidates.
LEMMA TailInside ==
    ASSUME NEW rows, IsFiniteSet(rows), NEW chain, TailUnique(rows, chain) # None
    PROVE  LET exact == {r \in rows : At(r).chain = chain}
               tails == {r \in rows : At(r).chain # None /\ Len(At(r).chain) > Len(chain)
                                      /\ IsSuffix(chain, At(r).chain)}
           IN  /\ TailUnique(rows, chain) \in rows
               /\ \A r \in rows : At(r).chain # None
               /\ (IF exact # {} THEN exact ELSE tails) = {TailUnique(rows, chain)}
<1> DEFINE exact == {r \in rows : At(r).chain = chain}
           tails == {r \in rows : At(r).chain # None /\ Len(At(r).chain) > Len(chain)
                                  /\ IsSuffix(chain, At(r).chain)}
           tier == IF exact # {} THEN exact ELSE tails
<1>1. tier \subseteq rows
  OBVIOUS
<1>2. TailUnique(rows, chain) = IF Cardinality(tier) # 1 \/ \E r \in rows : At(r).chain = None THEN None
                                ELSE CHOOSE r \in tier : TRUE
  BY DEF TailUnique
<1> HIDE DEF tier
<1>3. Cardinality(tier) = 1 /\ \A r \in rows : At(r).chain # None
  BY <1>2
<1>4. PICK x : tier = {x}
  BY <1>1, <1>3, FS_Subset, OneElement
<1>5. TailUnique(rows, chain) = CHOOSE r \in {x} : TRUE
  BY <1>2, <1>3, <1>4
<1>6. TailUnique(rows, chain) = x
  BY <1>5
<1>7. QED
  BY <1>1, <1>3, <1>4, <1>6 DEF tier

\* The frame has neither a declared identity nor a line.
LEMMA FrameNamed ==
    ASSUME NEW rows, IsRows(rows), NEW f, f.qual = None, f.line = 0, Frame(rows, f).sym # None
    PROVE  LET here == SameFileRows(rows, f.file) IN
           \E row \in rows : /\ Frame(rows, f).file = f.file /\ Chosen(rows, f, Frame(rows, f), row)
                             /\ ResolveCandidates(here, f.chain, f.whole).row = row
<1> DEFINE here == SameFileRows(rows, f.file)
           row == ResolveCandidates(here, f.chain, f.whole).row
           got == Frame(rows, f)
<1>1. /\ FillAnchor(rows, f).file = f.file /\ FillAnchor(rows, f).row = row
  BY DEF FillAnchor, Hit
<1>2. got.file = f.file /\ row # None /\ got.sym = row.sym /\ got.line = row.line
  <2> HIDE DEF row
  <2>1. QED
    BY <1>1 DEF Frame
<1>3. row \in here
  <2>1. CASE here = {}
    <3>1. Cardinality({}) = 0
      BY FS_EmptySet
    <3>2. \A chain, whole : ResolveCandidates({}, chain, whole).row = None
      BY <3>1 DEF ResolveCandidates
    <3>3. row = None
      BY <2>1, <3>2
    <3> HIDE DEF row
    <3>4. QED
      BY <1>2, <3>3
  <2>2. CASE here # {}
    <3>1. IsFiniteSet(here) /\ Cardinality(here) \in Nat \ {0}
      BY <2>2, RowParts, FS_CardinalityType, FS_EmptySet
    <3>2. CtorPair(here) # None => CtorPair(here) \in here
      BY DEF CtorPair
    <3>3. TailUnique(here, f.chain) # None => TailUnique(here, f.chain) \in here
      BY TailInside, <3>1
    <3>4. (CHOOSE r \in here : TRUE) \in here
      BY <2>2
    <3> DEFINE pair == CtorPair(here)  tail == TailUnique(here, f.chain)
    <3>5. ResolveCandidates(here, f.chain, f.whole) =
            CASE here = {} -> [why |-> "not-in-graph", row |-> None]
              [] Cardinality(here) = 1 -> [why |-> "filled", row |-> CHOOSE r \in here : TRUE]
              [] Cardinality(here) > 1 /\ f.whole /\ pair # None -> [why |-> "filled", row |-> pair]
              [] Cardinality(here) > 1 /\ f.whole /\ pair = None /\ tail # None ->
                   [why |-> "filled", row |-> tail]
              [] OTHER -> [why |-> "ambiguous", row |-> None]
      BY DEF ResolveCandidates
    <3> HIDE DEF here, pair, tail
    <3>6. QED
      BY <1>2, <2>2, <3>1, <3>2, <3>3, <3>4, <3>5 DEF pair, tail
  <2>3. QED
    BY <2>1, <2>2
<1>4. row \in rows
  BY <1>3 DEF SameFileRows
<1>5. QED
  BY <1>2, <1>3, <1>4 DEF Chosen

\* Of some numbers there are no more than finitely many below a bound, so a
\* finite set has an element that a number of its own makes least.
LEMMA LeastOf ==
    ASSUME NEW here, here # {}, NEW f \in [here -> Nat]
    PROVE  \E r \in here : \A s \in here : f[r] <= f[s]
<1> DEFINE some == {f[r] : r \in here}
<1>1. some \subseteq Nat /\ some # {}
  OBVIOUS
<1>2. \E n \in some : \A m \in some : n <= m
  BY <1>1, LeastNumber
<1>3. QED
  BY <1>2

\* The nearest of some rows, ties to the lower line and the first symbol, is
\* one of them, and none is nearer.
LEMMA NearestInside ==
    ASSUME NEW here, here # {}, NEW line \in Nat, \A r \in here : r.line \in Nat /\ r.sym \in Nat
    PROVE  /\ Nearest(here, line) \in here
           /\ \A s \in here : Away(Nearest(here, line), line) <= Away(s, line)
<1> DEFINE near == [r \in here |-> Away(r, line)]
           closest == {r \in here : \A s \in here : Away(r, line) <= Away(s, line)}
           lines == [r \in closest |-> r.line]
           lowest == {r \in closest : \A s \in closest : r.line <= s.line}
           syms == [r \in lowest |-> r.sym]
<1>1. \A r \in here : Away(r, line) \in Nat
  BY DEF Away
<1>2. closest # {}
  <2>1. near \in [here -> Nat]
    BY <1>1
  <2> HIDE DEF near
  <2>2. PICK r \in here : \A s \in here : near[r] <= near[s]
    BY <2>1, LeastOf
  <2>3. \A s \in here : near[s] = Away(s, line)
    BY DEF near
  <2>4. r \in closest
    BY <2>2, <2>3
  <2>5. QED
    BY <2>4
<1>3. lowest # {}
  <2>1. lines \in [closest -> Nat]
    OBVIOUS
  <2> HIDE DEF closest
  <2>2. PICK r \in closest : \A s \in closest : lines[r] <= lines[s]
    BY <1>2, <2>1, LeastOf
  <2>3. QED
    BY <2>2
<1>4. PICK r \in lowest : \A s \in lowest : r.sym <= s.sym
  <2>1. syms \in [lowest -> Nat]
    OBVIOUS
  <2> HIDE DEF lowest
  <2>2. PICK r \in lowest : \A s \in lowest : syms[r] <= syms[s]
    BY <1>3, <2>1, LeastOf
  <2>3. QED
    BY <2>2
<1>5. \A s \in here : \/ Away(r, line) < Away(s, line)
                      \/ /\ Away(r, line) = Away(s, line)
                         /\ r.line < s.line \/ (r.line = s.line /\ r.sym <= s.sym)
  <2>1. TAKE s \in here
  <2>2. r \in closest /\ r \in here /\ Away(r, line) <= Away(s, line)
    OBVIOUS
  <2>3. CASE s \notin closest
    <3>1. PICK t \in here : ~(Away(s, line) <= Away(t, line))
      BY <2>3
    <3>2. Away(r, line) <= Away(t, line)
      BY <2>2
    <3>3. QED
      BY <1>1, <2>2, <3>1, <3>2
  <2>4. CASE s \in closest /\ s \notin lowest
    <3>1. PICK t \in closest : ~(s.line <= t.line)
      BY <2>4
    <3>2. r.line <= t.line /\ Away(s, line) <= Away(r, line)
      BY <2>2, <2>4
    <3>3. QED
      BY <1>1, <2>2, <3>1, <3>2
  <2>5. CASE s \in lowest
    <3>1. r.sym <= s.sym /\ r.line <= s.line /\ s.line <= r.line /\ Away(s, line) <= Away(r, line)
      BY <1>4, <2>5
    <3>2. QED
      BY <1>1, <2>2, <3>1
  <2>6. QED
    BY <2>3, <2>4, <2>5
<1> DEFINE Ahead(x) == \A s \in here : \/ Away(x, line) < Away(s, line)
                                        \/ /\ Away(x, line) = Away(s, line)
                                           /\ x.line < s.line \/ (x.line = s.line /\ x.sym <= s.sym)
<1>6. r \in here /\ Ahead(r)
  BY <1>5
<1>7. Nearest(here, line) = CHOOSE x \in here : Ahead(x)
  BY DEF Nearest
<1>8. \A x \in here : Ahead(x) => \A s \in here : Away(x, line) <= Away(s, line)
  BY <1>1
<1> HIDE DEF Ahead
<1>9. QED
  BY <1>6, <1>7, <1>8

---------------------------------------------------------------------------
(* Ends of sequences.                                                      *)

\* A suffix is no longer, and is the end of the sequence.
LEMMA SuffixMeans ==
    ASSUME NEW N, NEW s \in Seq(N), NEW t \in Seq(N)
    PROVE  IsSuffix(s, t) <=> /\ Len(s) <= Len(t)
                              /\ \A i \in 1 .. Len(s) : s[Len(s) - i + 1] = t[Len(t) - i + 1]
<1> DEFINE a == Reverse(s)  b == Reverse(t)
<1>1. a \in Seq(N) /\ Len(a) = Len(s) /\ \A i \in 1 .. Len(s) : a[i] = s[Len(s) - i + 1]
  BY DEF Reverse
<1>2. b \in Seq(N) /\ Len(b) = Len(t) /\ \A i \in 1 .. Len(t) : b[i] = t[Len(t) - i + 1]
  BY DEF Reverse
<1>3. IsSuffix(s, t) <=> IsPrefix(a, b)
  BY DEF IsSuffix
<1> HIDE DEF a, b
<1>4. Len(a) <= Len(b) =>
        (SubSeq(a, 1, Len(a)) = SubSeq(b, 1, Len(a)) <=> \A i \in 1 .. Len(a) : a[i] = b[i])
  <2>1. ASSUME Len(a) <= Len(b)
        PROVE  /\ SubSeq(a, 1, Len(a)) = [i \in 1 .. Len(a) |-> a[i]]
               /\ SubSeq(b, 1, Len(a)) = [i \in 1 .. Len(a) |-> b[i]]
    BY <1>1, <1>2, <2>1
  <2>2. ASSUME [i \in 1 .. Len(a) |-> a[i]] = [i \in 1 .. Len(a) |-> b[i]], NEW i \in 1 .. Len(a)
        PROVE  a[i] = b[i]
    BY <2>2
  <2>3. QED
    BY <2>1, <2>2
<1>5. Len(s) <= Len(t) => \A i \in 1 .. Len(s) : i \in 1 .. Len(t)
  BY <1>1, <1>2
<1>6. QED
  BY <1>1, <1>2, <1>3, <1>4, <1>5 DEF IsPrefix

LEMMA SuffixSelf ==
    ASSUME NEW N, NEW s \in Seq(N)
    PROVE  IsSuffix(s, s)
  BY SuffixMeans

LEMMA SuffixEqual ==
    ASSUME NEW N, NEW s \in Seq(N), NEW t \in Seq(N), IsSuffix(s, t), Len(t) <= Len(s)
    PROVE  s = t
<1>1. Len(s) = Len(t) /\ Len(s) \in Nat /\ \A i \in 1 .. Len(s) : s[Len(s) - i + 1] = t[Len(s) - i + 1]
  BY SuffixMeans
<1>2. ASSUME NEW i \in 1 .. Len(s) PROVE s[i] = t[i]
  <2>1. Len(s) - i + 1 \in 1 .. Len(s) /\ Len(s) - (Len(s) - i + 1) + 1 = i
    BY <1>1
  <2>2. QED
    BY <1>1, <2>1
<1>3. QED
  BY <1>1, <1>2

---------------------------------------------------------------------------
(* The identity that a chain of names spells.                              *)

\* The row found of those of a file has no rival: it is all there is, or the
\* class of the other, or the one that the spelled chain ends.
LEMMA SpelledAlone ==
    ASSUME NEW here, IsRows(here), NEW f, IsFrame(f), NEW row \in here, NEW other \in here,
           other.sym # row.sym, ResolveCandidates(here, f.chain, f.whole).row = row,
           \A x \in DOMAIN Symbols : IsSymbol(Symbols[x])
    PROVE  OnlySpelled(f, row, {r.sym : r \in here} \ {row.sym})
<1> DEFINE rest == {r.sym : r \in here} \ {row.sym}
           pair == CtorPair(here)
           tail == TailUnique(here, f.chain)
<1>1. IsFiniteSet(here) /\ row # None /\ here # {} /\ \A r \in here : r.sym \in DOMAIN Symbols
  BY DEF IsRows
<1>2. Cardinality(here) \in Nat /\ Cardinality(here) > 1
  <2>1. Cardinality(here) \in Nat /\ Cardinality(here) # 0
    BY <1>1, FS_CardinalityType, FS_EmptySet
  <2>2. Cardinality(here) # 1
    BY <1>1, OneElement
  <2>3. QED
    BY <2>1, <2>2
<1>3. ResolveCandidates(here, f.chain, f.whole) =
        CASE here = {} -> [why |-> "not-in-graph", row |-> None]
          [] Cardinality(here) = 1 -> [why |-> "filled", row |-> CHOOSE r \in here : TRUE]
          [] Cardinality(here) > 1 /\ f.whole /\ pair # None -> [why |-> "filled", row |-> pair]
          [] Cardinality(here) > 1 /\ f.whole /\ pair = None /\ tail # None ->
               [why |-> "filled", row |-> tail]
          [] OTHER -> [why |-> "ambiguous", row |-> None]
  BY DEF ResolveCandidates
<1>4. f.whole /\ (row = pair \/ (pair = None /\ row = tail))
  <2> HIDE DEF pair, tail
  <2>1. QED
    BY <1>1, <1>2, <1>3
<1>5. CASE row = pair
  <2> DEFINE types == {t \in here : /\ At(t).kind = "Type"
                                    /\ \E c \in here : /\ here = {t, c} /\ At(c).kind = "Function"
                                                       /\ At(t).twin = c.sym /\ c.line = t.line}
  <2>1. row \in types
    <3>1. pair = IF types = {} THEN None ELSE CHOOSE t \in types : TRUE
      BY DEF CtorPair
    <3> HIDE DEF types, pair
    <3>2. QED
      BY <1>1, <1>5, <3>1
  <2>2. PICK c \in here : here = {row, c} /\ At(row).twin = c.sym
    BY <2>1
  <2>3. rest = {c.sym}
    BY <2>2
  <2>4. QED
    BY <1>4, <2>2, <2>3 DEF OnlySpelled, At
<1>6. CASE pair = None /\ row = tail
  <2> DEFINE exact == {r \in here : At(r).chain = f.chain}
             tails == {r \in here : At(r).chain # None /\ Len(At(r).chain) > Len(f.chain)
                                    /\ IsSuffix(f.chain, At(r).chain)}
  <2>1. /\ \A r \in here : At(r).chain # None
        /\ (IF exact # {} THEN exact ELSE tails) = {row}
    BY <1>1, <1>6, TailInside
  <2>2. f.chain \in Seq(Identifiers) /\ \A r \in here : At(r).chain \in Seq(Identifiers)
    BY <1>1, <2>1 DEF IsFrame, At, IsSymbol
  <2>3. Aligned(row.sym, f.chain)
    <3>1. IsSuffix(f.chain, At(row).chain)
      BY <2>1, <2>2, SuffixSelf
    <3>2. QED
      BY <2>1, <3>1 DEF Aligned, At
  <2>4. ASSUME NEW s \in rest
        PROVE  /\ Symbols[s].chain # None
               /\ Aligned(s, f.chain) => /\ Symbols[row.sym].chain = f.chain
                                         /\ Symbols[s].chain # f.chain
    <3>1. PICK r \in here : s = r.sym /\ r # row
      OBVIOUS
    <3>2. At(r) = Symbols[s] /\ At(row) = Symbols[row.sym]
      BY <3>1 DEF At
    <3>3. CASE exact # {}
      <4>1. r \notin exact /\ row \in exact
        BY <2>1, <3>1, <3>3
      <4>2. QED
        BY <2>1, <3>2, <4>1
    <3>4. CASE exact = {}
      <4>1. r \notin tails
        BY <2>1, <3>1, <3>4
      <4>2. ASSUME Aligned(s, f.chain) PROVE FALSE
        <5>1. IsSuffix(f.chain, At(r).chain) /\ ~(Len(At(r).chain) > Len(f.chain))
          BY <2>1, <3>2, <4>1, <4>2 DEF Aligned
        <5>2. Len(At(r).chain) <= Len(f.chain)
          BY <2>2, <5>1
        <5>3. f.chain = At(r).chain
          BY <2>2, <5>1, <5>2, SuffixEqual
        <5>4. QED
          BY <3>4, <5>3
      <4>3. QED
        BY <2>1, <3>2, <4>2
    <3>5. QED
      BY <3>3, <3>4
  <2>5. QED
    BY <1>4, <2>3, <2>4 DEF OnlySpelled
<1>7. QED
  BY <1>4, <1>5, <1>6

---------------------------------------------------------------------------
(* The identity that a line points to.                                     *)

\* Where impls compete it is that of the only row on the line of the frame.
LEMMA HereOnLine ==
    ASSUME NEW here, here # {}, IsFiniteSet(here), None \notin here,
           \A r \in here : r.line \in Nat /\ r.sym \in Nat,
           NEW f, f.line \in Nat, f.qual = None, AnchorHere(here, f).row # None
    PROVE  LET hit == AnchorHere(here, f) IN
           /\ hit.file = f.file /\ hit.row \in here
           /\ hit.why \in {"same", "moved"}
           /\ IF TraitCollision(here) THEN {r \in here : r.line = f.line} = {hit.row}
              ELSE \A r \in here : Away(hit.row, f.line) <= Away(r, f.line)
<1> DEFINE exact == {r \in here : r.line = f.line}
           one == CHOOSE r \in exact : TRUE
           Kept(r) == Hit(IF r.line = f.line THEN "same" ELSE "moved", f.file, r)
<1>1. \A r : Kept(r).file = f.file /\ Kept(r).row = r /\ Kept(r).why \in {"same", "moved"}
  BY DEF Hit
<1>2. CASE TraitCollision(here)
  <2>1. AnchorHere(here, f) = IF Cardinality(exact) = 1 THEN Kept(one)
                              ELSE Hit("explicit_trait_ambiguous", f.file, None)
    BY <1>2 DEF AnchorHere
  <2>2. Hit("explicit_trait_ambiguous", f.file, None).row = None
    BY DEF Hit
  <2> HIDE DEF Kept
  <2>3. Cardinality(exact) = 1 /\ AnchorHere(here, f) = Kept(one)
    BY <2>1, <2>2
  <2>4. PICK r : exact = {r}
    BY <2>3, FS_Subset, OneElement
  <2>5. one = r /\ r \in here
    BY <2>4
  <2>6. QED
    BY <1>1, <1>2, <2>3, <2>4, <2>5
<1>3. CASE ~TraitCollision(here)
  <2>1. AnchorHere(here, f) = Kept(Nearest(here, f.line))
    BY <1>3 DEF AnchorHere
  <2> HIDE DEF Kept
  <2>2. /\ Nearest(here, f.line) \in here
        /\ \A r \in here : Away(Nearest(here, f.line), f.line) <= Away(r, f.line)
    BY NearestInside
  <2>3. QED
    BY <1>1, <1>3, <2>1, <2>2
<1>4. QED
  BY <1>2, <1>3

\* None is nearer to where the search began.
Closest(here, f, why, row) ==
    \A r \in here : Away(row, IF why = "moved-file" THEN 0 ELSE f.line)
                     <= Away(r, IF why = "moved-file" THEN 0 ELSE f.line)

\* The frame has a line, and declares no identity.
LEMMA FrameOnLine ==
    ASSUME NEW rows, IsRows(rows), \A s \in DOMAIN Symbols : s \in Nat,
           NEW f, IsFrame(f), ~Nests(rows, f), f.qual = None, f.line # 0, Frame(rows, f).sym # None
    PROVE  LET got == Frame(rows, f)  here == SameFileRows(rows, got.file) IN
           \E row \in rows : /\ Chosen(rows, f, got, row)
                             /\ IF TraitCollision(here) THEN {r \in here : r.line = f.line} = {row}
                                ELSE Closest(here, f, got.why, row)
<1> DEFINE got == Frame(rows, f)
           hit == Anchor(rows, f)
           here == {r \in rows : r.file \in Ending(f.file) /\ r.line # None}
           files == {r.file : r \in rows}
<1>0. hit = HitOf(rows, f)
  BY DEF HitOf
<1>1. got.file = hit.file /\ hit.row # None /\ got.sym = hit.row.sym /\ got.line = hit.row.line
      /\ hit.why \notin Refusals /\ got.why = hit.why
  BY <1>0, FrameParts, Zenon
<1>2. f.line \in Nat
  BY DEF IsFrame
<1>3. \A file : /\ SameFileRows(rows, file) \subseteq rows /\ IsFiniteSet(SameFileRows(rows, file))
                /\ None \notin SameFileRows(rows, file)
                /\ \A r \in SameFileRows(rows, file) : r.line \in Nat /\ r.sym \in Nat
  <2>1. TAKE file
  <2>2. /\ SameFileRows(rows, file) \subseteq rows /\ IsFiniteSet(SameFileRows(rows, file))
        /\ None \notin SameFileRows(rows, file)
    BY RowParts
  <2>3. ASSUME NEW r \in SameFileRows(rows, file) PROVE r.line \in Nat /\ r.sym \in Nat
    <3>1. r \in rows /\ r.line # None
      BY DEF SameFileRows
    <3>2. r.sym \in DOMAIN Symbols /\ r.line \in Nat
      BY <3>1 DEF IsRows
    <3>3. QED
      BY <3>2
  <2>4. QED
    BY <2>2, <2>3
<1>4. \E file : /\ hit.file = file /\ hit.row \in SameFileRows(rows, file)
                /\ file = f.file \/ \A r \in rows : r.file = file
                /\ IF TraitCollision(SameFileRows(rows, file))
                   THEN {r \in SameFileRows(rows, file) : r.line = f.line} = {hit.row}
                   ELSE Closest(SameFileRows(rows, file), f, hit.why, hit.row)
  <2>1. CASE here # {}
    <3>1. here = SameFileRows(rows, f.file)
      BY <2>1, HereIsItsFile
    <3>2. hit = AnchorHere(here, f)
      BY <2>1 DEF Anchor
    <3> HIDE DEF here, hit
    <3>3. AnchorHere(SameFileRows(rows, f.file), f) = hit /\ SameFileRows(rows, f.file) # {}
      BY <2>1, <3>1, <3>2
    <3>4. /\ hit.file = f.file /\ hit.row \in SameFileRows(rows, f.file)
          /\ hit.why \in {"same", "moved"}
          /\ IF TraitCollision(SameFileRows(rows, f.file))
             THEN {r \in SameFileRows(rows, f.file) : r.line = f.line} = {hit.row}
             ELSE \A r \in SameFileRows(rows, f.file) : Away(hit.row, f.line) <= Away(r, f.line)
      BY <1>1, <1>2, <1>3, <3>3, HereOnLine
    <3>5. hit.why # "moved-file"
      BY <3>4
    <3>6. QED
      BY <3>4, <3>5 DEF Closest
  <2>2. CASE here = {}
    <3>1. hit.row = None \/ (Cardinality(files) = 1 /\ hit = AnchorThere(rows, CHOOSE x \in files : TRUE, f))
      <4>1. hit = CASE f.qual = None /\ ~(f.missing /\ f.long) -> Hit("not-in-graph", f.file, None)
                    [] OTHER ->
                       CASE Cardinality(files) = 1 -> AnchorThere(rows, CHOOSE x \in files : TRUE, f)
                         [] Cardinality(files) > 1 -> Hit("moved-file-ambiguous", f.file, None)
                         [] files = {} -> Hit(IF f.qual = None THEN "not-in-graph" ELSE "qualifier_no_hit",
                                              f.file, None)
        BY <1>0, <2>2 DEF Anchor
      <4>2. Cardinality(files) \in Nat /\ (Cardinality(files) = 0 <=> files = {})
        BY FilesFinite, FS_CardinalityType, FS_EmptySet
      <4>3. \A why : Hit(why, f.file, None).row = None
        BY DEF Hit
      <4> HIDE DEF files, hit
      <4>4. Cardinality(files) = 1 \/ Cardinality(files) > 1 \/ files = {}
        BY <4>2
      <4>5. CASE f.qual = None /\ ~(f.missing /\ f.long)
        BY <4>1, <4>3, <4>5
      <4>6. CASE ~(f.qual = None /\ ~(f.missing /\ f.long))
        <5>1. hit = CASE Cardinality(files) = 1 -> AnchorThere(rows, CHOOSE x \in files : TRUE, f)
                      [] Cardinality(files) > 1 -> Hit("moved-file-ambiguous", f.file, None)
                      [] files = {} -> Hit(IF f.qual = None THEN "not-in-graph" ELSE "qualifier_no_hit",
                                           f.file, None)
          BY <4>1, <4>6
        <5>2. CASE Cardinality(files) = 1
          BY <5>1, <5>2, <4>2
        <5>3. CASE Cardinality(files) > 1
          <6>1. hit = Hit("moved-file-ambiguous", f.file, None)
            BY <5>1, <5>3, <4>2
          <6>2. QED
            BY <4>3, <6>1
        <5>4. CASE files = {}
          <6>1. hit = Hit(IF f.qual = None THEN "not-in-graph" ELSE "qualifier_no_hit", f.file, None)
            BY <5>1, <5>4, <4>2
          <6>2. QED
            BY <4>3, <6>1
        <5>5. QED
          BY <4>4, <5>2, <5>3, <5>4
      <4>7. QED
        BY <4>5, <4>6
    <3>2. PICK file : files = {file} /\ \A r \in rows : r.file = file
      BY <1>1, <3>1, OnlyFile
    <3> DEFINE there == SameFileRows(rows, file)
    <3>3. hit = AnchorThere(rows, file, f)
      <4> HIDE DEF files, hit
      <4>1. QED
        BY <1>1, <3>1, <3>2
    <3>4. ~TraitCollision(there)
      <4>1. ASSUME TraitCollision(there) PROVE hit = Hit("cross_file_trait_ambiguous", file, None)
        BY <3>3, <4>1 DEF AnchorThere
      <4>2. QED
        BY <1>1, <4>1 DEF Hit
    <3>5. hit = Hit("moved-file", file, IF there = {} THEN None ELSE Nearest(there, 0))
      BY <3>3, <3>4 DEF AnchorThere
    <3>6. there # {} /\ hit.row = Nearest(there, 0) /\ hit.file = file /\ hit.why = "moved-file"
      BY <1>1, <3>5 DEF Hit
    <3>7. Nearest(there, 0) \in there /\ \A r \in there : Away(Nearest(there, 0), 0) <= Away(r, 0)
      <4> HIDE DEF there
      <4>1. \A r \in there : r.line \in Nat /\ r.sym \in Nat
        BY <1>3 DEF there
      <4>2. QED
        BY <4>1, <3>6, NearestInside
    <3>8. Closest(there, f, hit.why, hit.row)
      BY <3>6, <3>7 DEF Closest
    <3>9. QED
      BY <3>2, <3>4, <3>6, <3>7, <3>8
  <2>3. QED
    BY <2>1, <2>2
<1>5. PICK file : /\ hit.file = file /\ hit.row \in SameFileRows(rows, file)
                  /\ file = f.file \/ \A r \in rows : r.file = file
                  /\ IF TraitCollision(SameFileRows(rows, file))
                     THEN {r \in SameFileRows(rows, file) : r.line = f.line} = {hit.row}
                     ELSE Closest(SameFileRows(rows, file), f, hit.why, hit.row)
  BY <1>4
<1>6. hit.row \in rows
  BY <1>3, <1>5
<1>7. QED
  BY <1>1, <1>5, <1>6 DEF Chosen

---------------------------------------------------------------------------
(* What the anchoring of a frame promises.                                 *)

\* Where the one declared is found, the frame carries it.
LEMMA DeclaredCarries ==
    ASSUME NEW rows, NEW f, f.qual # None, ~Nests(rows, f), f.line = 0 => f.nonblank,
           NEW file, Place(rows, f, file),
           QualifiedSelect(SameFileRows(rows, file), f.qual).row # None
    PROVE  Frame(rows, f).sym = QualifiedSelect(SameFileRows(rows, file), f.qual).row.sym
<1> DEFINE row == QualifiedSelect(SameFileRows(rows, file), f.qual).row
           hit == HitOf(rows, f)
           here == {r \in rows : r.file \in Ending(f.file) /\ r.line # None}
           files == {r.file : r \in rows}
<1>1. hit.row = row /\ hit.why \in {"filled", "same", "moved", "moved-file"}
  <2>1. CASE f.line = 0
    BY <2>1 DEF HitOf, FillAnchor, Hit, Place
  <2>2. CASE f.line # 0 /\ here # {}
    <3>1. here = SameFileRows(rows, f.file) /\ file = f.file
      BY <2>2, HereIsItsFile DEF Place
    <3>2. Anchor(rows, f) = AnchorHere(here, f)
      BY <2>2 DEF Anchor
    <3>3. hit = AnchorHere(SameFileRows(rows, file), f)
      BY <2>2, <3>1, <3>2 DEF HitOf
    <3>4. QED
      BY <3>3 DEF AnchorHere, Hit
  <2>3. CASE f.line # 0 /\ here = {}
    <3>1. files = {file}
      BY <2>3 DEF Place
    <3>2. Cardinality({file}) = 1 /\ (CHOOSE x \in {file} : TRUE) = file
      BY FS_Singleton
    <3>3. hit = CASE Cardinality(files) = 1 -> AnchorThere(rows, CHOOSE x \in files : TRUE, f)
                  [] Cardinality(files) > 1 -> Hit("moved-file-ambiguous", f.file, None)
                  [] files = {} -> Hit(IF f.qual = None THEN "not-in-graph" ELSE "qualifier_no_hit",
                                       f.file, None)
      BY <2>3 DEF HitOf, Anchor
    <3>4. hit = AnchorThere(rows, file, f)
      <4> HIDE DEF files, hit
      <4>1. QED
        BY <3>1, <3>2, <3>3
    <3>5. QED
      BY <3>4 DEF AnchorThere, Hit
  <2>4. QED
    BY <2>1, <2>2, <2>3
<1>2. hit.why \notin Refusals
  BY <1>1 DEF Refusals
<1>3. Frame(rows, f).sym = hit.row.sym
  BY <1>1, <1>2, FrameParts
<1>4. QED
  BY <1>1, <1>3

\* A drift leaves the place where it is.
LEMMA DriftKeepsPlace ==
    ASSUME NEW rows, IsRows(rows), NEW to \in [DOMAIN Symbols -> Nat], None \notin Moved(rows, to),
           NEW f, NEW file, Place(rows, f, file), ~Nests(rows, f)
    PROVE  Place(Moved(rows, to), f, file) /\ ~Nests(Moved(rows, to), f)
<1> DEFINE Move(r) == MovedTo(r, to)
           here == {r \in rows : r.file \in Ending(f.file) /\ r.line # None}
           there == {r \in Moved(rows, to) : r.file \in Ending(f.file) /\ r.line # None}
<1>1. ASSUME NEW r \in rows
      PROVE  /\ Move(r) \in Moved(rows, to) /\ Move(r).sym = r.sym /\ Move(r).file = r.file
             /\ (Move(r).line = None <=> r.line = None)
  <2> HIDE DEF here, there
  <2>1. QED
    BY MovedRow
<1>2. \A m \in Moved(rows, to) : \E r \in rows : m = Move(r)
  BY DEF Moved, MovedTo
<1> HIDE DEF Move
<1>3. {m.file : m \in Moved(rows, to)} = {r.file : r \in rows}
  BY <1>1, <1>2
<1>4. here = {} <=> there = {}
  <2>1. \A r \in here : Move(r) \in there
    BY <1>1
  <2>2. \A m \in there : \E r \in here : m = Move(r)
    BY <1>1, <1>2
  <2>3. QED
    BY <2>1, <2>2
<1>5. ~Nests(Moved(rows, to), f)
  BY <1>1, <1>2 DEF Nests
<1>6. QED
  BY <1>3, <1>4, <1>5 DEF Place

\* An identity that the frame declares is the only one of the file that can
\* be it, and stays it wherever the lines drift.
LEMMA DeclaredProven ==
    ASSUME NEW rows, IsRows(rows), \A x \in DOMAIN Symbols : IsSymbol(Symbols[x]),
           NEW f, IsFrame(f), ~Nests(rows, f), f.qual # None,
           NEW drifts, drifts \subseteq [DOMAIN Symbols -> Nat],
           \A to \in drifts : None \notin Moved(rows, to),
           NEW row \in rows, Chosen(rows, f, Frame(rows, f), row),
           Place(rows, f, Frame(rows, f).file), f.line = 0 => f.nonblank,
           Declared(SameFileRows(rows, Frame(rows, f).file), f.qual) = {row},
           ~Shadowed(SameFileRows(rows, Frame(rows, f).file), f.qual)
    PROVE  OnlyDeclared(rows, f, row,
                        {r.sym : r \in SameFileRows(rows, Frame(rows, f).file)} \ {row.sym}, drifts)
<1> DEFINE file == Frame(rows, f).file
           here == SameFileRows(rows, file)
<1>1. At(row).head = "impl" /\ At(row).recv = f.qual.recv /\ f.qual.trait \in At(row).traits
  BY DEF Declared
<1>2. CouldBe(row.sym, f.qual) /\ Symbols[row.sym].head = "impl"
  BY <1>1 DEF CouldBe, At
<1>3. ASSUME NEW r \in here, r # row PROVE ~CouldBe(r.sym, f.qual)
  <2>1. SUFFICES ASSUME CouldBe(r.sym, f.qual) PROVE FALSE
    OBVIOUS
  <2>2. /\ At(r).head # "none" /\ At(r).recv \in {f.qual.recv, None}
        /\ At(r).head = "impl" => f.qual.trait \in At(r).traits
    BY <2>1 DEF CouldBe, At
  <2>3. IsSymbol(At(r))
    BY DEF IsRows, SameFileRows, At
  <2>4. At(r).head = "impl" \/ At(r).head = "malformed"
    BY <2>2, <2>3 DEF IsSymbol
  <2>5. CASE At(r).head = "impl"
    <3>1. r \in Declared(here, f.qual)
      BY <2>2, <2>3, <2>5 DEF Declared, IsSymbol
    <3>2. QED
      BY <1>3, <3>1
  <2>6. CASE At(r).head = "malformed"
    BY <2>2, <2>6 DEF Shadowed
  <2>7. QED
    BY <2>4, <2>5, <2>6
<1>4. ASSUME NEW to \in drifts PROVE Frame(Moved(rows, to), f).sym = row.sym
  <2>1. to \in [DOMAIN Symbols -> Nat] /\ None \notin Moved(rows, to)
    OBVIOUS
  <2>2. Place(Moved(rows, to), f, file) /\ ~Nests(Moved(rows, to), f)
    BY <2>1, DriftKeepsPlace
  <2> DEFINE select == QualifiedSelect(SameFileRows(Moved(rows, to), file), f.qual)
  <2>3. select.row # None /\ select.row.sym = row.sym
    BY <2>1, DriftKeepsSelection
  <2> HIDE DEF file
  <2>4. QED
    BY <2>2, <2>3, DeclaredCarries
<1>5. QED
  BY <1>2, <1>3, <1>4 DEF OnlyDeclared

\* A graph has one row of a symbol.
LEMMA RowOfSymbol ==
    ASSUME NEW rows, IsRows(rows), NEW row \in rows
    PROVE  (CHOOSE r \in rows : r.sym = row.sym) = row
  BY DEF IsRows

\* Whatever the rows, the frame and the drifts: an identity rests on what the
\* frame gives.
THEOREM EveryFrameGrounded ==
    ASSUME NEW rows, IsRows(rows), \A s \in DOMAIN Symbols : s \in Nat /\ IsSymbol(Symbols[s]),
           NEW f, IsFrame(f), NEW drifts, drifts \subseteq [DOMAIN Symbols -> Nat],
           \A to \in drifts : None \notin Moved(rows, to)
    PROVE  FrameGrounded(rows, f, drifts)
<1> DEFINE got == Frame(rows, f)
           here == SameFileRows(rows, got.file)
           rest == {r.sym : r \in here} \ {got.sym}
<1>1. SUFFICES ASSUME ~Nests(rows, f), got.sym # None
               PROVE  Grounded(rows, f, got, CHOOSE r \in rows : r.sym = got.sym, rest, drifts)
  BY DEF FrameGrounded, SameFileRows
<1>2. ASSUME NEW row \in rows, Chosen(rows, f, got, row)
      PROVE  /\ (CHOOSE r \in rows : r.sym = got.sym) = row /\ OfItsFile(rows, f, got, row)
             /\ row \in here /\ rest = {r.sym : r \in here} \ {row.sym}
  BY <1>2, RowOfSymbol DEF Chosen, OfItsFile, SameFileRows
<1>3. CASE f.qual # None
  <2>1. PICK row \in rows : /\ Chosen(rows, f, got, row)
                            /\ Place(rows, f, got.file) /\ (f.line = 0 => f.nonblank)
                            /\ Declared(here, f.qual) = {row} /\ ~Shadowed(here, f.qual)
    BY <1>1, <1>3, FrameDeclared
  <2>2. OnlyDeclared(rows, f, row, {r.sym : r \in here} \ {row.sym}, drifts)
    BY <1>1, <1>3, <2>1, DeclaredProven
  <2>3. QED
    BY <1>2, <1>3, <2>1, <2>2 DEF Grounded
<1>4. CASE f.qual = None /\ f.line = 0
  <2>1. PICK row \in rows : /\ got.file = f.file /\ Chosen(rows, f, got, row)
                            /\ ResolveCandidates(here, f.chain, f.whole).row = row
    BY <1>1, <1>4, FrameNamed
  <2>2. IsRows(here)
    BY RowParts DEF IsRows
  <2>3. ASSUME NEW s \in rest PROVE OnlySpelled(f, row, {r.sym : r \in here} \ {row.sym})
    <3>1. PICK other \in here : other.sym # row.sym
      BY <1>2, <2>1, <2>3
    <3>2. row \in here
      BY <1>2, <2>1
    <3>3. QED
      BY <2>1, <2>2, <3>1, <3>2, SpelledAlone
  <2>4. QED
    BY <1>2, <1>4, <2>1, <2>3 DEF Grounded
<1>5. CASE f.qual = None /\ f.line # 0
  <2>1. PICK row \in rows : /\ Chosen(rows, f, got, row)
                            /\ IF TraitCollision(here) THEN {r \in here : r.line = f.line} = {row}
                               ELSE Closest(here, f, got.why, row)
    BY <1>1, <1>5, FrameOnLine
  <2>2. ASSUME NEW s \in rest \cup {row.sym}, NEW t \in rest \cup {row.sym}, Rivals(s, t)
        PROVE  OnlyOnLine(rows, f, got, row)
    <3>1. PICK a \in here, b \in here : s = a.sym /\ t = b.sym
      BY <1>2, <2>1
    <3>2. TraitCollision(here)
      BY <2>2, <3>1 DEF Rivals, TraitCollision, At
    <3>3. {r \in here : r.line = f.line} = {row}
      BY <2>1, <3>2
    <3>4. f.line # None
      BY NoneAssumption DEF IsFrame
    <3>5. ASSUME NEW r \in rows, r.file = got.file, r.line = f.line PROVE r = row
      BY <3>3, <3>4, <3>5 DEF SameFileRows
    <3>6. QED
      BY <3>3, <3>5 DEF OnlyOnLine
  <2>3. ASSUME ~\E s, t \in rest \cup {row.sym} : Rivals(s, t) PROVE NearestOfName(rows, f, got, row)
    <3>1. ~TraitCollision(here)
      <4>1. ASSUME NEW a \in here, NEW b \in here PROVE ~Rivals(a.sym, b.sym)
        <5>1. a.sym \in rest \cup {row.sym} /\ b.sym \in rest \cup {row.sym}
          BY <1>2, <2>1
        <5>2. QED
          BY <2>3, <5>1
      <4>2. QED
        BY <4>1 DEF Rivals, TraitCollision, At
    <3>2. Closest(here, f, got.why, row)
      BY <2>1, <3>1
    <3>3. \A r \in rows : (r.file = got.file /\ r.line # None) => r \in here
      BY DEF SameFileRows
    <3>4. QED
      BY <3>2, <3>3 DEF Closest, NearestOfName
  <2>4. QED
    BY <1>2, <1>5, <2>1, <2>2, <2>3 DEF Grounded
<1>6. QED
  BY <1>3, <1>4, <1>5

---------------------------------------------------------------------------
(* How a spelled path gets its file.                                       *)

\* Of finitely many things one has the most of a number.
LEMMA MostOf ==
    ASSUME NEW pool, IsFiniteSet(pool), pool # {}, NEW many \in [pool -> Nat]
    PROVE  \E x \in pool : \A y \in pool : many[x] >= many[y]
<1> DEFINE Most(U) == \E x \in U : \A y \in U : many[x] >= many[y]
           all == {n \in Nat : \A U \in SUBSET pool : Cardinality(U) = n + 1 => Most(U)}
<1>1. 0 \in all
  <2>1. ASSUME NEW U \in SUBSET pool, Cardinality(U) = 0 + 1 PROVE Most(U)
    <3>0. IsFiniteSet(U) /\ Cardinality(U) = 1
      BY <2>1, FS_Subset
    <3>1. PICK x : U = {x}
      BY <3>0, OneElement
    <3>2. many[x] \in Nat
      BY <3>1
    <3>3. QED
      BY <3>1, <3>2
  <2>2. QED
    BY <2>1
<1>2. ASSUME NEW n \in Nat, n \in all PROVE n + 1 \in all
  <2>1. ASSUME NEW U \in SUBSET pool, Cardinality(U) = (n + 1) + 1 PROVE Most(U)
    <3>1. IsFiniteSet(U) /\ U # {}
      BY <2>1, FS_Subset, FS_EmptySet
    <3>2. PICK e \in U : TRUE
      BY <3>1
    <3>3. Cardinality(U \ {e}) = n + 1
      <4>1. Cardinality(U \ {e}) = Cardinality(U) - 1
        BY <3>1, <3>2, FS_RemoveElement
      <4>2. QED
        BY <2>1, <4>1
    <3>4. PICK x \in U \ {e} : \A y \in U \ {e} : many[x] >= many[y]
      BY <1>2, <3>3
    <3>5. \A y \in U : many[y] \in Nat
      OBVIOUS
    <3>6. CASE many[x] >= many[e]
      BY <3>4, <3>6
    <3>7. CASE ~(many[x] >= many[e])
      <4>1. \A y \in U : many[e] >= many[y]
        BY <3>2, <3>4, <3>5, <3>7
      <4>2. QED
        BY <3>2, <4>1
    <3>8. QED
      BY <3>6, <3>7
  <2> HIDE DEF Most
  <2>2. QED
    BY <2>1
<1> HIDE DEF all
<1>3. Nat \subseteq all
  BY <1>1, <1>2, EveryNumber
<1>4. Cardinality(pool) \in Nat \ {0}
  BY FS_CardinalityType, FS_EmptySet
<1>5. Cardinality(pool) - 1 \in all /\ (Cardinality(pool) - 1) + 1 = Cardinality(pool)
  BY <1>3, <1>4
<1>6. QED
  BY <1>5 DEF all

\* A context counts the frames resolved into each directory.
IsContext(ctx) == ctx \in [DOMAIN ctx -> Nat]
NoContext == [d \in {} |-> 0]

\* So there are best ones, and of them one is first in any order.
LEMMA CountIsNat ==
    ASSUME NEW ctx, IsContext(ctx), NEW p
    PROVE  Count(ctx, p) \in Nat
  BY DEF IsContext, Count

LEMMA BestThereIs ==
    ASSUME NEW ctx, IsContext(ctx), NEW pool, IsFiniteSet(pool), pool # {}
    PROVE  Best(ctx, pool) # {} /\ Best(ctx, pool) \subseteq pool
<1> DEFINE many == [p \in pool |-> Count(ctx, p)]
<1>1. many \in [pool -> Nat]
  BY CountIsNat
<1> HIDE DEF many
<1>2. PICK x \in pool : \A y \in pool : many[x] >= many[y]
  BY <1>1, MostOf
<1>3. \A y \in pool : many[y] = Count(ctx, y)
  BY DEF many
<1>4. QED
  BY <1>2, <1>3 DEF Best

LEMMA FirstOf ==
    ASSUME NEW best, best # {}, NEW order, \A p \in best : order[p] \in Nat
    PROVE  (CHOOSE p \in best : \A q \in best : order[p] <= order[q]) \in best
<1> DEFINE rank == [p \in best |-> order[p]]
<1>1. rank \in [best -> Nat]
  OBVIOUS
<1>2. \A p \in best : rank[p] = order[p]
  OBVIOUS
<1> HIDE DEF rank
<1>3. \E p \in best : \A q \in best : rank[p] <= rank[q]
  BY <1>1, LeastOf
<1>4. \E p \in best : \A q \in best : order[p] <= order[q]
  BY <1>2, <1>3
<1>5. QED
  BY <1>4

\* What a pool is made of: files of the spelled name, and if one of them ends
\* as spelled, only such ones.
LEMMA PoolMeans ==
    ASSUME NEW files, files \subseteq Seq(Identifiers), <<>> \notin files, IsFiniteSet(files),
           NEW path \in Seq(Identifiers), path # <<>>
    PROVE  /\ Pool(files, path) \subseteq files /\ IsFiniteSet(Pool(files, path))
           /\ \A p \in Pool(files, path) : NameOf(p) = NameOf(path)
           /\ (\E q \in files : IsSuffix(path, q)) => \A p \in Pool(files, path) : IsSuffix(path, p)
<1> DEFINE ends == {p \in files : IsSuffix(path, p)}
<1>1. \A p \in files : IsSuffix(path, p) => NameOf(p) = NameOf(path)
  <2>1. TAKE p \in files
  <2>2. HAVE IsSuffix(path, p)
  <2>3. Len(path) \in Nat /\ Len(path) # 0
    OBVIOUS
  <2>4. path[Len(path) - 1 + 1] = p[Len(p) - 1 + 1]
    BY <2>2, <2>3, SuffixMeans
  <2>5. QED
    BY <2>4 DEF NameOf
<1>2. Pool(files, path) = IF ends = {} THEN {p \in files : NameOf(p) = NameOf(path)} ELSE ends
  BY DEF Pool
<1>3. Pool(files, path) \subseteq files
  BY <1>2
<1>4. QED
  BY <1>1, <1>2, <1>3, FS_Subset

\* The files among which a module, or the repository, is searched for a path.
ModuleFiles(t) == {p \in t.files : Under(p, Range(t.roots)) /\ ~Under(p, t.excluded)}
RepoFiles(t) == {p \in t.files : ~Under(p, t.hidden) /\ ~Under(p, t.excluded)}

\* What a pool answers: nothing, its only file, or else one that the context
\* has counted, or that it is ambiguous.
Answers(r, ctx, pool, alone, counted) ==
    \/ pool = {} /\ r = Unfound(ctx, "none")
    \/ \E x : pool = {x} /\ r = Found(ctx, x, alone)
    \/ \E x \in pool : Cardinality(pool) > 1 /\ Count(ctx, x) > 0 /\ r = Found(ctx, x, counted)
    \/ Cardinality(pool) > 1 /\ r = Unfound(ctx, "ambiguous")

LEMMA PoolFinite ==
    ASSUME NEW t, IsTree(t), NEW path \in Seq(Identifiers), path # <<>>, NEW files, files \subseteq t.files
    PROVE  LET pool == Pool(files, path) IN
           /\ pool \subseteq files /\ pool \subseteq t.files /\ IsFiniteSet(pool)
           /\ \A p \in pool : NameOf(p) = NameOf(path)
           /\ (\E q \in files : IsSuffix(path, q)) => \A p \in pool : IsSuffix(path, p)
           /\ Cardinality(pool) \in Nat /\ (Cardinality(pool) = 0 <=> pool = {})
           /\ Cardinality(pool) = 1 => \E x : pool = {x}
<1>1. files \subseteq Seq(Identifiers) /\ <<>> \notin files /\ IsFiniteSet(files)
  BY FS_Subset DEF IsTree
<1>2. Pool(files, path) \subseteq files /\ IsFiniteSet(Pool(files, path))
  BY <1>1, PoolMeans
<1>3. QED
  BY <1>1, <1>2, PoolMeans, FS_CardinalityType, FS_EmptySet, OneElement

LEMMA ModuleAnswers ==
    ASSUME NEW t, IsTree(t), NEW path \in Seq(Identifiers), path # <<>>, NEW ctx, IsContext(ctx)
    PROVE  Answers(ModulePool(t, ctx, path), ctx, Pool(ModuleFiles(t), path), "suffix", "ctx")
<1> DEFINE pool == Pool(ModuleFiles(t), path)
           best == Best(ctx, pool)
           pick == CHOOSE p \in best : \A q \in best : t.order[p] <= t.order[q]
<1>1. ModulePool(t, ctx, path) =
        CASE pool = {}              -> Unfound(ctx, "none")
          [] Cardinality(pool) = 1  -> Found(ctx, CHOOSE p \in pool : TRUE, "suffix")
          [] Cardinality(pool) > 1 /\ Count(ctx, pick) > 0  -> Found(ctx, pick, "ctx")
          [] Cardinality(pool) > 1 /\ Count(ctx, pick) <= 0 -> Unfound(ctx, "ambiguous")
  BY DEF ModulePool, ModuleFiles
<1>2. ModuleFiles(t) \subseteq t.files
  BY DEF ModuleFiles
<1>3. /\ pool \subseteq t.files /\ IsFiniteSet(pool) /\ Cardinality(pool) \in Nat
      /\ Cardinality(pool) = 0 <=> pool = {}
      /\ Cardinality(pool) = 1 => \E x : pool = {x}
  BY <1>2, PoolFinite
<1>4. Count(ctx, pick) \in Nat
  BY CountIsNat
<1>5. pool # {} => pick \in pool
  <2>1. ASSUME pool # {} PROVE pick \in pool
    <3> HIDE DEF pool
    <3>1. best # {} /\ best \subseteq pool
      BY <1>3, <2>1, BestThereIs
    <3>2. \A p \in best : t.order[p] \in Nat
      BY <1>3, <3>1 DEF IsTree
    <3> HIDE DEF best
    <3>3. QED
      BY <3>1, <3>2, FirstOf
  <2>2. QED
    BY <2>1
<1> HIDE DEF pool, pick
<1>6. CASE pool = {}
  <2>1. ~(Cardinality(pool) = 1) /\ ~(Cardinality(pool) > 1)
    BY <1>3, <1>6
  <2>2. ModulePool(t, ctx, path) = Unfound(ctx, "none")
    BY <1>1, <1>6, <2>1, Zenon
  <2>3. QED
    BY <1>6, <2>2 DEF Answers, pool
<1>7. CASE Cardinality(pool) = 1
  <2>1. PICK x : pool = {x}
    BY <1>3, <1>7
  <2>2. (CHOOSE p \in {x} : TRUE) = x
    OBVIOUS
  <2>3. ModulePool(t, ctx, path) = Found(ctx, x, "suffix")
    BY <1>1, <1>3, <1>7, <2>1, <2>2
  <2>4. QED
    BY <2>1, <2>3 DEF Answers, pool
<1>8. CASE Cardinality(pool) > 1
  <2>0. pool # {} /\ Cardinality(pool) # 1
    BY <1>3, <1>8
  <2>1. CASE Count(ctx, pick) > 0
    <3>0. ~(Count(ctx, pick) <= 0)
      BY <1>4, <2>1
    <3>1. ModulePool(t, ctx, path) = Found(ctx, pick, "ctx") /\ pick \in pool
      BY <1>1, <1>5, <1>8, <2>0, <2>1, <3>0, Zenon
    <3>2. QED
      BY <1>8, <2>1, <3>1 DEF Answers, pool
  <2>2. CASE Count(ctx, pick) <= 0
    <3>0. ~(Count(ctx, pick) > 0)
      BY <1>4, <2>2
    <3>1. ModulePool(t, ctx, path) = Unfound(ctx, "ambiguous")
      BY <1>1, <1>8, <2>0, <2>2, <3>0, Zenon
    <3>2. QED
      BY <1>8, <3>1 DEF Answers, pool
  <2>3. QED
    BY <1>4, <2>1, <2>2
<1>9. QED
  BY <1>3, <1>6, <1>7, <1>8

LEMMA RepoAnswers ==
    ASSUME NEW t, IsTree(t), NEW path \in Seq(Identifiers), path # <<>>, NEW ctx, IsContext(ctx)
    PROVE  IF t.incomplete THEN RepoPool(t, ctx, path) = Unfound(ctx, "ambiguous")
           ELSE Answers(RepoPool(t, ctx, path), ctx, Pool(RepoFiles(t), path), "repo-suffix", "repo-suffix")
<1> DEFINE pool == Pool(RepoFiles(t), path)
           best == Best(ctx, pool)
           pick == CHOOSE p \in best : TRUE
<1>1. RepoPool(t, ctx, path) =
        CASE t.incomplete                              -> Unfound(ctx, "ambiguous")
          [] ~t.incomplete /\ pool = {}                -> Unfound(ctx, "none")
          [] ~t.incomplete /\ Cardinality(pool) = 1    -> Found(ctx, pick, "repo-suffix")
          [] ~t.incomplete /\ Cardinality(pool) > 1    ->
               IF Cardinality(best) = 1 /\ Count(ctx, pick) > 0 THEN Found(ctx, pick, "repo-suffix")
               ELSE Unfound(ctx, "ambiguous")
  BY DEF RepoPool, RepoFiles
<1>2. RepoFiles(t) \subseteq t.files
  BY DEF RepoFiles
<1>3. /\ IsFiniteSet(pool) /\ Cardinality(pool) \in Nat
      /\ Cardinality(pool) = 0 <=> pool = {}
      /\ Cardinality(pool) = 1 => \E x : pool = {x}
  BY <1>2, PoolFinite
<1>4. pool # {} => pick \in pool
  <2>1. ASSUME pool # {} PROVE pick \in pool
    <3> HIDE DEF pool
    <3>1. best # {} /\ best \subseteq pool
      BY <1>3, <2>1, BestThereIs
    <3> HIDE DEF best
    <3>2. QED
      BY <3>1
  <2>2. QED
    BY <2>1
<1> HIDE DEF pool, pick, best
<1>5. CASE t.incomplete
  BY <1>1, <1>5
<1>6. CASE ~t.incomplete /\ pool = {}
  <2>0. ~(Cardinality(pool) = 1) /\ ~(Cardinality(pool) > 1)
    BY <1>3, <1>6
  <2>1. RepoPool(t, ctx, path) = Unfound(ctx, "none")
    BY <1>1, <1>6, <2>0, Zenon
  <2>2. QED
    BY <1>6, <2>1 DEF Answers, pool
<1>7. CASE ~t.incomplete /\ Cardinality(pool) = 1
  <2>1. PICK x : pool = {x}
    BY <1>3, <1>7
  <2>2. RepoPool(t, ctx, path) = Found(ctx, x, "repo-suffix")
    BY <1>1, <1>3, <1>4, <1>7, <2>1
  <2>3. QED
    BY <1>7, <2>1, <2>2 DEF Answers, pool
<1>8. CASE ~t.incomplete /\ Cardinality(pool) > 1
  <2>0. pool # {} /\ Cardinality(pool) # 1
    BY <1>3, <1>8
  <2>1. CASE Cardinality(best) = 1 /\ Count(ctx, pick) > 0
    <3>1. RepoPool(t, ctx, path) = Found(ctx, pick, "repo-suffix") /\ pick \in pool
      BY <1>1, <1>4, <1>8, <2>0, <2>1, Zenon
    <3>2. QED
      BY <1>8, <2>1, <3>1 DEF Answers, pool
  <2>2. CASE ~(Cardinality(best) = 1 /\ Count(ctx, pick) > 0)
    <3>1. RepoPool(t, ctx, path) = Unfound(ctx, "ambiguous")
      BY <1>1, <1>8, <2>0, <2>2, Zenon
    <3>2. QED
      BY <1>8, <3>1 DEF Answers, pool
  <2>3. QED
    BY <2>1, <2>2
<1>9. QED
  BY <1>3, <1>5, <1>6, <1>7, <1>8

\* A path is resolved directly, or from one of the two pools, or not at all.
ByRoot(t, path) == {i \in DOMAIN t.roots : t.roots[i] \o path \in t.files}
FirstRoot(t, path) == t.roots[Min(ByRoot(t, path))] \o path

LEMMA RootFirst ==
    ASSUME NEW t, IsTree(t), NEW path \in Seq(Identifiers), path # <<>>, ByRoot(t, path) # {}
    PROVE  FirstRoot(t, path) \in t.files /\ NameOf(FirstRoot(t, path)) = NameOf(path)
<1>1. t.roots \in Seq(Seq(Identifiers)) /\ ByRoot(t, path) \subseteq Nat
  BY DEF IsTree, ByRoot
<1>2. \E x \in ByRoot(t, path) : \A y \in ByRoot(t, path) : x <= y
  BY <1>1, LeastNumber
<1>3. Min(ByRoot(t, path)) \in ByRoot(t, path)
  BY <1>2 DEF Min
<1>4. PICK root \in Seq(Identifiers) : FirstRoot(t, path) = root \o path
  <2>1. Min(ByRoot(t, path)) \in DOMAIN t.roots
    BY <1>3 DEF ByRoot
  <2>2. t.roots[Min(ByRoot(t, path))] \in Seq(Identifiers)
    BY <1>1, <2>1
  <2>3. QED
    BY <2>2 DEF FirstRoot
<1>5. NameOf(root \o path) = NameOf(path)
  <2>1. Len(root \o path) = Len(root) + Len(path) /\ Len(path) \in Nat \ {0} /\ Len(root) \in Nat
    OBVIOUS
  <2>2. (root \o path)[Len(root) + Len(path)] = path[Len(path)]
    BY <2>1
  <2>3. QED
    BY <2>1, <2>2 DEF NameOf
<1>6. QED
  BY <1>3, <1>4, <1>5 DEF FirstRoot, ByRoot

LEMMA ResolveWays ==
    ASSUME NEW t, NEW path, NEW ctx
    PROVE  LET direct == ByRoot(t, path)  pooled == ModulePool(t, ctx, path) IN
           /\ direct # {} => Resolve(t, ctx, path) = Found(ctx, FirstRoot(t, path), "direct")
           /\ direct = {} /\ Under(path, t.excluded) => Resolve(t, ctx, path) = Unfound(ctx, "none")
           /\ direct = {} /\ ~Under(path, t.excluded) /\ path \in t.files =>
                Resolve(t, ctx, path) = Found(ctx, path, "repo-direct")
           /\ direct = {} /\ ~Under(path, t.excluded) /\ path \notin t.files =>
                Resolve(t, ctx, path) = IF pooled.kind # "none" THEN pooled ELSE RepoPool(t, ctx, path)
<1> DEFINE direct == ByRoot(t, path)  pooled == ModulePool(t, ctx, path)
<1>1. Resolve(t, ctx, path) =
        CASE direct # {} -> Found(ctx, FirstRoot(t, path), "direct")
          [] direct = {} /\ Under(path, t.excluded) -> Unfound(ctx, "none")
          [] direct = {} /\ ~Under(path, t.excluded) /\ path \in t.files -> Found(ctx, path, "repo-direct")
          [] OTHER -> IF pooled.kind # "none" THEN pooled ELSE RepoPool(t, ctx, path)
  BY DEF Resolve, ByRoot, FirstRoot
<1> HIDE DEF direct, pooled
<1>2. QED
  BY <1>1 DEF direct, pooled

\* The way, the file and the kind of what is not ambiguous without a context
\* are the same with any.
LEMMA NoneCounted ==
    IsContext(NoContext) /\ \A p : Count(NoContext, p) = 0
  BY DEF IsContext, NoContext, Count

LEMMA HitParts ==
    ASSUME NEW ctx, NEW p, NEW kind
    PROVE  /\ Found(ctx, p, kind).file = p /\ Found(ctx, p, kind).kind = kind
           /\ Unfound(ctx, kind).file = None /\ Unfound(ctx, kind).kind = kind
  BY DEF Found, Unfound

\* Of a pool, the answer without a context is that with any, or ambiguous.
LEMMA PoolAlone ==
    ASSUME NEW pool, NEW ctx, NEW got, NEW single, NEW counted, NEW alone,
           single # "none", counted # "none",
           IsFiniteSet(pool), Answers(got, ctx, pool, single, counted),
           Answers(alone, NoContext, pool, single, counted)
    PROVE  /\ alone.kind # "ambiguous" => got.file = alone.file /\ got.kind = alone.kind
           /\ alone.kind = "none" <=> got.kind = "none"
           /\ alone.kind = "ambiguous" /\ got.file # None /\ single # "ambiguous" =>
                got.file \in pool /\ Count(ctx, got.file) > 0 /\ got.kind = counted
<1>1. Cardinality(pool) \in Nat /\ (pool = {} => Cardinality(pool) = 0)
      /\ \A x : pool = {x} => Cardinality(pool) = 1
  BY FS_CardinalityType, FS_EmptySet, FS_Singleton
<1>2. CASE pool = {}
  BY <1>1, <1>2, HitParts DEF Answers
<1>3. CASE \E x : pool = {x}
  <2>1. PICK x : pool = {x}
    BY <1>3
  <2>2. got = Found(ctx, x, single) /\ alone = Found(NoContext, x, single)
    BY <1>1, <2>1 DEF Answers
  <2>3. QED
    BY <2>2, HitParts
<1>4. CASE Cardinality(pool) > 1
  <2>1. pool # {} /\ ~\E x : pool = {x}
    BY <1>1, <1>4
  <2>2. alone = Unfound(NoContext, "ambiguous")
    BY <2>1, NoneCounted DEF Answers
  <2>3. \/ \E x \in pool : Count(ctx, x) > 0 /\ got = Found(ctx, x, counted)
        \/ got = Unfound(ctx, "ambiguous")
    BY <2>1 DEF Answers
  <2>4. QED
    BY <2>2, <2>3, HitParts
<1>5. QED
  BY <1>1, <1>2, <1>3, <1>4 DEF Answers

LEMMA PoolsFinite ==
    ASSUME NEW t, IsTree(t), NEW path \in Seq(Identifiers), path # <<>>
    PROVE  IsFiniteSet(Pool(ModuleFiles(t), path)) /\ IsFiniteSet(Pool(RepoFiles(t), path))
<1>1. ModuleFiles(t) \subseteq t.files /\ RepoFiles(t) \subseteq t.files
  BY DEF ModuleFiles, RepoFiles
<1>2. QED
  BY <1>1, PoolFinite

LEMMA AloneOrAmbiguous ==
    ASSUME NEW t, IsTree(t), NEW path \in Seq(Identifiers), path # <<>>, NEW ctx, IsContext(ctx)
    PROVE  LET got == Resolve(t, ctx, path)  alone == Resolve(t, NoContext, path) IN
           /\ alone.kind # "ambiguous" => got.file = alone.file /\ got.kind = alone.kind
           /\ alone.kind = "ambiguous" /\ got.file # None => Count(ctx, got.file) > 0
<1> DEFINE got == Resolve(t, ctx, path)  alone == Resolve(t, NoContext, path)
           pooled == ByRoot(t, path) = {} /\ ~Under(path, t.excluded) /\ path \notin t.files
<1>1. CASE ~pooled
  <2>1. \/ \E p, kind : /\ kind # "ambiguous"
                        /\ got = Found(ctx, p, kind) /\ alone = Found(NoContext, p, kind)
        \/ got = Unfound(ctx, "none") /\ alone = Unfound(NoContext, "none")
    BY <1>1, ResolveWays
  <2>2. QED
    BY <2>1, HitParts
<1>2. CASE pooled
  <2> DEFINE m == ModulePool(t, ctx, path)  m0 == ModulePool(t, NoContext, path)
             r == RepoPool(t, ctx, path)  r0 == RepoPool(t, NoContext, path)
  <2>1. /\ got = IF m.kind # "none" THEN m ELSE r
        /\ alone = IF m0.kind # "none" THEN m0 ELSE r0
    BY <1>2, ResolveWays
  <2>2. /\ m0.kind # "ambiguous" => m.file = m0.file /\ m.kind = m0.kind
        /\ m0.kind = "none" <=> m.kind = "none"
        /\ m0.kind = "ambiguous" /\ m.file # None => Count(ctx, m.file) > 0
    BY ModuleAnswers, NoneCounted, PoolAlone, PoolsFinite
  <2>3. /\ r0.kind # "ambiguous" => r.file = r0.file /\ r.kind = r0.kind
        /\ r0.kind = "ambiguous" /\ r.file # None => Count(ctx, r.file) > 0
    <3>1. CASE t.incomplete
      <4>1. r = Unfound(ctx, "ambiguous") /\ r0 = Unfound(NoContext, "ambiguous")
        BY <3>1, RepoAnswers, NoneCounted
      <4>2. QED
        BY <4>1, HitParts
    <3>2. CASE ~t.incomplete
      BY <3>2, RepoAnswers, NoneCounted, PoolAlone, PoolsFinite
    <3>3. QED
      BY <3>1, <3>2
  <2> HIDE DEF m, m0, r, r0, got, alone
  <2>4. QED
    BY <2>1, <2>2, <2>3 DEF got, alone
<1>3. QED
  BY <1>1, <1>2

\* What a path resolves to is of its name, and as spelled where that can be.
LEMMA PoolSpelled ==
    ASSUME NEW t, IsTree(t), NEW path \in Seq(Identifiers), path # <<>>, NEW files, files \subseteq t.files,
           NEW ctx, NEW got, NEW single, NEW counted, got.file # None,
           Answers(got, ctx, Pool(files, path), single, counted)
    PROVE  /\ got.file \in files /\ NameOf(got.file) = NameOf(path) /\ got.kind \in {single, counted}
           /\ \A q \in files : IsSuffix(path, q) => IsSuffix(path, got.file)
<1>1. got.file \in Pool(files, path) /\ got.kind \in {single, counted}
  BY HitParts DEF Answers
<1>2. QED
  BY <1>1, PoolFinite

LEMMA FileAsSpelled ==
    ASSUME NEW t, IsTree(t), NEW path \in Seq(Identifiers), path # <<>>, NEW ctx, IsContext(ctx),
           Resolve(t, ctx, path).file # None
    PROVE  LET got == Resolve(t, ctx, path) IN
           /\ got.file \in t.files /\ NameOf(got.file) = NameOf(path)
           /\ got.kind # "direct" => ~Under(got.file, t.excluded)
           /\ got.kind \in {"suffix", "ctx", "repo-suffix"} =>
                \A q \in Likely(t, path, got.kind = "repo-suffix") : IsSuffix(path, got.file)
<1> DEFINE got == Resolve(t, ctx, path)
           m == ModulePool(t, ctx, path)
           r == RepoPool(t, ctx, path)
<1>1. CASE ByRoot(t, path) # {}
  <2>1. got = Found(ctx, FirstRoot(t, path), "direct")
    BY <1>1, ResolveWays
  <2>2. QED
    BY <1>1, <2>1, RootFirst, HitParts
<1>2. CASE ByRoot(t, path) = {} /\ Under(path, t.excluded)
  <2>1. got = Unfound(ctx, "none")
    BY <1>2, ResolveWays
  <2>2. QED
    BY <2>1, HitParts
<1>3. CASE ByRoot(t, path) = {} /\ ~Under(path, t.excluded) /\ path \in t.files
  <2>1. got = Found(ctx, path, "repo-direct")
    BY <1>3, ResolveWays
  <2>2. QED
    BY <1>3, <2>1, HitParts
<1>4. CASE ByRoot(t, path) = {} /\ ~Under(path, t.excluded) /\ path \notin t.files
  <2>1. got = IF m.kind # "none" THEN m ELSE r
    BY <1>4, ResolveWays
  <2>2. CASE got = m
    <3>1. ModuleFiles(t) \subseteq t.files /\ got.file # None
      BY DEF ModuleFiles
    <3>2. /\ got.file \in ModuleFiles(t) /\ NameOf(got.file) = NameOf(path)
          /\ got.kind \in {"suffix", "ctx"}
          /\ \A q \in ModuleFiles(t) : IsSuffix(path, q) => IsSuffix(path, got.file)
      <4>1. Answers(got, ctx, Pool(ModuleFiles(t), path), "suffix", "ctx")
        BY <2>2, ModuleAnswers
      <4> HIDE DEF got
      <4>2. QED
        BY <3>1, <4>1, PoolSpelled
    <3>3. \A q \in Likely(t, path, FALSE) : q \in ModuleFiles(t) /\ IsSuffix(path, q)
      BY DEF Likely, ModuleFiles
    <3> HIDE DEF got
    <3>4. QED
      BY <3>2, <3>3 DEF ModuleFiles, got
  <2>3. CASE got = r
    <3>1. RepoFiles(t) \subseteq t.files /\ got.file # None
      BY DEF RepoFiles
    <3>2. ~t.incomplete
      BY <2>3, <3>1, RepoAnswers, HitParts
    <3>3. /\ got.file \in RepoFiles(t) /\ NameOf(got.file) = NameOf(path)
          /\ got.kind \in {"repo-suffix"}
          /\ \A q \in RepoFiles(t) : IsSuffix(path, q) => IsSuffix(path, got.file)
      <4>1. Answers(got, ctx, Pool(RepoFiles(t), path), "repo-suffix", "repo-suffix")
        BY <2>3, <3>2, RepoAnswers
      <4> HIDE DEF got
      <4>2. QED
        BY <3>1, <4>1, PoolSpelled
    <3>4. \A q \in Likely(t, path, TRUE) : q \in RepoFiles(t) /\ IsSuffix(path, q)
      BY DEF Likely, RepoFiles
    <3> HIDE DEF got
    <3>5. QED
      BY <3>3, <3>4 DEF RepoFiles, got
  <2>4. QED
    BY <2>1, <2>2, <2>3
<1>5. QED
  BY <1>1, <1>2, <1>3, <1>4

\* A path resolved is counted in its directory, one that is not leaves the
\* context as it was.
LEMMA HitShape ==
    ASSUME NEW t, IsTree(t), NEW path \in Seq(Identifiers), path # <<>>, NEW ctx, IsContext(ctx)
    PROVE  \E file, kind : \/ Resolve(t, ctx, path) = Unfound(ctx, kind)
                           \/ Resolve(t, ctx, path) = Found(ctx, file, kind) /\ file \in t.files
<1> DEFINE m == ModulePool(t, ctx, path)  r == RepoPool(t, ctx, path)
<1>1. ModuleFiles(t) \subseteq t.files /\ RepoFiles(t) \subseteq t.files
  BY DEF ModuleFiles, RepoFiles
<1>2. \E file, kind : m = Unfound(ctx, kind) \/ (m = Found(ctx, file, kind) /\ file \in t.files)
  <2>1. Answers(m, ctx, Pool(ModuleFiles(t), path), "suffix", "ctx")
        /\ Pool(ModuleFiles(t), path) \subseteq t.files
    BY <1>1, ModuleAnswers, PoolFinite
  <2> HIDE DEF m
  <2>2. QED
    BY <2>1 DEF Answers
<1>3. \E file, kind : r = Unfound(ctx, kind) \/ (r = Found(ctx, file, kind) /\ file \in t.files)
  <2>1. /\ t.incomplete => r = Unfound(ctx, "ambiguous")
        /\ ~t.incomplete => Answers(r, ctx, Pool(RepoFiles(t), path), "repo-suffix", "repo-suffix")
        /\ Pool(RepoFiles(t), path) \subseteq t.files
    BY <1>1, RepoAnswers, PoolFinite
  <2> HIDE DEF r
  <2>2. QED
    BY <2>1 DEF Answers
<1>4. \/ Resolve(t, ctx, path) \in {m, r, Unfound(ctx, "none"), Found(ctx, path, "repo-direct")}
           /\ (Resolve(t, ctx, path) = Found(ctx, path, "repo-direct") => path \in t.files
                  \/ Resolve(t, ctx, path) \in {m, r, Unfound(ctx, "none")})
      \/ Resolve(t, ctx, path) = Found(ctx, FirstRoot(t, path), "direct") /\ ByRoot(t, path) # {}
  <2> HIDE DEF m, r
  <2>1. QED
    BY ResolveWays DEF m, r
<1>5. ByRoot(t, path) # {} => FirstRoot(t, path) \in t.files
  BY RootFirst
<1> HIDE DEF m, r
<1>6. QED
  BY <1>2, <1>3, <1>4, <1>5

---------------------------------------------------------------------------
(* The frames before, one after another.                                   *)

NothingResolved == [got |-> <<>>, ctx |-> NoContext]
AfterOne(t, acc, path) ==
    [got |-> Append(acc.got, Resolve(t, acc.ctx, path)), ctx |-> Resolve(t, acc.ctx, path).ctx]

\* The fold over the paths, as the recursion that its definition is.
LEMMA FoldIs ==
    ASSUME NEW t, NEW paths
    PROVE  ResolveAll(t, paths) =
             LET iter[s \in SUBSET DOMAIN paths] ==
                   IF s = {} THEN NothingResolved
                   ELSE AfterOne(t, iter[s \ {Max(s)}], paths[Max(s)])
             IN  iter[DOMAIN paths]
  BY DEF ResolveAll, FoldLeft, MapThenFoldSet, NothingResolved, AfterOne, NoContext

LEMMA MaxOfSome ==
    ASSUME NEW n \in Nat, NEW s \in SUBSET (1 .. n + 1), n + 1 \in s
    PROVE  Max(s) = n + 1
<1>1. \A y \in s : n + 1 >= y
  OBVIOUS
<1>2. \A x \in s : (\A y \in s : x >= y) => x = n + 1
  <2>1. TAKE x \in s
  <2>2. HAVE \A y \in s : x >= y
  <2>3. x >= n + 1 /\ n + 1 >= x /\ x \in Nat
    BY <1>1, <2>2
  <2>4. QED
    BY <2>3
<1>3. QED
  BY <1>1, <1>2 DEF Max

FoldsTo(t, paths, k, h) ==
    h = [s \in SUBSET (1 .. k) |->
           IF s = {} THEN NothingResolved ELSE AfterOne(t, h[s \ {Max(s)}], paths[Max(s)])]

LEMMA FoldThereIs ==
    ASSUME NEW t, NEW paths, NEW n \in Nat
    PROVE  \E h : FoldsTo(t, paths, n, h)
<1> DEFINE Folds(k, h) == FoldsTo(t, paths, k, h)
           all == {k \in Nat : \E h : Folds(k, h)}
<1>1. 0 \in all
  <2> DEFINE h == [s \in SUBSET (1 .. 0) |-> NothingResolved]
  <2>1. 1 .. 0 = {}
    OBVIOUS
  <2>2. \A s \in SUBSET (1 .. 0) : s = {}
    BY <2>1
  <2>3. Folds(0, h)
    BY <2>2 DEF FoldsTo
  <2>4. QED
    BY <2>3
<1>2. ASSUME NEW k \in Nat, k \in all PROVE k + 1 \in all
  <2>1. PICK h : Folds(k, h)
    BY <1>2
  <2> DEFINE g == [s \in SUBSET (1 .. k + 1) |->
                     IF k + 1 \notin s THEN h[s] ELSE AfterOne(t, h[s \ {k + 1}], paths[k + 1])]
  <2>2. \A s \in SUBSET (1 .. k + 1) : k + 1 \notin s => s \in SUBSET (1 .. k)
    OBVIOUS
  <2>3. \A s \in SUBSET (1 .. k) : s \in SUBSET (1 .. k + 1) /\ k + 1 \notin s /\ g[s] = h[s]
    <3>1. \A s \in SUBSET (1 .. k) : s \in SUBSET (1 .. k + 1) /\ k + 1 \notin s
      OBVIOUS
    <3>2. QED
      BY <3>1
  <2>4. ASSUME NEW s \in SUBSET (1 .. k + 1)
        PROVE  g[s] = IF s = {} THEN NothingResolved
                      ELSE AfterOne(t, g[s \ {Max(s)}], paths[Max(s)])
    <3>1. CASE k + 1 \in s
      <4>1. Max(s) = k + 1 /\ s # {}
        BY <3>1, MaxOfSome
      <4>2. s \ {k + 1} \in SUBSET (1 .. k)
        OBVIOUS
      <4>3. g[s \ {k + 1}] = h[s \ {k + 1}]
        BY <2>3, <4>2
      <4>4. g[s] = AfterOne(t, h[s \ {k + 1}], paths[k + 1])
        BY <3>1
      <4> HIDE DEF g
      <4>5. QED
        BY <4>1, <4>3, <4>4
    <3>2. CASE k + 1 \notin s
      <4>1. s \in SUBSET (1 .. k) /\ s \ {Max(s)} \in SUBSET (1 .. k)
        BY <2>2, <3>2
      <4>2. g[s] = h[s] /\ g[s \ {Max(s)}] = h[s \ {Max(s)}]
        BY <2>3, <4>1
      <4>3. h[s] = IF s = {} THEN NothingResolved
                   ELSE AfterOne(t, h[s \ {Max(s)}], paths[Max(s)])
        BY <2>1, <4>1 DEF FoldsTo
      <4> HIDE DEF g
      <4>4. QED
        BY <4>2, <4>3
    <3>3. QED
      BY <3>1, <3>2
  <2>5. g = [s \in SUBSET (1 .. k + 1) |-> g[s]]
    OBVIOUS
  <2> HIDE DEF g
  <2>6. Folds(k + 1, g)
    BY <2>4, <2>5 DEF FoldsTo
  <2> HIDE DEF Folds
  <2>7. QED
    BY <2>6
<1> HIDE DEF all
<1>3. n \in all
  BY <1>1, <1>2, EveryNumber
<1>4. QED
  BY <1>3 DEF all

\* So the frames are resolved one by one, each after those before it.
LEMMA OneByOne ==
    ASSUME NEW t, NEW N, NEW paths \in Seq(N)
    PROVE  \E acc : /\ acc[0] = NothingResolved
                    /\ \A n \in 0 .. Len(paths) - 1 : acc[n + 1] = AfterOne(t, acc[n], paths[n + 1])
                    /\ acc[Len(paths)] = ResolveAll(t, paths)
<1> DEFINE Folds(h) == FoldsTo(t, paths, Len(paths), h)
           iter == CHOOSE h : Folds(h)
           acc == [n \in 0 .. Len(paths) |-> iter[1 .. n]]
<1>1. DOMAIN paths = 1 .. Len(paths) /\ Len(paths) \in Nat
  OBVIOUS
<1>2. ResolveAll(t, paths) = iter[1 .. Len(paths)]
  BY <1>1, FoldIs DEF FoldsTo
<1>3. \E h : Folds(h)
  BY <1>1, FoldThereIs
<1>4. Folds(iter)
  <2> HIDE DEF Folds
  <2>1. QED
    BY <1>3
<1> HIDE DEF iter
<1>5. acc[0] = NothingResolved
  <2>1. 1 .. 0 = {} /\ 0 \in 0 .. Len(paths)
    BY <1>1
  <2>2. QED
    BY <1>4, <2>1 DEF FoldsTo
<1>6. ASSUME NEW n \in 0 .. Len(paths) - 1 PROVE acc[n + 1] = AfterOne(t, acc[n], paths[n + 1])
  <2>1. n \in Nat /\ n \in 0 .. Len(paths) /\ n + 1 \in 0 .. Len(paths)
    BY <1>1
  <2>2. 1 .. n + 1 \in SUBSET (1 .. n + 1) /\ n + 1 \in 1 .. n + 1
    BY <2>1
  <2>3. Max(1 .. n + 1) = n + 1
    BY <2>1, <2>2, MaxOfSome
  <2>4. (1 .. n + 1) \ {n + 1} = 1 .. n /\ 1 .. n + 1 # {}
        /\ 1 .. n + 1 \in SUBSET (1 .. Len(paths))
    BY <1>1, <2>1
  <2>5. iter[1 .. n + 1] = AfterOne(t, iter[1 .. n], paths[n + 1])
    BY <1>4, <2>3, <2>4 DEF FoldsTo
  <2>6. QED
    BY <2>1, <2>5
<1>7. acc[Len(paths)] = ResolveAll(t, paths)
  <2>1. Len(paths) \in 0 .. Len(paths)
    BY <1>1
  <2>2. QED
    BY <1>2, <2>1
<1> HIDE DEF acc
<1>8. QED
  BY <1>5, <1>6, <1>7

\* The directories of the context are those of the files resolved.
Counted(done) ==
    /\ \E U : done.got \in Seq(U)
    /\ IsContext(done.ctx)
    /\ \A d \in DOMAIN done.ctx : done.ctx[d] > 0 =>
         \E i \in DOMAIN done.got : done.got[i].file # None /\ DirOf(done.got[i].file) = d

LEMMA CountedAfter ==
    ASSUME NEW t, IsTree(t), NEW path \in Seq(Identifiers), path # <<>>, NEW done, Counted(done)
    PROVE  Counted(AfterOne(t, done, path))
<1> DEFINE got == Resolve(t, done.ctx, path)  after == AfterOne(t, done, path)
<1>1. PICK U : done.got \in Seq(U)
  BY DEF Counted
<1>2. IsContext(done.ctx)
  BY DEF Counted
<1>3. after.got = Append(done.got, got) /\ after.ctx = got.ctx
  BY DEF AfterOne
<1> HIDE DEF after
<1>4. done.got \in Seq(U \cup {got}) /\ got \in U \cup {got}
  BY <1>1
<1> HIDE DEF got
<1>5. /\ after.got \in Seq(U \cup {got}) /\ DOMAIN done.got \subseteq DOMAIN after.got
      /\ \A i \in DOMAIN done.got : after.got[i] = done.got[i]
      /\ \E i \in DOMAIN after.got : after.got[i] = got
  <2>1. /\ Len(after.got) = Len(done.got) + 1 /\ Len(done.got) \in Nat
        /\ after.got \in Seq(U \cup {got})
        /\ after.got[Len(done.got) + 1] = got
        /\ \A i \in 1 .. Len(done.got) : after.got[i] = done.got[i]
    BY <1>3, <1>4, AppendProperties
  <2>2. Len(done.got) + 1 \in DOMAIN after.got
    BY <2>1
  <2>3. DOMAIN done.got \subseteq DOMAIN after.got
    BY <1>1, <2>1
  <2>4. QED
    BY <1>1, <2>1, <2>2, <2>3
<1>0. ASSUME NEW d, \E i \in DOMAIN done.got : done.got[i].file # None /\ DirOf(done.got[i].file) = d
      PROVE  \E i \in DOMAIN after.got : after.got[i].file # None /\ DirOf(after.got[i].file) = d
  BY <1>0, <1>5
<1>6. PICK file, kind : \/ got = Unfound(done.ctx, kind)
                        \/ got = Found(done.ctx, file, kind) /\ file \in t.files
  BY <1>2, HitShape DEF got
<1>7. CASE got = Unfound(done.ctx, kind)
  <2>1. after.ctx = done.ctx
    BY <1>3, <1>7 DEF Unfound
  <2>2. ASSUME NEW d \in DOMAIN done.ctx, done.ctx[d] > 0
        PROVE  \E i \in DOMAIN after.got : after.got[i].file # None /\ DirOf(after.got[i].file) = d
    <3>1. \E i \in DOMAIN done.got : done.got[i].file # None /\ DirOf(done.got[i].file) = d
      BY <2>2 DEF Counted
    <3>2. QED
      BY <1>0, <3>1
  <2>3. \E V : after.got \in Seq(V)
    BY <1>5
  <2>4. Counted(after)
    BY <1>2, <2>1, <2>2, <2>3, Zenon DEF Counted
  <2>5. QED
    BY <2>4 DEF after
<1>8. CASE got = Found(done.ctx, file, kind) /\ file \in t.files
  <2>1. after.ctx = Bump(done.ctx, file) /\ got.file = file /\ file # None
    BY <1>3, <1>8 DEF Found, IsTree
  <2>2. IsContext(after.ctx)
    BY <1>2, <2>1 DEF IsContext, Bump
  <2>3. ASSUME NEW d \in DOMAIN after.ctx, after.ctx[d] > 0
        PROVE  \E i \in DOMAIN after.got : after.got[i].file # None /\ DirOf(after.got[i].file) = d
    <3>1. CASE d = DirOf(file)
      BY <1>5, <2>1, <3>1
    <3>2. CASE d # DirOf(file)
      <4>1. d \in DOMAIN done.ctx /\ done.ctx[d] > 0
        BY <1>2, <2>1, <2>3, <3>2 DEF Bump, IsContext
      <4>2. \E i \in DOMAIN done.got : done.got[i].file # None /\ DirOf(done.got[i].file) = d
        BY <4>1 DEF Counted
      <4>3. QED
        BY <1>0, <4>2
    <3>3. QED
      BY <3>1, <3>2
  <2>4. \E V : after.got \in Seq(V)
    BY <1>5
  <2>5. Counted(after)
    BY <2>2, <2>3, <2>4, Zenon DEF Counted
  <2>6. QED
    BY <2>5 DEF after
<1>9. QED
  BY <1>6, <1>7, <1>8 DEF after

LEMMA AllCounted ==
    ASSUME NEW t, IsTree(t), NEW paths \in Seq(Spelled)
    PROVE  Counted(ResolveAll(t, paths))
<1>1. PICK acc : /\ acc[0] = NothingResolved
                 /\ \A n \in 0 .. Len(paths) - 1 : acc[n + 1] = AfterOne(t, acc[n], paths[n + 1])
                 /\ acc[Len(paths)] = ResolveAll(t, paths)
  BY OneByOne
<1> DEFINE all == {n \in Nat : n <= Len(paths) => Counted(acc[n])}
<1>2. 0 \in all
  <2>1. <<>> \in Seq({}) /\ DOMAIN NoContext = {}
    BY DEF NoContext
  <2>2. Counted(NothingResolved)
    BY <2>1, NoneCounted DEF Counted, NothingResolved
  <2>3. QED
    BY <1>1, <2>2
<1>3. ASSUME NEW n \in Nat, n \in all PROVE n + 1 \in all
  <2>1. SUFFICES ASSUME n + 1 <= Len(paths) PROVE Counted(acc[n + 1])
    OBVIOUS
  <2>2. Len(paths) \in Nat
    OBVIOUS
  <2>3. n \in 0 .. Len(paths) - 1 /\ n <= Len(paths) /\ n + 1 \in 1 .. Len(paths)
    BY <2>1, <2>2
  <2>4. paths[n + 1] \in Seq(Identifiers) /\ paths[n + 1] # <<>>
    BY <2>3, PathsAssumption
  <2>5. Counted(acc[n])
    BY <1>3, <2>3
  <2>6. QED
    BY <1>1, <2>3, <2>4, <2>5, CountedAfter
<1> HIDE DEF all
<1>4. Len(paths) \in all
  <2>1. Len(paths) \in Nat
    OBVIOUS
  <2>2. QED
    BY <1>2, <1>3, <2>1, EveryNumber
<1>5. QED
  BY <1>1, <1>4 DEF all

\* One path alone is resolved without a context.
LEMMA OneAlone ==
    ASSUME NEW t, NEW path
    PROVE  ResolveAll(t, <<path>>).got[1] = Resolve(t, NoContext, path)
<1>1. <<path>> \in Seq({path}) /\ Len(<<path>>) = 1 /\ <<path>>[1] = path
  OBVIOUS
<1>2. PICK acc : /\ acc[0] = NothingResolved
                 /\ \A n \in 0 .. Len(<<path>>) - 1 : acc[n + 1] = AfterOne(t, acc[n], <<path>>[n + 1])
                 /\ acc[Len(<<path>>)] = ResolveAll(t, <<path>>)
  BY <1>1, OneByOne
<1>3. acc[1] = AfterOne(t, NothingResolved, path)
  BY <1>1, <1>2
<1>4. ResolveAll(t, <<path>>).got = Append(<<>>, Resolve(t, NoContext, path))
  BY <1>1, <1>2, <1>3 DEF AfterOne, NothingResolved
<1>5. QED
  BY <1>4

\* Whatever the tree, the path and the paths before it: what it resolves to
\* alone, it resolves to after them; they only settle what was ambiguous.
THEOREM ContextSettles ==
    ASSUME NEW t, IsTree(t), NEW path \in Seq(Identifiers), path # <<>>, NEW before \in Seq(Spelled)
    PROVE  LET done == ResolveAll(t, before) IN
           Settled(t, path, Resolve(t, done.ctx, path), ResolveAll(t, <<path>>).got[1], done.got)
<1> DEFINE done == ResolveAll(t, before)
           got == Resolve(t, done.ctx, path)
           alone == Resolve(t, NoContext, path)
<1>1. ResolveAll(t, <<path>>).got[1] = alone
  BY OneAlone
<1>2. Counted(done) /\ IsContext(done.ctx)
  BY AllCounted DEF Counted
<1>3. /\ alone.kind # "ambiguous" => got.file = alone.file /\ got.kind = alone.kind
      /\ alone.kind = "ambiguous" /\ got.file # None => Count(done.ctx, got.file) > 0
  BY <1>2, AloneOrAmbiguous
<1>4. got.file # None =>
        /\ got.file \in t.files /\ NameOf(got.file) = NameOf(path)
        /\ got.kind # "direct" => ~Under(got.file, t.excluded)
        /\ got.kind \in {"suffix", "ctx", "repo-suffix"} =>
             \A q \in Likely(t, path, got.kind = "repo-suffix") : IsSuffix(path, got.file)
  BY <1>2, FileAsSpelled
<1>5. ASSUME got.file # None, alone.kind = "ambiguous"
      PROVE  \E q \in {done.got[i].file : i \in DOMAIN done.got} :
               q # None /\ DirOf(q) = DirOf(got.file)
  <2>1. Count(done.ctx, got.file) > 0
    BY <1>3, <1>5
  <2>2. DirOf(got.file) \in DOMAIN done.ctx /\ done.ctx[DirOf(got.file)] > 0
    BY <2>1 DEF Count
  <2>3. PICK i \in DOMAIN done.got : done.got[i].file # None /\ DirOf(done.got[i].file) = DirOf(got.file)
    BY <1>2, <2>2 DEF Counted
  <2>4. QED
    BY <2>3
<1> HIDE DEF done, got, alone
<1>6. Settled(t, path, got, alone, done.got)
  BY <1>3, <1>4, <1>5 DEF Settled
<1>7. QED
  BY <1>1, <1>6 DEF done, got

---------------------------------------------------------------------------
(* Sequences, and folds of a step that stays in a set of values.           *)

\* What holds of the empty sequence and of each one with an element appended
\* to one it holds of, holds of every sequence.
LEMMA EverySequence ==
    ASSUME NEW E, NEW P, <<>> \in P, \A s \in Seq(E), e \in E : s \in P => Append(s, e) \in P
    PROVE  Seq(E) \subseteq P
<1> DEFINE all == {n \in Nat : \A s \in Seq(E) : Len(s) = n => s \in P}
<1>1. 0 \in all
  <2>1. \A s \in Seq(E) : Len(s) = 0 => s = <<>>
    OBVIOUS
  <2>2. QED
    BY <2>1
<1>2. ASSUME NEW n \in Nat, n \in all PROVE n + 1 \in all
  <2>1. SUFFICES ASSUME NEW s \in Seq(E), Len(s) = n + 1 PROVE s \in P
    OBVIOUS
  <2>2. s # <<>>
    BY <2>1
  <2>3. PICK r \in Seq(E), e \in E : s = Append(r, e)
    BY <2>2, SequenceEmptyOrAppend
  <2>4. Len(r) = n
    <3>1. Len(s) = Len(r) + 1 /\ Len(r) \in Nat
      BY <2>3, AppendProperties
    <3>2. QED
      BY <2>1, <3>1
  <2>5. QED
    BY <1>2, <2>3, <2>4
<1>3. Nat \subseteq all
  <2> HIDE DEF all
  <2>1. QED
    BY <1>1, <1>2, EveryNumber
<1>4. QED
  <2>1. \A s \in Seq(E) : Len(s) \in Nat
    OBVIOUS
  <2>2. QED
    BY <1>3, <2>1

\* The first k + 1 numbers: the first k, and the greatest.
LEMMA OneMore ==
    ASSUME NEW n \in Nat, NEW k \in 0 .. n - 1
    PROVE  /\ 1 .. k + 1 \in SUBSET (1 .. n) /\ 1 .. k + 1 # {} /\ k + 1 \in 1 .. n
           /\ Max(1 .. k + 1) = k + 1 /\ (1 .. k + 1) \ {k + 1} = 1 .. k
<1>1. k \in Nat /\ 1 .. k + 1 \in SUBSET (1 .. k + 1) /\ k + 1 \in 1 .. k + 1
  OBVIOUS
<1>2. Max(1 .. k + 1) = k + 1
  BY <1>1, MaxOfSome
<1>3. QED
  BY <1>1, <1>2

\* Some numbers up to n have a greatest.
LEMMA MaxInside ==
    ASSUME NEW n \in Nat, NEW s \in SUBSET (1 .. n), s # {}
    PROVE  Max(s) \in s
<1> DEFINE gap == {n - x : x \in s}
<1>1. gap \subseteq Nat /\ gap # {}
  <2>1. \A x \in s : n - x \in Nat
    OBVIOUS
  <2>2. QED
    BY <2>1
<1>2. PICK g \in gap : \A y \in gap : g <= y
  <2> HIDE DEF gap
  <2>1. QED
    BY <1>1, LeastNumber
<1>3. PICK x \in s : g = n - x
  BY <1>2
<1>4. \A y \in s : x >= y
  <2>1. TAKE y \in s
  <2>2. n - y \in gap
    OBVIOUS
  <2> HIDE DEF gap
  <2>3. n - x <= n - y /\ x \in Int /\ y \in Int
    BY <1>2, <1>3, <2>2
  <2>4. QED
    BY <2>3
<1>5. QED
  BY <1>4 DEF Max

FoldOf(D, F, base, seq, n, h) ==
    /\ h \in [SUBSET (1 .. n) -> D]
    /\ \A s \in SUBSET (1 .. n) : h[s] = IF s = {} THEN base ELSE F[h[s \ {Max(s)}], seq[Max(s)]]

Stays(F, D, E) == \A d \in D, e \in E : F[d, e] \in D

\* A fold of a step that stays in a set of values: there is one, whatever the
\* sets of places it is asked for.
LEMMA FoldIsThere ==
    ASSUME NEW D, NEW E, NEW F, Stays(F, D, E), NEW base \in D, NEW n \in Nat, NEW seq \in [1 .. n -> E]
    PROVE  \E h : FoldOf(D, F, base, seq, n, h)
<1> DEFINE Fold(k, h) == FoldOf(D, F, base, seq, k, h)
           all == {k \in Nat : k <= n => \E h : Fold(k, h)}
<1>1. 0 \in all
  <2> DEFINE h == [s \in SUBSET (1 .. 0) |-> base]
  <2>1. \A s \in SUBSET (1 .. 0) : s = {}
    OBVIOUS
  <2>2. Fold(0, h)
    BY <2>1 DEF FoldOf
  <2>3. QED
    BY <2>2
<1>2. ASSUME NEW k \in Nat, k \in all PROVE k + 1 \in all
  <2>1. SUFFICES ASSUME k + 1 <= n PROVE \E h : Fold(k + 1, h)
    <3> HIDE DEF Fold
    <3>1. QED
      OBVIOUS
  <2>2. PICK h : Fold(k, h)
    BY <1>2, <2>1
  <2> DEFINE g == [s \in SUBSET (1 .. k + 1) |->
                     IF k + 1 \notin s THEN h[s] ELSE F[h[s \ {k + 1}], seq[k + 1]]]
  <2>3. \A s \in SUBSET (1 .. k) : s \in SUBSET (1 .. k + 1) /\ k + 1 \notin s
    OBVIOUS
  <2>4. \A s \in SUBSET (1 .. k) : g[s] = h[s]
    BY <2>3
  <2>5. k + 1 \in 1 .. n
    BY <2>1
  <2>6. ASSUME NEW s \in SUBSET (1 .. k + 1)
        PROVE  g[s] \in D /\ g[s] = IF s = {} THEN base ELSE F[g[s \ {Max(s)}], seq[Max(s)]]
    <3>1. CASE k + 1 \in s
      <4>1. Max(s) = k + 1 /\ s # {}
        BY <3>1, MaxOfSome
      <4>2. s \ {k + 1} \in SUBSET (1 .. k)
        OBVIOUS
      <4>3. h[s \ {k + 1}] \in D /\ g[s \ {k + 1}] = h[s \ {k + 1}]
        BY <2>2, <2>4, <4>2 DEF FoldOf
      <4>4. g[s] = F[h[s \ {k + 1}], seq[k + 1]] /\ seq[k + 1] \in E
        BY <2>5, <3>1
      <4>5. g[s] \in D
        <5> HIDE DEF g
        <5>1. QED
          BY <4>3, <4>4 DEF Stays
      <4> HIDE DEF g
      <4>6. QED
        BY <4>1, <4>3, <4>4, <4>5
    <3>2. CASE k + 1 \notin s
      <4>1. s \in SUBSET (1 .. k)
        BY <3>2
      <4>0. s \ {Max(s)} \in SUBSET (1 .. k)
        BY <4>1
      <4>2. g[s] = h[s] /\ g[s \ {Max(s)}] = h[s \ {Max(s)}]
        BY <2>4, <4>0, <4>1
      <4>3. h[s] \in D /\ h[s] = IF s = {} THEN base ELSE F[h[s \ {Max(s)}], seq[Max(s)]]
        BY <2>2, <4>1 DEF FoldOf
      <4> HIDE DEF g
      <4>4. QED
        BY <4>2, <4>3
    <3>3. QED
      BY <3>1, <3>2
  <2>7. DOMAIN g = SUBSET (1 .. k + 1) /\ g = [s \in SUBSET (1 .. k + 1) |-> g[s]]
    OBVIOUS
  <2> HIDE DEF g
  <2>8. Fold(k + 1, g)
    BY <2>6, <2>7 DEF FoldOf
  <2>9. QED
    BY <2>8
<1> HIDE DEF Fold
<1>3. n \in all
  <2> HIDE DEF all
  <2>1. QED
    BY <1>1, <1>2, EveryNumber
<1>4. QED
  BY <1>3 DEF Fold

FoldedBy(D, F, base, seq) == (CHOOSE h : FoldOf(D, F, base, seq, Len(seq), h))[1 .. Len(seq)]

Goes(D, F, base, seq, h) ==
    /\ h[1 .. 0] = base
    /\ \A k \in 0 .. Len(seq) - 1 : h[1 .. k] \in D => h[1 .. k + 1] = F[h[1 .. k], seq[k + 1]]

\* A fold starts from its base and takes its steps in order.
LEMMA FoldGoes ==
    ASSUME NEW D, NEW E, NEW F, Stays(F, D, E), NEW base \in D, NEW seq \in Seq(E)
    PROVE  \E h : Goes(D, F, base, seq, h) /\ FoldedBy(D, F, base, seq) = h[1 .. Len(seq)]
<1> DEFINE h == CHOOSE g : FoldOf(D, F, base, seq, Len(seq), g)
<1>1. Len(seq) \in Nat /\ seq \in [1 .. Len(seq) -> E]
  OBVIOUS
<1>2. FoldOf(D, F, base, seq, Len(seq), h)
  <2>1. \E g : FoldOf(D, F, base, seq, Len(seq), g)
    BY <1>1, FoldIsThere
  <2>2. QED
    BY <2>1
<1>3. FoldedBy(D, F, base, seq) = h[1 .. Len(seq)]
  BY DEF FoldedBy
<1> HIDE DEF h
<1>4. h[1 .. 0] = base
  <2>1. 1 .. 0 = {} /\ {} \in SUBSET (1 .. Len(seq))
    OBVIOUS
  <2>2. QED
    BY <1>2, <2>1 DEF FoldOf
<1>5. ASSUME NEW k \in 0 .. Len(seq) - 1 PROVE h[1 .. k + 1] = F[h[1 .. k], seq[k + 1]]
  <2>1. /\ 1 .. k + 1 \in SUBSET (1 .. Len(seq)) /\ 1 .. k + 1 # {}
        /\ Max(1 .. k + 1) = k + 1 /\ (1 .. k + 1) \ {k + 1} = 1 .. k
    BY <1>1, OneMore
  <2>2. QED
    BY <1>2, <2>1 DEF FoldOf
<1>6. QED
  BY <1>3, <1>4, <1>5 DEF Goes

\* And stays in the set; what starts and goes like it is the same.
LEMMA OneWay ==
    ASSUME NEW D, NEW E, NEW F, Stays(F, D, E), NEW base \in D, NEW seq \in Seq(E),
           NEW g, NEW h, Goes(D, F, base, seq, g), Goes(D, F, base, seq, h)
    PROVE  g[1 .. Len(seq)] = h[1 .. Len(seq)] /\ h[1 .. Len(seq)] \in D
<1> DEFINE all == {k \in Nat : k <= Len(seq) => g[1 .. k] = h[1 .. k] /\ h[1 .. k] \in D}
<1>1. Len(seq) \in Nat /\ \A i \in 1 .. Len(seq) : seq[i] \in E
  OBVIOUS
<1>2. 0 \in all
  BY DEF Goes
<1>3. ASSUME NEW k \in Nat, k \in all PROVE k + 1 \in all
  <2>1. SUFFICES ASSUME k + 1 <= Len(seq)
                 PROVE  g[1 .. k + 1] = h[1 .. k + 1] /\ h[1 .. k + 1] \in D
    OBVIOUS
  <2>2. k \in 0 .. Len(seq) - 1 /\ k <= Len(seq) /\ k + 1 \in 1 .. Len(seq)
    BY <1>1, <2>1
  <2>3. g[1 .. k] = h[1 .. k] /\ h[1 .. k] \in D
    BY <1>3, <2>2
  <2>4. g[1 .. k + 1] = F[g[1 .. k], seq[k + 1]] /\ h[1 .. k + 1] = F[h[1 .. k], seq[k + 1]]
    BY <2>2, <2>3 DEF Goes
  <2>5. F[h[1 .. k], seq[k + 1]] \in D
    BY <1>1, <2>2, <2>3 DEF Stays
  <2>6. QED
    BY <2>3, <2>4, <2>5
<1>4. Len(seq) \in all
  <2> HIDE DEF all
  <2>1. QED
    BY <1>1, <1>2, <1>3, EveryNumber
<1>5. QED
  BY <1>1, <1>4

\* Whatever starts from the base and takes the steps is the fold.
LEMMA FoldIsFolded ==
    ASSUME NEW D, NEW E, NEW F, Stays(F, D, E), NEW base \in D, NEW seq \in Seq(E),
           NEW iter, Goes(D, F, base, seq, iter)
    PROVE  iter[1 .. Len(seq)] = FoldedBy(D, F, base, seq) /\ FoldedBy(D, F, base, seq) \in D
<1>1. PICK h : Goes(D, F, base, seq, h) /\ FoldedBy(D, F, base, seq) = h[1 .. Len(seq)]
  BY FoldGoes
<1>2. iter[1 .. Len(seq)] = h[1 .. Len(seq)] /\ h[1 .. Len(seq)] \in D
  BY <1>1, OneWay
<1>3. QED
  BY <1>1, <1>2

\* What is the base of no place, and a step more for the last place of some.
Iterates(D, F, base, seq, iter) ==
    /\ iter[{}] = base
    /\ \A s \in SUBSET (1 .. Len(seq)) :
         s # {} /\ iter[s \ {Max(s)}] \in D => iter[s] = F[iter[s \ {Max(s)}], seq[Max(s)]]

Folds(D, E, F, base) == Stays(F, D, E) /\ base \in D

LEMMA IteratedIsFolded ==
    ASSUME NEW D, NEW E, NEW F, NEW base, Folds(D, E, F, base), NEW seq, seq \in Seq(E),
           NEW iter, Iterates(D, F, base, seq, iter)
    PROVE  FoldedBy(D, F, base, seq) = iter[1 .. Len(seq)]
<1>0. Stays(F, D, E) /\ base \in D /\ Len(seq) \in Nat
  BY DEF Folds
<1>1. iter[1 .. 0] = base
  <2>1. 1 .. 0 = {}
    OBVIOUS
  <2>2. QED
    BY <2>1 DEF Iterates
<1>2. ASSUME NEW k \in 0 .. Len(seq) - 1, iter[1 .. k] \in D
      PROVE  iter[1 .. k + 1] = F[iter[1 .. k], seq[k + 1]]
  <2>1. /\ 1 .. k + 1 \in SUBSET (1 .. Len(seq)) /\ 1 .. k + 1 # {}
        /\ Max(1 .. k + 1) = k + 1 /\ (1 .. k + 1) \ {k + 1} = 1 .. k
    BY <1>0, OneMore
  <2>2. QED
    BY <1>2, <2>1 DEF Iterates
<1>3. Goes(D, F, base, seq, iter)
  BY <1>1, <1>2 DEF Goes
<1>4. QED
  BY <1>0, <1>3, FoldIsFolded

\* The fold of no element is the base, that of one more a step more.
LEMMA FoldedOfNone ==
    ASSUME NEW D, NEW E, NEW F, NEW base, Folds(D, E, F, base)
    PROVE  FoldedBy(D, F, base, <<>>) = base
<1> DEFINE none == <<>>
<1>0. none \in Seq(E)
  OBVIOUS
<1>1. Len(none) = 0
  OBVIOUS
<1> HIDE DEF none
<1>2. PICK h : Goes(D, F, base, none, h) /\ FoldedBy(D, F, base, none) = h[1 .. Len(none)]
  BY <1>0, FoldGoes DEF Folds
<1>3. QED
  BY <1>1, <1>2 DEF Goes, none

\* A sequence that another extends by an element.
Extends(E, seq, e, more) ==
    /\ seq \in Seq(E) /\ e \in E /\ more \in Seq(E)
    /\ Len(more) = Len(seq) + 1 /\ Len(seq) \in Nat /\ more[Len(seq) + 1] = e
    /\ \A i \in 1 .. Len(seq) : more[i] = seq[i]

LEMMA AppendExtends ==
    ASSUME NEW E, NEW seq \in Seq(E), NEW e \in E
    PROVE  Extends(E, seq, e, Append(seq, e))
<1>1. /\ Append(seq, e) \in Seq(E)
      /\ Len(Append(seq, e)) = Len(seq) + 1 /\ Len(seq) \in Nat
      /\ Append(seq, e)[Len(seq) + 1] = e
      /\ \A i \in 1 .. Len(seq) : Append(seq, e)[i] = seq[i]
  BY AppendProperties
<1>2. QED
  BY <1>1, Zenon DEF Extends

OneStep(D, F, base, seq, e, more) ==
    /\ FoldedBy(D, F, base, seq) \in D
    /\ FoldedBy(D, F, base, more) = F[FoldedBy(D, F, base, seq), e]

LEMMA FoldedOfMore ==
    ASSUME NEW D, NEW E, NEW F, NEW base, Folds(D, E, F, base),
           NEW seq, NEW e, NEW more, Extends(E, seq, e, more)
    PROVE  OneStep(D, F, base, seq, e, more)
<1>0. Stays(F, D, E) /\ base \in D /\ seq \in Seq(E) /\ e \in E /\ more \in Seq(E)
  BY DEF Extends, Folds
<1>1. /\ Len(more) = Len(seq) + 1 /\ Len(seq) \in Nat /\ more[Len(seq) + 1] = e
      /\ \A i \in 1 .. Len(seq) : more[i] = seq[i]
  BY DEF Extends
<1>2. PICK h : Goes(D, F, base, more, h) /\ FoldedBy(D, F, base, more) = h[1 .. Len(more)]
  BY <1>0, FoldGoes
<1>3. Goes(D, F, base, seq, h)
  <2>1. ASSUME NEW k \in 0 .. Len(seq) - 1, h[1 .. k] \in D
        PROVE  h[1 .. k + 1] = F[h[1 .. k], seq[k + 1]]
    <3>1. k \in 0 .. Len(more) - 1 /\ k + 1 \in 1 .. Len(seq)
      BY <1>1
    <3>2. h[1 .. k + 1] = F[h[1 .. k], more[k + 1]] /\ more[k + 1] = seq[k + 1]
      BY <1>1, <1>2, <2>1, <3>1 DEF Goes
    <3>3. QED
      BY <3>2
  <2>2. h[1 .. 0] = base
    BY <1>2 DEF Goes
  <2>3. QED
    BY <2>1, <2>2 DEF Goes
<1>4. h[1 .. Len(seq)] = FoldedBy(D, F, base, seq) /\ FoldedBy(D, F, base, seq) \in D
  BY <1>0, <1>3, FoldIsFolded
<1>5. Len(seq) \in 0 .. Len(more) - 1
  BY <1>1
<1>6. h[1 .. Len(seq) + 1] = F[h[1 .. Len(seq)], e]
  BY <1>1, <1>2, <1>4, <1>5 DEF Goes
<1>7. QED
  BY <1>1, <1>2, <1>4, <1>6 DEF OneStep

---------------------------------------------------------------------------
(* The elements of a sequence that lie in a set.                           *)

Kept(keep, acc, x) == IF x \in keep THEN Append(acc, x) ELSE acc

LEMMA ThoseFold ==
    ASSUME NEW seq, NEW keep
    PROVE  Those(seq, keep) =
             LET iter[s \in SUBSET DOMAIN seq] ==
                   IF s = {} THEN <<>> ELSE Kept(keep, iter[s \ {Max(s)}], seq[Max(s)])
             IN  iter[DOMAIN seq]
  BY DEF Those, FoldLeft, MapThenFoldSet, Kept

KeptIn(E, keep) == [p \in Seq(E) \X E |-> Kept(keep, p[1], p[2])]

LEMMA KeptStays ==
    ASSUME NEW E, NEW keep
    PROVE  /\ Stays(KeptIn(E, keep), Seq(E), E) /\ <<>> \in Seq(E)
           /\ \A a \in Seq(E), x \in E : KeptIn(E, keep)[a, x] = Kept(keep, a, x)
<1>1. \A a \in Seq(E), x \in E : Kept(keep, a, x) \in Seq(E)
  BY DEF Kept
<1>2. \A a \in Seq(E), x \in E : KeptIn(E, keep)[a, x] = Kept(keep, a, x)
  BY DEF KeptIn
<1>3. Stays(KeptIn(E, keep), Seq(E), E)
  BY <1>1, <1>2, Zenon DEF Stays
<1>4. <<>> \in Seq(E)
  OBVIOUS
<1>5. QED
  BY <1>2, <1>3, <1>4, Zenon

LEMMA ThoseFolded ==
    ASSUME NEW E, NEW seq \in Seq(E), NEW keep
    PROVE  Those(seq, keep) = FoldedBy(Seq(E), KeptIn(E, keep), <<>>, seq)
<1>1. Len(seq) \in Nat /\ DOMAIN seq = 1 .. Len(seq) /\ seq \in [1 .. Len(seq) -> E]
  OBVIOUS
<1> DEFINE Fold(h) == h = [s \in SUBSET (1 .. Len(seq)) |->
                             IF s = {} THEN <<>> ELSE Kept(keep, h[s \ {Max(s)}], seq[Max(s)])]
           iter == CHOOSE h : Fold(h)
           F == KeptIn(E, keep)
<1>2. /\ Stays(F, Seq(E), E) /\ <<>> \in Seq(E)
      /\ \A a \in Seq(E), x \in E : F[a, x] = Kept(keep, a, x)
  BY KeptStays
<1> HIDE DEF F
<1>3. \E h : Fold(h)
  <2>1. PICK h : FoldOf(Seq(E), F, <<>>, seq, Len(seq), h)
    BY <1>1, <1>2, FoldIsThere
  <2>2. ASSUME NEW s \in SUBSET (1 .. Len(seq)), s # {}
        PROVE  F[h[s \ {Max(s)}], seq[Max(s)]] = Kept(keep, h[s \ {Max(s)}], seq[Max(s)])
    <3>1. Max(s) \in 1 .. Len(seq)
      BY <1>1, <2>2, MaxInside
    <3>2. QED
      BY <1>1, <1>2, <2>1, <3>1 DEF FoldOf
  <2>3. QED
    BY <2>1, <2>2 DEF FoldOf
<1>4. iter[1 .. Len(seq)] = Those(seq, keep)
  BY <1>1, ThoseFold
<1>5. Fold(iter)
  <2> HIDE DEF Fold
  <2>1. QED
    BY <1>3
<1> HIDE DEF iter
<1>6. Iterates(Seq(E), F, <<>>, seq, iter)
  <2>1. iter[{}] = <<>>
    BY <1>5
  <2>2. ASSUME NEW s \in SUBSET (1 .. Len(seq)), s # {}, iter[s \ {Max(s)}] \in Seq(E)
        PROVE  iter[s] = F[iter[s \ {Max(s)}], seq[Max(s)]]
    <3>1. iter[s] = Kept(keep, iter[s \ {Max(s)}], seq[Max(s)])
      BY <1>5, <2>2
    <3>2. seq[Max(s)] \in E
      BY <1>1, <2>2, MaxInside
    <3>3. QED
      BY <1>2, <2>2, <3>1, <3>2
  <2>3. QED
    BY <2>1, <2>2 DEF Iterates
<1> DEFINE none == <<>>  D == Seq(E)
<1>7. Folds(D, E, F, none) /\ Iterates(D, F, none, seq, iter)
  BY <1>2, <1>6 DEF Folds
<1> HIDE DEF none, D
<1>8. FoldedBy(D, F, none, seq) = iter[1 .. Len(seq)]
  BY <1>7, IteratedIsFolded
<1>9. QED
  BY <1>4, <1>8 DEF F, none, D

LEMMA SetOfMore ==
    ASSUME NEW E, NEW s \in Seq(E), NEW e \in E
    PROVE  Append(s, e) \in Seq(E) /\ ToSet(Append(s, e)) = ToSet(s) \cup {e}
<1>1. /\ Append(s, e) \in Seq(E) /\ Len(Append(s, e)) = Len(s) + 1 /\ Len(s) \in Nat
      /\ \A i \in 1 .. Len(s) : Append(s, e)[i] = s[i]
      /\ Append(s, e)[Len(s) + 1] = e
  BY AppendProperties
<1>2. DOMAIN Append(s, e) = 1 .. Len(s) + 1 /\ DOMAIN s = 1 .. Len(s)
  BY <1>1
<1>3. 1 .. Len(s) + 1 = (1 .. Len(s)) \cup {Len(s) + 1}
  BY <1>1
<1>4. QED
  BY <1>1, <1>2, <1>3 DEF ToSet

LEMMA ThoseOfNone ==
    ASSUME NEW keep
    PROVE  Those(<<>>, keep) = <<>>
<1>1. <<>> \in Seq({})
  OBVIOUS
<1>2. Those(<<>>, keep) = FoldedBy(Seq({}), KeptIn({}, keep), <<>>, <<>>)
  BY <1>1, ThoseFolded
<1>3. Folds(Seq({}), {}, KeptIn({}, keep), <<>>)
  BY KeptStays DEF Folds
<1>4. QED
  BY <1>2, <1>3, FoldedOfNone

LEMMA ThoseOfMore ==
    ASSUME NEW E, NEW seq \in Seq(E), NEW e \in E, NEW keep
    PROVE  Those(Append(seq, e), keep) = Kept(keep, Those(seq, keep), e)
<1> DEFINE F == KeptIn(E, keep)  more == Append(seq, e)
<1>1. /\ Stays(F, Seq(E), E) /\ <<>> \in Seq(E)
      /\ \A a \in Seq(E), x \in E : F[a, x] = Kept(keep, a, x)
  BY KeptStays
<1>2. more \in Seq(E)
  OBVIOUS
<1> HIDE DEF more
<1>3. /\ Those(seq, keep) = FoldedBy(Seq(E), F, <<>>, seq)
      /\ Those(more, keep) = FoldedBy(Seq(E), F, <<>>, more)
  BY <1>2, ThoseFolded
<1> HIDE DEF F
<1> DEFINE none == <<>>  D == Seq(E)
<1>4. Folds(D, E, F, none)
  BY <1>1 DEF Folds
<1>6. Extends(E, seq, e, more)
  BY AppendExtends DEF more
<1> HIDE DEF none, D
<1>7. OneStep(D, F, none, seq, e, more)
  BY <1>4, <1>6, FoldedOfMore
<1>8. FoldedBy(D, F, none, seq) \in D /\ FoldedBy(D, F, none, more) = F[FoldedBy(D, F, none, seq), e]
  BY <1>7 DEF OneStep
<1>9. QED
  BY <1>1, <1>3, <1>8 DEF more, none, D

\* They are elements of the sequence and of the set, and all that are both.
LEMMA ThoseAre ==
    ASSUME NEW E, NEW seq \in Seq(E), NEW keep
    PROVE  Those(seq, keep) \in Seq(E) /\ ToSet(Those(seq, keep)) = ToSet(seq) \cap keep
<1> DEFINE P == {s \in Seq(E) : /\ Those(s, keep) \in Seq(E)
                                /\ ToSet(Those(s, keep)) = ToSet(s) \cap keep}
<1>0. <<>> \in Seq(E) /\ ToSet(<<>>) = {}
  BY DEF ToSet
<1>1. <<>> \in P
  BY <1>0, ThoseOfNone
<1>2. ASSUME NEW s \in Seq(E), NEW e \in E, s \in P PROVE Append(s, e) \in P
  <2>1. Append(s, e) \in Seq(E) /\ ToSet(Append(s, e)) = ToSet(s) \cup {e}
    BY SetOfMore
  <2>2. Those(Append(s, e), keep) = Kept(keep, Those(s, keep), e)
    BY ThoseOfMore
  <2>3. Those(s, keep) \in Seq(E) /\ ToSet(Those(s, keep)) = ToSet(s) \cap keep
    BY <1>2
  <2>4. CASE e \in keep
    <3>1. Those(Append(s, e), keep) = Append(Those(s, keep), e)
      BY <2>2, <2>4 DEF Kept
    <3>2. ToSet(Append(Those(s, keep), e)) = ToSet(Those(s, keep)) \cup {e}
          /\ Append(Those(s, keep), e) \in Seq(E)
      BY <2>3, SetOfMore
    <3>3. QED
      BY <2>1, <2>3, <2>4, <3>1, <3>2
  <2>5. CASE e \notin keep
    BY <2>1, <2>2, <2>3, <2>5 DEF Kept
  <2>6. QED
    BY <2>4, <2>5
<1>3. seq \in P
  <2> HIDE DEF P
  <2>1. QED
    BY <1>1, <1>2, EverySequence
<1>4. QED
  BY <1>3

\* Which they are depends on what of the sequence lies in the set.
LEMMA ThoseAgree ==
    ASSUME NEW E, NEW seq \in Seq(E), NEW keep, NEW other,
           ToSet(seq) \cap keep = ToSet(seq) \cap other
    PROVE  Those(seq, keep) = Those(seq, other)
<1> DEFINE Agree(s) == ToSet(s) \cap keep = ToSet(s) \cap other
           P == {s \in Seq(E) : Agree(s) => Those(s, keep) = Those(s, other)}
<1>1. <<>> \in P
  <2>1. <<>> \in Seq(E)
    OBVIOUS
  <2>2. QED
    BY <2>1, ThoseOfNone
<1>2. ASSUME NEW s \in Seq(E), NEW e \in E, s \in P PROVE Append(s, e) \in P
  <2>1. Append(s, e) \in Seq(E) /\ ToSet(Append(s, e)) = ToSet(s) \cup {e}
    BY SetOfMore
  <2>2. SUFFICES ASSUME Agree(Append(s, e))
                 PROVE  Those(Append(s, e), keep) = Those(Append(s, e), other)
    BY <2>1
  <2>3. Agree(s) /\ (e \in keep <=> e \in other)
    BY <2>1, <2>2
  <2>4. Those(s, keep) = Those(s, other)
    BY <1>2, <2>3
  <2>5. /\ Those(Append(s, e), keep) = Kept(keep, Those(s, keep), e)
        /\ Those(Append(s, e), other) = Kept(other, Those(s, other), e)
    BY ThoseOfMore
  <2>6. QED
    BY <2>3, <2>4, <2>5 DEF Kept
<1>3. seq \in P
  <2> HIDE DEF P
  <2>1. QED
    BY <1>1, <1>2, EverySequence
<1>4. QED
  BY <1>3

\* Of those in one set, those in another.
LEMMA ThoseOfThose ==
    ASSUME NEW E, NEW seq \in Seq(E), NEW keep, NEW also
    PROVE  Those(Those(seq, keep), also) = Those(seq, keep \cap also)
<1> DEFINE P == {s \in Seq(E) : Those(Those(s, keep), also) = Those(s, keep \cap also)}
<1>1. <<>> \in P
  <2>1. <<>> \in Seq(E)
    OBVIOUS
  <2>2. QED
    BY <2>1, ThoseOfNone
<1>2. ASSUME NEW s \in Seq(E), NEW e \in E, s \in P PROVE Append(s, e) \in P
  <2>1. Append(s, e) \in Seq(E)
    OBVIOUS
  <2>2. Those(s, keep) \in Seq(E) /\ Those(Those(s, keep), also) = Those(s, keep \cap also)
    BY <1>2, ThoseAre
  <2>3. /\ Those(Append(s, e), keep) = Kept(keep, Those(s, keep), e)
        /\ Those(Append(s, e), keep \cap also) = Kept(keep \cap also, Those(s, keep \cap also), e)
        /\ Those(Append(Those(s, keep), e), also) = Kept(also, Those(Those(s, keep), also), e)
    BY <2>2, ThoseOfMore
  <2>4. Those(Those(Append(s, e), keep), also) = Those(Append(s, e), keep \cap also)
    <3>1. CASE e \in keep
      <4>1. e \in keep \cap also <=> e \in also
        BY <3>1
      <4>2. QED
        BY <2>2, <2>3, <3>1, <4>1, Zenon DEF Kept
    <3>2. CASE e \notin keep
      <4>1. e \notin keep \cap also
        BY <3>2
      <4>2. QED
        BY <2>2, <2>3, <3>2, <4>1, Zenon DEF Kept
    <3>3. QED
      BY <3>1, <3>2
  <2>5. QED
    BY <2>1, <2>4
<1>3. seq \in P
  <2> HIDE DEF P
  <2>1. QED
    BY <1>1, <1>2, EverySequence
<1>4. QED
  BY <1>3

---------------------------------------------------------------------------
(* The two faces of an index.                                              *)

FlatOf(rows, n, h) == h = [i \in 1 .. n |-> IF i = 1 THEN rows[i] ELSE h[i - 1] \o rows[i]]

\* A sequence of sequences has a flat one, step by step.
LEMMA FlatIsThere ==
    ASSUME NEW rows, NEW n \in Nat
    PROVE  \E h : FlatOf(rows, n, h)
<1> DEFINE Flat(k, h) == FlatOf(rows, k, h)
           all == {k \in Nat : \E h : Flat(k, h)}
<1>1. 0 \in all
  <2> DEFINE g == [i \in 1 .. 0 |-> rows[i]]
  <2>1. \A i \in 1 .. 0 : FALSE
    OBVIOUS
  <2>2. Flat(0, g)
    BY <2>1 DEF FlatOf
  <2>3. QED
    BY <2>2
<1>2. ASSUME NEW k \in Nat, k \in all PROVE k + 1 \in all
  <2>1. PICK h : Flat(k, h)
    BY <1>2
  <2> DEFINE g == [i \in 1 .. k + 1 |->
                     IF i = k + 1 THEN (IF i = 1 THEN rows[i] ELSE h[k] \o rows[i]) ELSE h[i]]
  <2>2. ASSUME NEW i \in 1 .. k + 1
        PROVE  g[i] = IF i = 1 THEN rows[i] ELSE g[i - 1] \o rows[i]
    <3>1. CASE i = k + 1
      <4>1. i # 1 => i - 1 = k /\ k \in 1 .. k + 1 /\ k # k + 1
        BY <3>1
      <4>2. i # 1 => g[i - 1] = h[k]
        BY <4>1
      <4>3. g[i] = IF i = 1 THEN rows[i] ELSE h[k] \o rows[i]
        BY <3>1
      <4> HIDE DEF g
      <4>4. QED
        BY <4>2, <4>3
    <3>2. CASE i # k + 1
      <4>1. i \in 1 .. k /\ (i # 1 => i - 1 \in 1 .. k + 1 /\ i - 1 # k + 1)
        BY <3>2
      <4>2. g[i] = h[i] /\ (i # 1 => g[i - 1] = h[i - 1])
        BY <3>2, <4>1
      <4>3. h[i] = IF i = 1 THEN rows[i] ELSE h[i - 1] \o rows[i]
        BY <2>1, <4>1 DEF FlatOf
      <4> HIDE DEF g
      <4>4. QED
        BY <4>2, <4>3
    <3>3. QED
      BY <3>1, <3>2
  <2>3. g = [i \in 1 .. k + 1 |-> g[i]]
    OBVIOUS
  <2> HIDE DEF g
  <2>4. Flat(k + 1, g)
    BY <2>2, <2>3 DEF FlatOf
  <2> HIDE DEF Flat
  <2>5. QED
    BY <2>4
<1> HIDE DEF Flat
<1>3. n \in all
  <2> HIDE DEF all
  <2>1. QED
    BY <1>1, <1>2, EveryNumber
<1>4. QED
  BY <1>3 DEF Flat

LEMMA FlattenIsSeq ==
    ASSUME NEW E, NEW rows \in Seq(Seq(E))
    PROVE  FlattenSeq(rows) \in Seq(E)
<1> DEFINE n == Len(rows)
           Flat(h) == FlatOf(rows, n, h)
           flat == CHOOSE h : Flat(h)
<1>1. n \in Nat /\ \A i \in 1 .. n : rows[i] \in Seq(E)
  OBVIOUS
<1>2. CASE n = 0
  <2>1. rows = <<>>
    BY <1>2
  <2>2. QED
    BY <2>1 DEF FlattenSeq
<1>3. CASE n # 0
  <2>1. FlattenSeq(rows) = flat[n]
    BY <1>3 DEF FlattenSeq, FlatOf
  <2>2. \E h : Flat(h)
    BY <1>1, FlatIsThere
  <2>3. Flat(flat)
    <3> HIDE DEF Flat
    <3>1. QED
      BY <2>2
  <2> HIDE DEF flat
  <2> DEFINE all == {k \in Nat : k + 1 <= n => flat[k + 1] \in Seq(E)}
  <2>4. 0 \in all
    <3>1. 1 \in 1 .. n
      BY <1>1, <1>3
    <3>2. flat[1] = rows[1]
      BY <2>3, <3>1 DEF FlatOf
    <3>3. QED
      BY <1>1, <3>1, <3>2
  <2>5. ASSUME NEW k \in Nat, k \in all PROVE k + 1 \in all
    <3>1. SUFFICES ASSUME k + 1 + 1 <= n PROVE flat[k + 1 + 1] \in Seq(E)
      OBVIOUS
    <3>2. k + 1 + 1 \in 1 .. n /\ k + 1 + 1 # 1 /\ k + 1 + 1 - 1 = k + 1 /\ k + 1 <= n
      BY <1>1, <3>1
    <3> DEFINE m == k + 1 + 1
    <3>3. flat[m] = flat[k + 1] \o rows[m]
      <4>1. \A i \in 1 .. n : i # 1 => flat[i] = flat[i - 1] \o rows[i]
        BY <2>3 DEF FlatOf
      <4>2. m \in 1 .. n /\ m # 1 /\ m - 1 = k + 1
        BY <3>2
      <4> HIDE DEF n, m
      <4>3. flat[m] = flat[m - 1] \o rows[m]
        BY <4>1, <4>2
      <4>4. QED
        BY <4>2, <4>3
    <3>4. flat[k + 1] \in Seq(E) /\ rows[k + 1 + 1] \in Seq(E)
      BY <1>1, <2>5, <3>2
    <3>5. QED
      BY <3>3, <3>4
  <2>6. n - 1 \in all
    <3>1. n - 1 \in Nat
      BY <1>1, <1>3
    <3> HIDE DEF all, n
    <3>2. QED
      BY <2>4, <2>5, <3>1, EveryNumber
  <2>7. n - 1 + 1 = n
    BY <1>1
  <2>8. QED
    BY <1>1, <1>3, <2>1, <2>6, <2>7
<1>4. QED
  BY <1>2, <1>3

\* The rows of a scan are a sequence of the rows there are.
LEMMA ScanIsSeq ==
    ASSUME NEW index, IsIndex(index)
    PROVE  \E E : Scan(index) \in Seq(E)
<1> DEFINE Row(i, j) == index[i].occs[j] @@ [path |-> index[i].path, lang |-> index[i].lang]
           Rows(i) == [j \in DOMAIN index[i].occs |-> Row(i, j)]
           E == {Row(i, j) : i \in DOMAIN index, j \in Nat}
           rows == [i \in DOMAIN index |-> Rows(i)]
<1>1. /\ Len(index) \in Nat /\ DOMAIN index = 1 .. Len(index)
      /\ \A i \in DOMAIN index : Len(index[i].occs) \in Nat /\ DOMAIN index[i].occs = 1 .. Len(index[i].occs)
  BY DEF IsIndex
<1>2. \A i \in DOMAIN index : \A j \in DOMAIN index[i].occs : Row(i, j) \in E
  <2>1. TAKE i \in DOMAIN index
  <2>2. TAKE j \in DOMAIN index[i].occs
  <2>3. Len(index[i].occs) \in Nat /\ DOMAIN index[i].occs = 1 .. Len(index[i].occs)
    BY <1>1
  <2>4. j \in Nat
    BY <2>3
  <2> HIDE DEF Row
  <2>5. QED
    BY <2>4
<1>3. Scan(index) = FlattenSeq(rows)
  BY DEF Scan
<1> HIDE DEF Row, E
<1>4. \A i \in DOMAIN index : Rows(i) \in Seq(E)
  BY <1>1, <1>2
<1> HIDE DEF Rows
<1>5. rows \in Seq(Seq(E))
  BY <1>1, <1>4
<1> HIDE DEF rows
<1>6. QED
  BY <1>3, <1>5, FlattenIsSeq

\* The rows of a scan a query asks for, and those the cache keeps.
Wanted(rows, q) == {o \in ToSet(rows) : o.def /\ MatchesQuery(o.sym, o.lang, q)}
Tails(rows) == {o.sym : o \in {r \in ToSet(rows) : IngestSymbol(r.sym, r.lang)}}
Stored(rows) == {o \in ToSet(rows) : o.sym \in Tails(rows)}

\* Every row of a symbol that one row of it answers for is stored, and answers
\* as well if it defines it.
LEMMA WantedStored ==
    ASSUME NEW index, IsIndex(index), NEW q, NEW o \in Wanted(Scan(index), q)
    PROVE  /\ o.sym \in Tails(Scan(index)) /\ o.sym.name = q.name
           /\ \A p \in ToSet(Scan(index)) : p.sym = o.sym =>
                /\ p \in Stored(Scan(index))
                /\ p.def => p \in Wanted(Scan(index), q)
<1>1. o \in ToSet(Scan(index)) /\ o.def /\ MatchesQuery(o.sym, o.lang, q)
  BY DEF Wanted
<1>2. IngestSymbol(o.sym, o.lang) /\ o.sym.name = q.name
  BY <1>1 DEF MatchesQuery, IngestSymbol, ClassArmMatches
<1>3. o.sym \in Tails(Scan(index))
  BY <1>1, <1>2 DEF Tails
<1>4. ASSUME NEW p \in ToSet(Scan(index)), p.sym = o.sym, p.def
      PROVE  MatchesQuery(p.sym, p.lang, q)
  <2>1. o.sym.kind = "class" => p.lang = o.lang
    BY <1>1, <1>4 DEF IsIndex
  <2>2. QED
    BY <1>1, <1>4, <2>1 DEF MatchesQuery, ClassArmMatches
<1>5. QED
  BY <1>2, <1>3, <1>4 DEF Stored, Wanted

LEMMA DbIs ==
    ASSUME NEW index
    PROVE  /\ BuildDb(index).tails = Tails(Scan(index))
           /\ BuildDb(index).occs = Those(Scan(index), Stored(Scan(index)))
  BY DEF BuildDb, Tails, Stored

\* The definitions: the same symbols, the same places of each.
LEMMA DefsAgree ==
    ASSUME NEW index, IsIndex(index), NEW q
    PROVE  SqliteDefs(BuildDb(index), q) = FindDefs(index, q)
<1> DEFINE sc == Scan(index)  W == Wanted(sc, q)  T == Tails(sc)  K == Stored(sc)
           hits == Those(sc, W)  occs == Those(sc, K)  db == BuildDb(index)
           Hits(s) == Those(hits, DefsOf(hits, {s}))
           Rows(s) == Those(occs, DefsOf(occs, {s}))
           found == {s \in T : /\ s.name = q.name
                               /\ \E i \in DOMAIN Rows(s) : MatchesQuery(s, Rows(s)[i].lang, q)}
<1>1. PICK E : sc \in Seq(E)
  BY ScanIsSeq
<1>2. SqliteDefs(db, q) = [s \in found |-> Locs(Rows(s))]
  BY DbIs DEF SqliteDefs
<1>3. FindDefs(index, q) = [s \in SymbolsOf(hits) |-> Locs(Hits(s))]
  BY DEF FindDefs, Wanted
<1> DEFINE syms == SymbolsOf(hits)
<1>4. W \subseteq ToSet(sc) /\ K \subseteq ToSet(sc)
  BY DEF Wanted, Stored
<1>5. \A o \in W : /\ o.sym \in T /\ o.sym.name = q.name
                   /\ \A p \in ToSet(sc) : p.sym = o.sym => p \in K /\ (p.def => p \in W)
  BY WantedStored
<1>6. \A o \in W : o.def /\ MatchesQuery(o.sym, o.lang, q)
  BY DEF Wanted
<1>7. \A o \in ToSet(sc) : o.def /\ MatchesQuery(o.sym, o.lang, q) => o \in W
  BY DEF Wanted
<1> HIDE DEF sc, W, T, K, db
<1>8. hits \in Seq(E) /\ occs \in Seq(E) /\ ToSet(hits) = W /\ ToSet(occs) = K
  <2>1. \A k : Those(sc, k) \in Seq(E) /\ ToSet(Those(sc, k)) = ToSet(sc) \cap k
    BY <1>1, ThoseAre
  <2>2. QED
    BY <1>4, <2>1
<1>9. \A s : Hits(s) = Those(sc, W \cap DefsOf(hits, {s})) /\ Rows(s) = Those(sc, K \cap DefsOf(occs, {s}))
  <2>1. \A k, l : Those(Those(sc, k), l) = Those(sc, k \cap l)
    BY <1>1, ThoseOfThose
  <2>2. QED
    BY <2>1
<1>10. \A s : ToSet(Rows(s)) = {o \in K : o.def /\ o.sym = s} /\ Rows(s) \in Seq(E)
  <2>1. TAKE s
  <2>2. DefsOf(occs, {s}) = {o \in K : o.def /\ o.sym = s}
    BY <1>8 DEF DefsOf
  <2> HIDE DEF occs
  <2>3. \A k : Those(occs, k) \in Seq(E) /\ ToSet(Those(occs, k)) = ToSet(occs) \cap k
    BY <1>8, ThoseAre
  <2>4. QED
    BY <1>8, <2>2, <2>3
<1>11. \A s : syms = {o.sym : o \in W} /\ DefsOf(hits, {s}) = {o \in W : o.def /\ o.sym = s}
              /\ DefsOf(occs, {s}) = {o \in K : o.def /\ o.sym = s}
  BY <1>8 DEF SymbolsOf, DefsOf
<1> HIDE DEF hits, occs, syms
<1>12. ASSUME NEW s \in syms PROVE Hits(s) = Rows(s)
  <2>1. PICK o \in W : o.sym = s
    BY <1>11
  <2>2. ToSet(sc) \cap (W \cap DefsOf(hits, {s})) = ToSet(sc) \cap (K \cap DefsOf(occs, {s}))
    BY <1>4, <1>5, <1>11, <2>1
  <2>3. Those(sc, W \cap DefsOf(hits, {s})) = Those(sc, K \cap DefsOf(occs, {s}))
    BY <1>1, <2>2, ThoseAgree
  <2>4. QED
    BY <1>9, <2>3
<1>13. found = syms
  <2>1. ASSUME NEW s \in found PROVE s \in syms
    <3>1. PICK i \in DOMAIN Rows(s) : MatchesQuery(s, Rows(s)[i].lang, q)
      BY <2>1
    <3>2. Rows(s)[i] \in ToSet(Rows(s))
      BY DEF ToSet
    <3>3. Rows(s)[i] \in K /\ Rows(s)[i].def /\ Rows(s)[i].sym = s
      BY <1>10, <3>2
    <3>4. Rows(s)[i] \in W
      BY <1>4, <1>7, <3>1, <3>3
    <3>5. QED
      BY <1>11, <3>3, <3>4
  <2>2. ASSUME NEW s \in syms PROVE s \in found
    <3>1. PICK o \in W : o.sym = s
      BY <1>11
    <3>2. o \in ToSet(Rows(s))
      BY <1>4, <1>5, <1>6, <1>10, <3>1
    <3>3. PICK i \in DOMAIN Rows(s) : o = Rows(s)[i]
      BY <3>2 DEF ToSet
    <3>4. s \in T /\ s.name = q.name /\ MatchesQuery(s, Rows(s)[i].lang, q)
      BY <1>5, <1>6, <3>1, <3>3
    <3>5. QED
      BY <3>4
  <2>3. QED
    BY <2>1, <2>2
<1> HIDE DEF Hits, Rows, found
<1>14. QED
  BY <1>2, <1>3, <1>12, <1>13 DEF syms, db

\* The references: every one to a symbol that is answered for is stored.
LEMMA RefsAgree ==
    ASSUME NEW index, IsIndex(index), NEW syms, syms \subseteq Tails(Scan(index))
    PROVE  /\ SqliteRefs(BuildDb(index), syms) = FindRefs(index, syms)
           /\ SqliteRefsRows(BuildDb(index), syms) = RefsRows(index, syms)
<1> DEFINE sc == Scan(index)  K == Stored(sc)  occs == Those(sc, K)  db == BuildDb(index)
<1>1. PICK E : sc \in Seq(E)
  BY ScanIsSeq
<1>2. \A o \in ToSet(sc) : o.sym \in syms => o \in K
  BY DEF Stored
<1>3. db.occs = occs /\ K \subseteq ToSet(sc)
  BY DbIs DEF Stored
<1>4. /\ SqliteRefs(db, syms) = [s \in syms |-> Locs(Those(db.occs, RefsTo(db.occs, {s})))]
      /\ SqliteRefsRows(db, syms) = Those(db.occs, RefsTo(db.occs, syms))
      /\ FindRefs(index, syms) = [s \in syms |-> Locs(Those(sc, RefsTo(sc, {s})))]
      /\ RefsRows(index, syms) = Those(sc, RefsTo(sc, syms))
  BY DEF SqliteRefs, SqliteRefsRows, FindRefs, RefsRows
<1> HIDE DEF sc, K, db
<1>5. \A k : Those(occs, k) = Those(sc, K \cap k)
  BY <1>1, ThoseOfThose
<1>6. ToSet(occs) = K
  <2>1. ToSet(occs) = ToSet(sc) \cap K
    BY <1>1, ThoseAre
  <2>2. QED
    BY <1>3, <2>1
<1> HIDE DEF occs
<1>7. ASSUME NEW some \in SUBSET syms PROVE Those(occs, RefsTo(occs, some)) = Those(sc, RefsTo(sc, some))
  <2>1. ToSet(sc) \cap (K \cap RefsTo(occs, some)) = ToSet(sc) \cap RefsTo(sc, some)
    BY <1>2, <1>3, <1>6 DEF RefsTo
  <2>2. Those(sc, K \cap RefsTo(occs, some)) = Those(sc, RefsTo(sc, some))
    BY <1>1, <2>1, ThoseAgree
  <2>3. QED
    BY <1>5, <2>2
<1>8. \A s \in syms : {s} \in SUBSET syms
  OBVIOUS
<1>9. QED
  BY <1>3, <1>4, <1>7, <1>8 DEF sc, db

\* The audit's targets: a function that is asked for by its name is stored.
LEMMA TargetsAgree ==
    ASSUME NEW index, IsIndex(index), NEW asked, None \notin DOMAIN asked
    PROVE  SameTargets(index, BuildDb(index), asked)
<1> DEFINE sc == Scan(index)  K == Stored(sc)  occs == Those(sc, K)  db == BuildDb(index)
           N == {o \in ToSet(occs) : o.sym.name \in DOMAIN asked}  named == Those(occs, N)
           Wants(o) == /\ o.def /\ FnTailName(o.sym) \in DOMAIN asked
                       /\ o.path \in asked[FnTailName(o.sym)]
           Named(rows) == {o \in ToSet(rows) : Wants(o)}
           LastOf(mine, s) == <<mine[Len(mine)].path, s.name>>
           By(hits) == [s \in SymbolsOf(hits) |-> LastOf(Those(hits, DefsOf(hits, {s})), s)]
<1>1. PICK E : sc \in Seq(E)
  BY ScanIsSeq
<1>2. K \subseteq ToSet(sc)
  BY DEF Stored
<1>3. ASSUME NEW o \in ToSet(sc), FnTailName(o.sym) \in DOMAIN asked
      PROVE  o \in K /\ o.sym.name \in DOMAIN asked
  <2>1. o.sym.kind = "fn" /\ FnTailName(o.sym) = o.sym.name
    BY <1>3 DEF FnTailName
  <2>2. QED
    BY <1>3, <2>1 DEF Stored, Tails, IngestSymbol
<1>4. SqliteTargets(db, asked) = By(Those(named, Named(named)))
  BY DbIs DEF SqliteTargets, Targets
<1>5. Targets(sc, asked) = By(Those(sc, Named(sc)))
  BY DEF Targets
<1> HIDE DEF sc, K, By, Wants
<1>6. ToSet(occs) = K /\ occs \in Seq(E)
  <2>1. ToSet(occs) = ToSet(sc) \cap K /\ occs \in Seq(E)
    BY <1>1, ThoseAre
  <2>2. QED
    BY <1>2, <2>1
<1>7. ToSet(named) = N
  <2>1. \A k : ToSet(Those(occs, k)) = ToSet(occs) \cap k
    <3> HIDE DEF occs
    <3>1. QED
      BY <1>6, ThoseAre
  <2>2. N \subseteq ToSet(occs)
    OBVIOUS
  <2>3. QED
    BY <2>1, <2>2
<1>8. Those(named, Named(named)) = Those(sc, K \cap (N \cap Named(named)))
  <2>1. \A k, l : Those(Those(occs, k), l) = Those(occs, k \cap l)
    <3> HIDE DEF occs
    <3>1. QED
      BY <1>6, ThoseOfThose
  <2>2. \A k : Those(occs, k) = Those(sc, K \cap k)
    BY <1>1, ThoseOfThose
  <2> DEFINE more == Named(named)
  <2>3. Those(named, more) = Those(occs, N \cap more)
    <3> HIDE DEF occs, N, more
    <3>1. QED
      BY <2>1
  <2>4. Those(occs, N \cap more) = Those(sc, K \cap (N \cap more))
    <3> HIDE DEF N, more
    <3>1. QED
      BY <2>2
  <2>5. QED
    BY <2>3, <2>4
<1>9. ToSet(sc) \cap (K \cap (N \cap Named(named))) = ToSet(sc) \cap Named(sc)
  <2>1. \A o \in ToSet(sc) : Wants(o) => o \in K /\ o.sym.name \in DOMAIN asked
    BY <1>3 DEF Wants
  <2> HIDE DEF occs, named
  <2>2. QED
    BY <1>2, <1>6, <1>7, <2>1
<1> HIDE DEF named, Named
<1>10. Those(named, Named(named)) = Those(sc, Named(sc))
  <2> HIDE DEF N
  <2>1. Those(sc, K \cap (N \cap Named(named))) = Those(sc, Named(sc))
    BY <1>1, <1>9, ThoseAgree
  <2>2. QED
    BY <1>8, <2>1
<1>11. QED
  BY <1>4, <1>5, <1>10 DEF SameTargets, sc, db

\* The two faces answer alike, whatever is asked of them.
THEOREM FacesAnswerAlike ==
    ASSUME NEW index, IsIndex(index), NEW q
    PROVE  SameAnswers(index, BuildDb(index), q)
<1> DEFINE defs == FindDefs(index, q)
<1>1. DOMAIN defs \subseteq Tails(Scan(index))
  <2>1. DOMAIN SqliteDefs(BuildDb(index), q) \subseteq BuildDb(index).tails
    BY DEF SqliteDefs
  <2>2. QED
    BY <2>1, DefsAgree, DbIs
<1>2. SqliteDefs(BuildDb(index), q) = defs
  BY DefsAgree
<1> HIDE DEF defs
<1>3. QED
  BY <1>1, <1>2, RefsAgree DEF SameAnswers, defs

---------------------------------------------------------------------------
(* The difference of two snapshots.                                        *)

LEMMA ExportMeans ==
    ASSUME NEW g, NEW profile
    PROVE  /\ \A p, q : p # q => \A k \in Structural :
                <<p, q, k>> \in ExportModuleEdges(g, profile).edges <=> k \in Kinds(g, profile, p, q)
           /\ ExportModuleEdges(g, profile).files = Participants(g, profile)
<1> DEFINE Inside(s) == Rel(g, s) # None /\ ~IsExcluded(profile, Rel(g, s))
           kept == {e \in g.edges : Inside(e.from) /\ Inside(e.to)}
           Mod(s) == ModuleOf(profile, Rel(g, s))
           between == {x \in kept : x.kind \in Structural /\ Mod(x.from) # Mod(x.to)}
           edges == {<<Mod(e.from), Mod(e.to), e.kind>> : e \in between}
<1>1. ExportModuleEdges(g, profile).edges = edges
  BY DEF ExportModuleEdges
<1>2. ExportModuleEdges(g, profile).files = UNION {{Rel(g, e.from), Rel(g, e.to)} : e \in kept}
  BY DEF ExportModuleEdges
<1>3. ASSUME NEW p, NEW q, p # q, NEW k \in Structural
      PROVE  <<p, q, k>> \in edges <=> k \in Kinds(g, profile, p, q)
  <2>1. <<p, q, k>> \in edges <=>
          \E e \in kept : e.kind = k /\ Mod(e.from) = p /\ Mod(e.to) = q
    <3>1. ASSUME <<p, q, k>> \in edges
          PROVE  \E e \in kept : e.kind = k /\ Mod(e.from) = p /\ Mod(e.to) = q
      <4> HIDE DEF Mod, Inside
      <4>1. PICK e \in between : <<p, q, k>> = <<Mod(e.from), Mod(e.to), e.kind>>
        BY <3>1
      <4>2. e \in kept /\ e.kind = k /\ Mod(e.from) = p /\ Mod(e.to) = q
        BY <4>1
      <4>3. QED
        BY <4>2
    <3>2. ASSUME NEW e \in kept, e.kind = k, Mod(e.from) = p, Mod(e.to) = q
          PROVE  <<p, q, k>> \in edges
      <4> HIDE DEF Mod, Inside
      <4>1. e \in between
        BY <1>3, <3>2
      <4>2. QED
        BY <3>2, <4>1
    <3> HIDE DEF edges, kept, Mod
    <3>3. QED
      BY <3>1, <3>2
  <2>2. k \in Kinds(g, profile, p, q) <=>
          \E e \in g.edges : e.kind = k /\ Inside(e.from) /\ Inside(e.to) /\ Mod(e.from) = p /\ Mod(e.to) = q
    BY DEF Kinds, Lies
  <2> HIDE DEF Mod, Inside, edges
  <2>3. QED
    BY <2>1, <2>2
<1>4. kept = {y \in g.edges : \A s \in {y.from, y.to} : Rel(g, s) # None /\ ~IsExcluded(profile, Rel(g, s))}
  <2>1. \A y : (\A s \in {y.from, y.to} : Inside(s)) <=> Inside(y.from) /\ Inside(y.to)
    OBVIOUS
  <2>2. QED
    BY <2>1
<1> HIDE DEF edges, kept
<1>5. QED
  BY <1>1, <1>2, <1>3, <1>4 DEF Participants

\* The difference of two exports by one profile is the difference of the code.
LEMMA ExportsDiffer ==
    ASSUME NEW was, NEW is, NEW profile, NEW a, NEW b,
           a.edges = ExportModuleEdges(was, profile).edges, a.files = ExportModuleEdges(was, profile).files,
           b.edges = ExportModuleEdges(is, profile).edges, b.files = ExportModuleEdges(is, profile).files
    PROVE  Differ(was, is, profile, Summarize(a, b))
<1> DEFINE s == Summarize(a, b)
           Had(p, q) == Kinds(was, profile, p, q)
           Has(p, q) == Kinds(is, profile, p, q)
<1>1. /\ s.added = b.edges \ a.edges /\ s.removed = a.edges \ b.edges
      /\ s.reversed = Reversed(s.added, s.removed)
      /\ s.new = b.files \ a.files /\ s.gone = a.files \ b.files
  BY DEF Summarize
<1>2. \A p, q : p # q => \A k \in Structural :
        /\ <<p, q, k>> \in a.edges <=> k \in Had(p, q)
        /\ <<p, q, k>> \in b.edges <=> k \in Has(p, q)
  BY ExportMeans
<1>3. a.files = Participants(was, profile) /\ b.files = Participants(is, profile)
  BY ExportMeans
<1>4. \A p, q : Had(p, q) \subseteq Structural /\ Has(p, q) \subseteq Structural
  BY DEF Kinds
<1> HIDE DEF s, Had, Has
<1>5. \A p, q : p # q => \A k \in Structural :
        /\ <<p, q, k>> \in s.added <=> k \in Has(p, q) \ Had(p, q)
        /\ <<p, q, k>> \in s.removed <=> k \in Had(p, q) \ Has(p, q)
  BY <1>1, <1>2
<1>6. ASSUME NEW p, NEW q, p # q, Had(q, p) # {}, Has(q, p) = {}, Had(p, q) = {}, Has(p, q) # {}
      PROVE  <<p, q>> \in s.reversed
  <2>1. PICK k \in Structural : <<p, q, k>> \in s.added
    BY <1>4, <1>5, <1>6
  <2>2. PICK l \in Structural : <<q, p, l>> \in s.removed
    BY <1>4, <1>5, <1>6
  <2>3. <<p, q>> \in Pairs(s.added) /\ <<q, p>> \in Pairs(s.removed)
    BY <2>1, <2>2 DEF Pairs
  <2>4. <<p, q>>[1] = p /\ <<p, q>>[2] = q
    OBVIOUS
  <2>5. QED
    BY <1>1, <2>3, <2>4 DEF Reversed
<1>7. QED
  BY <1>1, <1>3, <1>5, <1>6 DEF Differ, s, Had, Has

\* The snapshots of a history: what they hold of its graphs.
LEMMA SnapshotHolds ==
    ASSUME NEW x, IsHistory(x), NEW told \in DOMAIN x.graphs, NEW read, NEW head, NEW profile
    PROVE  LET got == TakenAt(x, told, read, head, profile) IN
           /\ got.commit = head /\ got.stale = (told # head) /\ got.face = "all-kinds"
           /\ got.generation = x.graphs[told].updated
           /\ got.edges = ExportModuleEdges(x.graphs[read], profile).edges
           /\ got.files = ExportModuleEdges(x.graphs[read], profile).files
<1>1. x.graphs[told].sha = told /\ told # None
  BY DEF IsHistory
<1>2. DetectStale(x.graphs[told], [sha |-> head, time |-> x.times[head]]) = (told # head)
  BY <1>1 DEF DetectStale
<1>3. QED
  BY <1>1, <1>2 DEF TakenAt, BuildSnapshot

\* Whatever the history: what two snapshots differ in is warned of, or is what
\* the code of their commits differs in.
THEOREM DifferenceExplained ==
    ASSUME NEW x, IsHistory(x)
    PROVE  Explained(x)
<1> DEFINE first == TakenAt(x, x.first[1], x.first[2], x.first[3], x.profiles[1])
           a == Before(x)  b == Since(x)  s == Summarize(a, b)
<1>1. /\ x.first[1] \in DOMAIN x.graphs /\ x.first[2] \in DOMAIN x.graphs /\ x.then[1] \in DOMAIN x.graphs
      /\ \A m, n \in DOMAIN x.graphs : x.graphs[m].updated = x.graphs[n].updated => m = n
      /\ \A n \in DOMAIN x.graphs : x.graphs[n].updated # None
  BY DEF IsHistory
<1>2. /\ first.commit = x.first[3] /\ first.stale = (x.first[1] # x.first[3]) /\ first.face = "all-kinds"
      /\ first.generation = x.graphs[x.first[1]].updated
      /\ first.edges = ExportModuleEdges(x.graphs[x.first[2]], x.profiles[1]).edges
      /\ first.files = ExportModuleEdges(x.graphs[x.first[2]], x.profiles[1]).files
  BY <1>1, SnapshotHolds
<1>3. /\ b.commit = x.then[2] /\ b.stale = (x.then[1] # x.then[2]) /\ b.face = "all-kinds"
      /\ b.generation = x.graphs[x.then[1]].updated
      /\ b.edges = ExportModuleEdges(x.graphs[x.then[1]], x.profiles[2]).edges
      /\ b.files = ExportModuleEdges(x.graphs[x.then[1]], x.profiles[2]).files
  BY <1>1, SnapshotHolds DEF Since
<1>4. /\ a.commit = first.commit /\ a.stale = first.stale /\ a.edges = first.edges /\ a.files = first.files
      /\ x.older => a.face = None
      /\ ~x.older => a.face = first.face /\ a.generation = first.generation
  BY DEF Before
<1> HIDE DEF first, a, b
<1> DEFINE alike == x.profiles[1] = x.profiles[2] /\ x.first[1] = x.first[2]
<1>5. ASSUME alike, Warnings(a, b) = {}
      PROVE  s.added = {} /\ s.removed = {} /\ s.new = {} /\ s.gone = {}
  <2>1. a.face = b.face /\ ~(None \notin {a.generation, b.generation} /\ a.generation # b.generation)
    <3>1. "face" \notin Warnings(a, b) /\ "generation" \notin Warnings(a, b)
      BY <1>5
    <3>2. QED
      BY <3>1 DEF Warnings
  <2>2. ~x.older
    BY <1>3, <1>4, <2>1, NoneAssumption
  <2>3. a.generation = b.generation
    BY <1>1, <1>2, <1>3, <1>4, <2>1, <2>2
  <2>4. x.first[1] = x.then[1]
    BY <1>1, <1>2, <1>3, <1>4, <2>2, <2>3
  <2>5. a.edges = b.edges /\ a.files = b.files
    BY <1>2, <1>3, <1>4, <1>5, <2>4
  <2>6. QED
    BY <2>5 DEF Summarize
<1>6. ASSUME alike, ~a.stale, ~b.stale
      PROVE  Differ(x.graphs[a.commit], x.graphs[b.commit], x.profiles[2], s)
  <2>1. x.first[2] = a.commit /\ x.then[1] = b.commit
    BY <1>2, <1>3, <1>4, <1>6
  <2>2. QED
    BY <1>2, <1>3, <1>4, <1>6, <2>1, ExportsDiffer
<1>7. QED
  BY <1>5, <1>6 DEF Explained, a, b
---------------------------------------------------------------------------
(* The fields that git prints of changes, read back.                       *)

ReadSet(X) ==
    [entry : Seq(X), got : [added : Seq(X), modified : Seq(X), deleted : Seq(X),
                            renamed : SUBSET [new : X, old : X]]]

TakeIn(X) == [p \in ReadSet(X) \X X |-> TakeField(p[1], p[2])]

Read(fields) == FoldLeft(TakeField, NothingRead, fields)

\* Reading keeps to the fields there are.
LEMMA TakeStays ==
    ASSUME NEW X
    PROVE  Folds(ReadSet(X), X, TakeIn(X), NothingRead)
<1>1. NothingRead \in ReadSet(X)
  BY DEF NothingRead, ReadSet
<1>2. ASSUME NEW acc \in ReadSet(X), NEW x \in X PROVE TakeField(acc, x) \in ReadSet(X)
  <2>0. acc.entry \in Seq(X) /\ <<x>> \in Seq(X) /\ Append(acc.entry, x) \in Seq(X) /\ <<>> \in Seq(X)
    BY DEF ReadSet
  <2>1. CASE acc.entry = <<>>
    <3>1. TakeField(acc, x) = [acc EXCEPT !.entry = <<x>>]
      BY <2>1 DEF TakeField
    <3>2. QED
      BY <2>0, <3>1 DEF ReadSet
  <2>2. CASE acc.entry # <<>> /\ Len(acc.entry) + 1 < Fields(acc.entry[1])
    <3>1. TakeField(acc, x) = [acc EXCEPT !.entry = Append(@, x)]
      BY <2>2 DEF TakeField
    <3>2. QED
      BY <2>0, <3>1 DEF ReadSet
  <2>3. CASE acc.entry # <<>> /\ ~(Len(acc.entry) + 1 < Fields(acc.entry[1]))
    <3>1. TakeField(acc, x) = [entry |-> <<>>, got |-> Filed(acc.got, acc.entry, x)]
      BY <2>3 DEF TakeField
    <3>2. acc.entry[1] = "R" => acc.entry[2] \in X
      BY <2>0, <2>3 DEF Fields
    <3> DEFINE got == acc.got  entry == acc.entry
    <3>3. /\ got \in [added : Seq(X), modified : Seq(X), deleted : Seq(X), renamed : SUBSET [new : X, old : X]]
          /\ Append(got.added, x) \in Seq(X) /\ Append(got.deleted, x) \in Seq(X)
          /\ Append(got.modified, x) \in Seq(X)
          /\ entry[1] = "R" => got.renamed \cup {[new |-> x, old |-> entry[2]]} \in SUBSET [new : X, old : X]
      BY <3>2 DEF ReadSet
    <3> HIDE DEF got, entry
    <3>4. Filed(got, entry, x) \in
            [added : Seq(X), modified : Seq(X), deleted : Seq(X), renamed : SUBSET [new : X, old : X]]
      BY <3>3 DEF Filed
    <3>5. QED
      BY <2>0, <3>1, <3>4 DEF ReadSet, got, entry
  <2>4. QED
    BY <2>1, <2>2, <2>3
<1>3. \A acc \in ReadSet(X), x \in X : TakeIn(X)[acc, x] = TakeField(acc, x)
  BY DEF TakeIn
<1>4. Stays(TakeIn(X), ReadSet(X), X)
  BY <1>2, <1>3, Zenon DEF Stays
<1>5. QED
  BY <1>1, <1>4 DEF Folds

LEMMA ReadFold ==
    ASSUME NEW fields
    PROVE  Read(fields) =
             LET iter[s \in SUBSET DOMAIN fields] ==
                   IF s = {} THEN NothingRead ELSE TakeField(iter[s \ {Max(s)}], fields[Max(s)])
             IN  iter[DOMAIN fields]
  BY DEF Read, FoldLeft, MapThenFoldSet

LEMMA ReadFolded ==
    ASSUME NEW X, NEW seq \in Seq(X)
    PROVE  Read(seq) = FoldedBy(ReadSet(X), TakeIn(X), NothingRead, seq)
<1>1. Len(seq) \in Nat /\ DOMAIN seq = 1 .. Len(seq) /\ seq \in [1 .. Len(seq) -> X]
  OBVIOUS
<1> DEFINE Fold(h) == h = [s \in SUBSET (1 .. Len(seq)) |->
                             IF s = {} THEN NothingRead ELSE TakeField(h[s \ {Max(s)}], seq[Max(s)])]
           iter == CHOOSE h : Fold(h)
           F == TakeIn(X)  D == ReadSet(X)
<1>2. Folds(D, X, F, NothingRead) /\ \A a \in D, x \in X : F[a, x] = TakeField(a, x)
  BY TakeStays DEF TakeIn
<1> HIDE DEF F, D
<1>3. \E h : Fold(h)
  <2>1. PICK h : FoldOf(D, F, NothingRead, seq, Len(seq), h)
    BY <1>1, <1>2, FoldIsThere DEF Folds
  <2>2. ASSUME NEW s \in SUBSET (1 .. Len(seq)), s # {}
        PROVE  F[h[s \ {Max(s)}], seq[Max(s)]] = TakeField(h[s \ {Max(s)}], seq[Max(s)])
    <3>1. Max(s) \in 1 .. Len(seq)
      BY <1>1, <2>2, MaxInside
    <3>2. QED
      BY <1>1, <1>2, <2>1, <3>1 DEF FoldOf
  <2>3. QED
    BY <2>1, <2>2 DEF FoldOf
<1>4. iter[1 .. Len(seq)] = Read(seq)
  BY <1>1, ReadFold
<1>5. Fold(iter)
  <2> HIDE DEF Fold
  <2>1. QED
    BY <1>3
<1> HIDE DEF iter
<1>6. Iterates(D, F, NothingRead, seq, iter)
  <2>1. iter[{}] = NothingRead
    BY <1>5
  <2>2. ASSUME NEW s \in SUBSET (1 .. Len(seq)), s # {}, iter[s \ {Max(s)}] \in D
        PROVE  iter[s] = F[iter[s \ {Max(s)}], seq[Max(s)]]
    <3>1. iter[s] = TakeField(iter[s \ {Max(s)}], seq[Max(s)])
      BY <1>5, <2>2
    <3>2. seq[Max(s)] \in X
      BY <1>1, <2>2, MaxInside
    <3>3. QED
      BY <1>2, <2>2, <3>1, <3>2
  <2>3. QED
    BY <2>1, <2>2 DEF Iterates
<1> DEFINE none == NothingRead
<1>7. Folds(D, X, F, none) /\ Iterates(D, F, none, seq, iter)
  BY <1>2, <1>6
<1> HIDE DEF none
<1>8. FoldedBy(D, F, none, seq) = iter[1 .. Len(seq)]
  BY <1>7, IteratedIsFolded
<1>9. QED
  BY <1>4, <1>8 DEF F, D, none

LEMMA ReadOfNone == Read(<<>>) = NothingRead
<1>1. <<>> \in Seq({})
  OBVIOUS
<1>2. Read(<<>>) = FoldedBy(ReadSet({}), TakeIn({}), NothingRead, <<>>)
  BY <1>1, ReadFolded
<1>3. Folds(ReadSet({}), {}, TakeIn({}), NothingRead)
  BY TakeStays
<1>4. QED
  BY <1>2, <1>3, FoldedOfNone

LEMMA ReadOfMore ==
    ASSUME NEW X, NEW seq \in Seq(X), NEW e \in X
    PROVE  Read(seq) \in ReadSet(X) /\ Read(Append(seq, e)) = TakeField(Read(seq), e)
<1> DEFINE F == TakeIn(X)  D == ReadSet(X)  more == Append(seq, e)
<1>1. Folds(D, X, F, NothingRead) /\ \A a \in D, x \in X : F[a, x] = TakeField(a, x)
  BY TakeStays DEF TakeIn
<1>2. more \in Seq(X)
  OBVIOUS
<1>3. Extends(X, seq, e, more)
  BY AppendExtends
<1> HIDE DEF F, D, more
<1>4. Read(seq) = FoldedBy(D, F, NothingRead, seq) /\ Read(more) = FoldedBy(D, F, NothingRead, more)
  BY <1>2, ReadFolded DEF D, F
<1>5. OneStep(D, F, NothingRead, seq, e, more)
  BY <1>1, <1>3, FoldedOfMore
<1>6. Read(seq) \in D /\ Read(more) = F[Read(seq), e]
  BY <1>4, <1>5 DEF OneStep
<1>7. QED
  BY <1>1, <1>6 DEF more, D

\* Of the fields of X, when the changes of C are of them.
AreOf(C, X) == \A c \in C : c.code \in X /\ c.old \in X /\ c.new \in X

PrintIn(C, X) == [p \in Seq(X) \X C |-> Printed(p[1], p[2])]

LEMMA PrintStays ==
    ASSUME NEW C, NEW X, AreOf(C, X)
    PROVE  /\ Folds(Seq(X), C, PrintIn(C, X), <<>>)
           /\ \A out \in Seq(X), c \in C : PrintIn(C, X)[out, c] = Printed(out, c)
<1>1. ASSUME NEW out \in Seq(X), NEW c \in C PROVE Printed(out, c) \in Seq(X)
  <2>1. Append(out, c.code) \in Seq(X) /\ c.old \in X /\ c.new \in X
    BY DEF AreOf
  <2>2. QED
    BY <2>1 DEF Printed
<1>2. \A out \in Seq(X), c \in C : PrintIn(C, X)[out, c] = Printed(out, c)
  BY DEF PrintIn
<1>3. Stays(PrintIn(C, X), Seq(X), C)
  BY <1>1, <1>2, Zenon DEF Stays
<1>4. <<>> \in Seq(X)
  OBVIOUS
<1>5. QED
  BY <1>2, <1>3, <1>4, Zenon DEF Folds

LEMMA PrintFold ==
    ASSUME NEW changes
    PROVE  FieldsOf(changes) =
             LET iter[s \in SUBSET DOMAIN changes] ==
                   IF s = {} THEN <<>> ELSE Printed(iter[s \ {Max(s)}], changes[Max(s)])
             IN  iter[DOMAIN changes]
  BY DEF FieldsOf, FoldLeft, MapThenFoldSet

LEMMA PrintFolded ==
    ASSUME NEW C, NEW X, AreOf(C, X), NEW seq \in Seq(C)
    PROVE  FieldsOf(seq) = FoldedBy(Seq(X), PrintIn(C, X), <<>>, seq)
<1>1. Len(seq) \in Nat /\ DOMAIN seq = 1 .. Len(seq) /\ seq \in [1 .. Len(seq) -> C]
  OBVIOUS
<1> DEFINE Fold(h) == h = [s \in SUBSET (1 .. Len(seq)) |->
                             IF s = {} THEN <<>> ELSE Printed(h[s \ {Max(s)}], seq[Max(s)])]
           iter == CHOOSE h : Fold(h)
           F == PrintIn(C, X)  D == Seq(X)  none == <<>>
<1>2. Folds(D, C, F, none) /\ \A a \in D, c \in C : F[a, c] = Printed(a, c)
  BY PrintStays
<1> HIDE DEF F, D
<1>3. \E h : Fold(h)
  <2>1. PICK h : FoldOf(D, F, <<>>, seq, Len(seq), h)
    BY <1>1, <1>2, FoldIsThere DEF Folds
  <2>2. ASSUME NEW s \in SUBSET (1 .. Len(seq)), s # {}
        PROVE  F[h[s \ {Max(s)}], seq[Max(s)]] = Printed(h[s \ {Max(s)}], seq[Max(s)])
    <3>1. Max(s) \in 1 .. Len(seq)
      BY <1>1, <2>2, MaxInside
    <3>2. QED
      BY <1>1, <1>2, <2>1, <3>1 DEF FoldOf
  <2>3. QED
    BY <2>1, <2>2 DEF FoldOf
<1>4. iter[1 .. Len(seq)] = FieldsOf(seq)
  BY <1>1, PrintFold
<1>5. Fold(iter)
  <2> HIDE DEF Fold
  <2>1. QED
    BY <1>3
<1> HIDE DEF iter
<1>6. Iterates(D, F, none, seq, iter)
  <2>1. iter[{}] = <<>>
    BY <1>5
  <2>2. ASSUME NEW s \in SUBSET (1 .. Len(seq)), s # {}, iter[s \ {Max(s)}] \in D
        PROVE  iter[s] = F[iter[s \ {Max(s)}], seq[Max(s)]]
    <3>1. iter[s] = Printed(iter[s \ {Max(s)}], seq[Max(s)])
      BY <1>5, <2>2
    <3>2. seq[Max(s)] \in C
      BY <1>1, <2>2, MaxInside
    <3>3. QED
      BY <1>2, <2>2, <3>1, <3>2
  <2>3. QED
    BY <2>1, <2>2 DEF Iterates
<1> HIDE DEF none
<1>7. Folds(D, C, F, none)
  BY <1>2
<1>8. FoldedBy(D, F, none, seq) = iter[1 .. Len(seq)]
  BY <1>6, <1>7, IteratedIsFolded
<1>9. QED
  BY <1>4, <1>8 DEF F, D, none

LEMMA PrintOfNone == FieldsOf(<<>>) = <<>>
<1>1. <<>> \in Seq({}) /\ AreOf({}, {})
  BY DEF AreOf
<1>2. FieldsOf(<<>>) = FoldedBy(Seq({}), PrintIn({}, {}), <<>>, <<>>)
  BY <1>1, PrintFolded
<1>3. Folds(Seq({}), {}, PrintIn({}, {}), <<>>)
  BY <1>1, PrintStays
<1>4. QED
  BY <1>2, <1>3, FoldedOfNone

LEMMA PrintOfMore ==
    ASSUME NEW C, NEW X, AreOf(C, X), NEW seq \in Seq(C), NEW c \in C
    PROVE  FieldsOf(seq) \in Seq(X) /\ FieldsOf(Append(seq, c)) = Printed(FieldsOf(seq), c)
<1> DEFINE F == PrintIn(C, X)  D == Seq(X)  none == <<>>  more == Append(seq, c)
<1>1. Folds(D, C, F, none) /\ \A a \in D, x \in C : F[a, x] = Printed(a, x)
  BY PrintStays
<1>2. more \in Seq(C)
  OBVIOUS
<1>3. Extends(C, seq, c, more)
  BY AppendExtends
<1> HIDE DEF more
<1>4. FieldsOf(seq) = FoldedBy(D, F, none, seq) /\ FieldsOf(more) = FoldedBy(D, F, none, more)
  BY <1>2, PrintFolded
<1> HIDE DEF F, D, none
<1>5. OneStep(D, F, none, seq, c, more)
  BY <1>1, <1>3, FoldedOfMore
<1>6. FieldsOf(seq) \in D /\ FieldsOf(more) = F[FieldsOf(seq), c]
  BY <1>4, <1>5 DEF OneStep
<1>7. QED
  BY <1>1, <1>6 DEF more, D

IsChange(c) ==
    /\ c.code \in {"A", "M", "D", "T", "R", "C"}
    /\ c.old = None <=> c.code \notin {"R", "C"}

EntryOf(c) == IF c.old = None THEN <<c.code>> ELSE <<c.code, c.old>>

LEMMA OneAndTwo ==
    ASSUME NEW a, NEW b
    PROVE  /\ <<a>> # <<>> /\ Len(<<a>>) = 1 /\ <<a>>[1] = a /\ Append(<<a>>, b) = <<a, b>>
           /\ <<a, b>> # <<>> /\ Len(<<a, b>>) = 2 /\ <<a, b>>[1] = a /\ <<a, b>>[2] = b
<1>1. <<a>> \in Seq({a, b}) /\ <<a>> # <<>> /\ Len(<<a>>) = 1 /\ <<a>>[1] = a
  OBVIOUS
<1>2. <<a, b>> \in Seq({a, b}) /\ <<a, b>> # <<>> /\ Len(<<a, b>>) = 2 /\ <<a, b>>[1] = a /\ <<a, b>>[2] = b
  OBVIOUS
<1>3. Append(<<a>>, b) = <<a, b>>
  <2>1. /\ Append(<<a>>, b) \in Seq({a, b}) /\ Len(Append(<<a>>, b)) = 2
        /\ Append(<<a>>, b)[1] = a /\ Append(<<a>>, b)[2] = b
    BY <1>1, AppendProperties
  <2>2. \A s \in Seq({a, b}), t \in Seq({a, b}) :
          Len(s) = 2 /\ Len(t) = 2 /\ s[1] = t[1] /\ s[2] = t[2] => s = t
    OBVIOUS
  <2>3. QED
    BY <1>2, <2>1, <2>2
<1>4. QED
  BY <1>1, <1>2, <1>3

\* The fields of a change are read as the one entry they are.
LEMMA OneEntryRead ==
    ASSUME NEW acc, NEW X, acc \in ReadSet(X), acc.entry = <<>>, NEW c, IsChange(c)
    PROVE  LET one == TakeField(acc, c.code)
               two == TakeField(one, c.old)
               read == [entry |-> <<>>, got |-> Filed(acc.got, EntryOf(c), c.new)]
           IN  /\ c.old = None => TakeField(one, c.new) = read
               /\ c.old # None => TakeField(two, c.new) = read
<1> DEFINE one == TakeField(acc, c.code)  two == TakeField(one, c.old)
           code == c.code  old == c.old  new == c.new
<1>1. one = [acc EXCEPT !.entry = <<code>>]
  BY DEF TakeField
<1>2. one.entry = <<code>> /\ one.got = acc.got /\ DOMAIN one = {"entry", "got"}
  BY <1>1 DEF ReadSet
<1> HIDE DEF one
<1>3. /\ one.entry # <<>> /\ Len(one.entry) = 1 /\ one.entry[1] = code
      /\ Append(one.entry, old) = <<code, old>>
  <2>1. <<code>> # <<>> /\ Len(<<code>>) = 1 /\ <<code>>[1] = code /\ Append(<<code>>, old) = <<code, old>>
    BY OneAndTwo
  <2>2. QED
    BY <1>2, <2>1
<1> DEFINE read == [entry |-> <<>>, got |-> Filed(acc.got, EntryOf(c), new)]
<1>4. ASSUME old = None PROVE TakeField(one, new) = read
  <2>1. Fields(code) = 2 /\ EntryOf(c) = <<code>>
    BY <1>4 DEF Fields, IsChange, EntryOf
  <2>2. ~(Len(one.entry) + 1 < Fields(one.entry[1]))
    BY <1>3, <2>1
  <2>3. TakeField(one, new) = [entry |-> <<>>, got |-> Filed(one.got, one.entry, new)]
    BY <1>3, <2>2 DEF TakeField
  <2>4. QED
    BY <1>2, <2>1, <2>3
<1>5. ASSUME old # None PROVE TakeField(two, new) = read
  <2>1. Fields(code) = 3 /\ EntryOf(c) = <<code, old>>
    BY <1>5 DEF Fields, IsChange, EntryOf
  <2>2. Len(one.entry) + 1 < Fields(one.entry[1])
    BY <1>3, <2>1
  <2>3. two = [one EXCEPT !.entry = Append(@, old)]
    BY <1>3, <2>2 DEF TakeField
  <2>4. two.entry = <<code, old>> /\ two.got = acc.got
    BY <1>2, <1>3, <2>3
  <2> HIDE DEF two
  <2>5. two.entry # <<>> /\ Len(two.entry) = 2 /\ two.entry[1] = code
    BY <2>4, OneAndTwo
  <2>6. ~(Len(two.entry) + 1 < Fields(two.entry[1]))
    BY <2>1, <2>5
  <2>7. TakeField(two, new) = [entry |-> <<>>, got |-> Filed(two.got, two.entry, new)]
    BY <2>5, <2>6 DEF TakeField
  <2>8. QED
    BY <2>1, <2>4, <2>7
<1>6. QED
  BY <1>4, <1>5 DEF one

\* One change more is one entry more.
LEMMA ReadOfChange ==
    ASSUME NEW C, NEW X, AreOf(C, X), NEW s \in Seq(C), NEW c \in C, IsChange(c),
           Read(FieldsOf(s)).entry = <<>>
    PROVE  /\ Read(FieldsOf(s)) \in ReadSet(X)
           /\ Read(FieldsOf(Append(s, c))) =
                [entry |-> <<>>, got |-> Filed(Read(FieldsOf(s)).got, EntryOf(c), c.new)]
<1> DEFINE out == FieldsOf(s)  acc == Read(out)
           code == c.code  old == c.old  new == c.new
           outOne == Append(out, code)  outTwo == Append(outOne, old)
<1>1. out \in Seq(X) /\ FieldsOf(Append(s, c)) = Printed(out, c)
  BY PrintOfMore
<1>2. code \in X /\ old \in X /\ new \in X
  BY DEF AreOf
<1>3. Printed(out, c) = IF old = None THEN Append(outOne, new) ELSE Append(outTwo, new)
  BY DEF Printed
<1>4. outOne \in Seq(X) /\ outTwo \in Seq(X)
  BY <1>1, <1>2
<1> HIDE DEF outTwo
<1>5. acc \in ReadSet(X) /\ acc.entry = <<>> /\ Read(outOne) = TakeField(acc, code)
  BY <1>1, <1>2, ReadOfMore
<1> HIDE DEF outOne, out
<1>6. Read(Append(outOne, new)) = TakeField(Read(outOne), new)
  BY <1>2, <1>4, ReadOfMore
<1>7. Read(outTwo) = TakeField(Read(outOne), old)
  BY <1>2, <1>4, ReadOfMore DEF outTwo
<1>8. Read(Append(outTwo, new)) = TakeField(Read(outTwo), new)
  BY <1>2, <1>4, ReadOfMore
<1> HIDE DEF acc
<1>9. LET one == TakeField(acc, code)
          two == TakeField(one, old)
          read == [entry |-> <<>>, got |-> Filed(acc.got, EntryOf(c), new)]
      IN  /\ old = None => TakeField(one, new) = read
          /\ old # None => TakeField(two, new) = read
  BY <1>5, OneEntryRead
<1>10. Read(FieldsOf(Append(s, c))) = [entry |-> <<>>, got |-> Filed(acc.got, EntryOf(c), new)]
  <2>1. CASE old = None
    BY <1>1, <1>3, <1>5, <1>6, <1>9, <2>1
  <2>2. CASE old # None
    BY <1>1, <1>3, <1>5, <1>7, <1>8, <1>9, <2>2
  <2>3. QED
    BY <2>1, <2>2
<1>11. QED
  BY <1>5, <1>10 DEF acc, out

\* The new files of the changes with these codes.
NewFiles(changes, codes) == {c.new : c \in {y \in changes : y.code \in codes}}

More(files, yes, file) == IF yes THEN files \cup {file} ELSE files

LEMMA FilesOfMore ==
    ASSUME NEW changes, NEW c, NEW codes
    PROVE  NewFiles(changes \cup {c}, codes) = More(NewFiles(changes, codes), c.code \in codes, c.new)
<1>1. ASSUME NEW f PROVE f \in NewFiles(changes \cup {c}, codes)
                           <=> f \in NewFiles(changes, codes) \/ (c.code \in codes /\ f = c.new)
  BY Zenon DEF NewFiles
<1>2. ASSUME NEW f PROVE f \in More(NewFiles(changes, codes), c.code \in codes, c.new)
                           <=> f \in NewFiles(changes, codes) \/ (c.code \in codes /\ f = c.new)
  BY Zenon DEF More
<1>3. QED
  BY <1>1, <1>2

Renames(got) == {r.new : r \in got.renamed}

\* The file of a change is filed under its code.
LEMMA FiledByCode ==
    ASSUME NEW X, NEW acc, acc \in ReadSet(X), NEW c, IsChange(c), c.new \in X
    PROVE  LET got == Filed(acc.got, EntryOf(c), c.new) IN
           /\ ToSet(got.added) = More(ToSet(acc.got.added), c.code \in {"A", "C"}, c.new)
           /\ ToSet(got.modified) = More(ToSet(acc.got.modified), c.code \in {"M", "T"}, c.new)
           /\ ToSet(got.deleted) = More(ToSet(acc.got.deleted), c.code \in {"D"}, c.new)
           /\ Renames(got) = More(Renames(acc.got), c.code \in {"R"}, c.new)
<1> DEFINE old == acc.got  got == Filed(old, EntryOf(c), c.new)  new == c.new  entry == EntryOf(c)
<1>1. old \in [added : Seq(X), modified : Seq(X), deleted : Seq(X), renamed : SUBSET [new : X, old : X]]
  BY DEF ReadSet
<1>2. entry[1] = c.code
  BY OneAndTwo DEF EntryOf
<1>3. \A seq \in Seq(X) : ToSet(Append(seq, new)) = ToSet(seq) \cup {new}
  BY SetOfMore
<1>4. old.added \in Seq(X) /\ old.modified \in Seq(X) /\ old.deleted \in Seq(X)
  BY <1>1
<1> HIDE DEF old, new, entry
<1>5. CASE c.code \in {"A", "C"}
  <2>1. Filed(old, entry, new) = [old EXCEPT !.added = Append(@, new)]
    BY <1>2, <1>5 DEF Filed
  <2>2. /\ Filed(old, entry, new).added = Append(old.added, new)
        /\ Filed(old, entry, new).modified = old.modified /\ Filed(old, entry, new).deleted = old.deleted
        /\ Filed(old, entry, new).renamed = old.renamed
    BY <1>1, <2>1
  <2>3. QED
    BY <1>3, <1>4, <1>5, <2>2 DEF More, Renames, old, new, entry
<1>6. CASE c.code \in {"M", "T"}
  <2>1. Filed(old, entry, new) = [old EXCEPT !.modified = Append(@, new)]
    BY <1>2, <1>6 DEF Filed
  <2>2. /\ Filed(old, entry, new).modified = Append(old.modified, new)
        /\ Filed(old, entry, new).added = old.added /\ Filed(old, entry, new).deleted = old.deleted
        /\ Filed(old, entry, new).renamed = old.renamed
    BY <1>1, <2>1
  <2>3. QED
    BY <1>3, <1>4, <1>6, <2>2 DEF More, Renames, old, new, entry
<1>7. CASE c.code = "D"
  <2>1. Filed(old, entry, new) = [old EXCEPT !.deleted = Append(@, new)]
    BY <1>2, <1>7 DEF Filed
  <2>2. /\ Filed(old, entry, new).deleted = Append(old.deleted, new)
        /\ Filed(old, entry, new).added = old.added /\ Filed(old, entry, new).modified = old.modified
        /\ Filed(old, entry, new).renamed = old.renamed
    BY <1>1, <2>1
  <2>3. QED
    BY <1>3, <1>4, <1>7, <2>2 DEF More, Renames, old, new, entry
<1>8. CASE c.code = "R"
  <2>1. Filed(old, entry, new) = [old EXCEPT !.renamed = @ \cup {[new |-> new, old |-> entry[2]]}]
    BY <1>2, <1>8 DEF Filed
  <2>2. /\ Filed(old, entry, new).renamed = old.renamed \cup {[new |-> new, old |-> entry[2]]}
        /\ Filed(old, entry, new).added = old.added /\ Filed(old, entry, new).modified = old.modified
        /\ Filed(old, entry, new).deleted = old.deleted
    BY <1>1, <2>1
  <2>3. Renames(Filed(old, entry, new)) = Renames(old) \cup {new}
    <3> DEFINE r == [new |-> new, old |-> entry[2]]
    <3>1. r.new = new
      OBVIOUS
    <3> HIDE DEF r
    <3>2. \A a, b : {x.new : x \in a \cup {b}} = {x.new : x \in a} \cup {b.new}
      OBVIOUS
    <3>3. QED
      BY <2>2, <3>1, <3>2 DEF Renames, r
  <2>4. QED
    BY <1>8, <2>2, <2>3 DEF More, old, new, entry
<1>9. QED
  BY <1>5, <1>6, <1>7, <1>8 DEF IsChange

\* Every change is read back under its code.
ReadBack(X, acc, changes) ==
    /\ acc.entry = <<>> /\ acc \in ReadSet(X)
    /\ ToSet(acc.got.added) = NewFiles(changes, {"A", "C"})
    /\ ToSet(acc.got.modified) = NewFiles(changes, {"M", "T"})
    /\ ToSet(acc.got.deleted) = NewFiles(changes, {"D"})
    /\ Renames(acc.got) = NewFiles(changes, {"R"})

LEMMA AllReadBack ==
    ASSUME NEW C, NEW X, AreOf(C, X), \A c \in C : IsChange(c), NEW changes \in Seq(C)
    PROVE  ReadBack(X, Read(FieldsOf(changes)), ToSet(changes))
<1> DEFINE P == {s \in Seq(C) : ReadBack(X, Read(FieldsOf(s)), ToSet(s))}
<1>1. <<>> \in P
  <2>1. Read(FieldsOf(<<>>)) = NothingRead
    BY PrintOfNone, ReadOfNone
  <2>2. NothingRead \in ReadSet(X)
    BY TakeStays DEF Folds
  <2>3. ToSet(<<>>) = {} /\ <<>> \in Seq(C)
    BY DEF ToSet
  <2>4. \A codes : NewFiles({}, codes) = {}
    BY DEF NewFiles
  <2>5. ReadBack(X, NothingRead, {})
    BY <2>2, <2>3, <2>4 DEF ReadBack, NothingRead, Renames
  <2>6. QED
    BY <2>1, <2>3, <2>5
<1>2. ASSUME NEW s \in Seq(C), NEW c \in C, s \in P PROVE Append(s, c) \in P
  <2> DEFINE acc == Read(FieldsOf(s))  got == Filed(acc.got, EntryOf(c), c.new)
  <2>1. ReadBack(X, acc, ToSet(s))
    BY <1>2
  <2>2. acc.entry = <<>> /\ IsChange(c) /\ c.new \in X
    BY <2>1 DEF ReadBack, AreOf
  <2>3. acc \in ReadSet(X) /\ Read(FieldsOf(Append(s, c))) = [entry |-> <<>>, got |-> got]
    BY <2>2, ReadOfChange
  <2>4. Append(s, c) \in Seq(C) /\ ToSet(Append(s, c)) = ToSet(s) \cup {c}
    BY SetOfMore
  <2>5. Read(FieldsOf(Append(s, c))) \in ReadSet(X)
    <3>1. FieldsOf(Append(s, c)) \in Seq(X)
      BY <2>4, PrintOfMore
    <3>2. c.new \in X /\ Append(FieldsOf(Append(s, c)), c.new) \in Seq(X)
      BY <2>2, <3>1
    <3>3. QED
      BY <3>1, <3>2, ReadOfMore
  <2> HIDE DEF acc
  <2>6. /\ ToSet(got.added) = More(ToSet(acc.got.added), c.code \in {"A", "C"}, c.new)
        /\ ToSet(got.modified) = More(ToSet(acc.got.modified), c.code \in {"M", "T"}, c.new)
        /\ ToSet(got.deleted) = More(ToSet(acc.got.deleted), c.code \in {"D"}, c.new)
        /\ Renames(got) = More(Renames(acc.got), c.code \in {"R"}, c.new)
    BY <2>2, <2>3, FiledByCode
  <2> HIDE DEF got
  <2>7. \A codes : NewFiles(ToSet(s) \cup {c}, codes) = More(NewFiles(ToSet(s), codes), c.code \in codes, c.new)
    BY FilesOfMore
  <2>8. ReadBack(X, [entry |-> <<>>, got |-> got], ToSet(s) \cup {c})
    BY <2>1, <2>3, <2>5, <2>6, <2>7 DEF ReadBack
  <2>9. QED
    BY <2>3, <2>4, <2>8
<1>3. Seq(C) \subseteq P
  <2> HIDE DEF P
  <2>1. QED
    BY <1>1, <1>2, EverySequence
<1>4. QED
  BY <1>3

---------------------------------------------------------------------------
(* The steps of the review tour.                                           *)

Noisy(profile, f) == IsExcluded(profile, f) \/ IsExcluded([exclude |-> OwnNoise], f)

QuietIn(profile, files) == {f \in files : ~Noisy(profile, f)}

TourStep(x, changed, f, kind, line) ==
    [file |-> f, kind |-> kind, line |-> line,
     tag |-> ClaimTag(x.claims, changed, ModuleOf(x.profile, f))]

LineOf(x, f) == IF f \in DOMAIN x.first THEN x.first[f] ELSE 1

Unlined(x, changed, kind, files) == {TourStep(x, changed, f, kind, None) : f \in files}
Lined(x, changed, files) == {TourStep(x, changed, f, "modified", LineOf(x, f)) : f \in files}

Dead(files) == {[file |-> f, kind |-> "deleted", line |-> 1, all |-> files] : f \in files}

\* The steps: one to a file, but for the deleted ones, that have one at most.
Parted(x, changed, added, renamed, modified, deleted, dead, steps) ==
    /\ dead \subseteq Dead(deleted)
    /\ dead = {} <=> deleted = {}
    /\ \A t, u \in dead : t = u
    /\ steps = Unlined(x, changed, "added", added) \cup Unlined(x, changed, "renamed", renamed)
               \cup Lined(x, changed, modified) \cup dead

StepsAre(x, changed, got, steps) ==
    \E dead : Parted(x, changed, QuietIn(x.profile, ToSet(got.added)), QuietIn(x.profile, Renames(got)),
                     QuietIn(x.profile, ToSet(got.modified)) \ Renames(got),
                     QuietIn(x.profile, ToSet(got.deleted)), dead, steps)

LEMMA QuietAre ==
    ASSUME NEW X, NEW files \in Seq(X), NEW profile
    PROVE  LET quiet == Those(files, {f \in ToSet(files) : ~Noisy(profile, f)}) IN
           quiet \in Seq(X) /\ ToSet(quiet) = QuietIn(profile, ToSet(files))
<1> DEFINE keep == {f \in ToSet(files) : ~Noisy(profile, f)}
<1>1. Those(files, keep) \in Seq(X) /\ ToSet(Those(files, keep)) = ToSet(files) \cap keep
  <2> HIDE DEF keep
  <2>1. QED
    BY ThoseAre
<1>2. ToSet(files) \cap keep = QuietIn(profile, ToSet(files))
  BY DEF QuietIn
<1>3. QED
  BY <1>1, <1>2

LEMMA StepsBuilt ==
    ASSUME NEW X, NEW fields, Read(fields) \in ReadSet(X), NEW x, NEW changed
    PROVE  StepsAre(x, changed, Read(fields).got, BuildTour(fields, x.first, x.profile, x.claims, changed))
<1> DEFINE got == Read(fields).got
           Quiet(files) == Those(files, {f \in ToSet(files) : ~Noisy(x.profile, f)})
           gone == Quiet(got.deleted)
           dead == IF gone = <<>> THEN {}
                   ELSE {[file |-> gone[1], kind |-> "deleted", line |-> 1, all |-> ToSet(gone)]}
           added == QuietIn(x.profile, ToSet(got.added))
           renamed == QuietIn(x.profile, Renames(got))
           modified == QuietIn(x.profile, ToSet(got.modified)) \ Renames(got)
           deleted == QuietIn(x.profile, ToSet(got.deleted))
<1>1. got.added \in Seq(X) /\ got.modified \in Seq(X) /\ got.deleted \in Seq(X)
  BY DEF ReadSet
<1>2. /\ ToSet(Quiet(got.added)) = added
      /\ ToSet(Quiet(got.modified)) = QuietIn(x.profile, ToSet(got.modified))
      /\ ToSet(gone) = deleted /\ gone \in Seq(X)
  <2> HIDE DEF got
  <2>1. QED
    BY <1>1, QuietAre
<1>3. BuildTour(fields, x.first, x.profile, x.claims, changed) =
        Unlined(x, changed, "added", ToSet(Quiet(got.added)))
        \cup Unlined(x, changed, "renamed", {y \in Renames(got) : ~Noisy(x.profile, y)})
        \cup Lined(x, changed, {y \in ToSet(Quiet(got.modified)) : y \notin Renames(got)})
        \cup dead
  BY DEF BuildTour, RangeStatus, Read, TourStep, LineOf, Noisy, Renames, Unlined, Lined
<1>4. {y \in Renames(got) : ~Noisy(x.profile, y)} = renamed
  BY DEF QuietIn
<1>5. {y \in ToSet(Quiet(got.modified)) : y \notin Renames(got)} = modified
  BY <1>2
<1>6. /\ dead \subseteq Dead(deleted)
      /\ dead = {} <=> deleted = {}
      /\ \A t, u \in dead : t = u
  <2> HIDE DEF gone, deleted
  <2>1. gone # <<>> => gone[1] \in deleted
    BY <1>2 DEF ToSet
  <2>2. gone = <<>> => deleted = {}
    BY <1>2 DEF ToSet
  <2>3. QED
    BY <1>2, <2>1, <2>2 DEF Dead
<1>7. BuildTour(fields, x.first, x.profile, x.claims, changed) =
        Unlined(x, changed, "added", added) \cup Unlined(x, changed, "renamed", renamed)
        \cup Lined(x, changed, modified) \cup dead
  <2> HIDE DEF added, renamed, modified, dead, Quiet, got
  <2>1. QED
    BY <1>2, <1>3, <1>4, <1>5
<1> HIDE DEF dead
<1>8. QED
  BY <1>6, <1>7 DEF StepsAre, Parted

\* A step says that the plan did not mention its module only where it did
\* mention another one of the changed.
LEMMA Unclaimed ==
    ASSUME NEW claims, NEW changed, NEW module, ClaimTag(claims, changed, module) = "unclaimed"
    PROVE  \E m \in changed : claims # None /\ m \in claims /\ module \notin claims
<1>1. claims # None /\ claims # {}
  BY DEF ClaimTag
<1>2. CASE claims \cap changed = {} /\ changed # {}
  <2>1. ClaimTag(claims, changed, module) = ""
    BY <1>1, <1>2 DEF ClaimTag
  <2>2. QED
    BY <2>1
<1>3. CASE ~(claims \cap changed = {} /\ changed # {})
  <2>1. ClaimTag(claims, changed, module) =
          IF module \in claims \cap changed THEN "claimed" ELSE IF module \in changed THEN "unclaimed" ELSE ""
    BY <1>1, <1>3 DEF ClaimTag
  <2>2. module \in changed /\ module \notin claims
    BY <2>1
  <2>3. claims \cap changed # {}
    BY <1>3, <2>2
  <2>4. QED
    BY <1>1, <2>2, <2>3
<1>4. QED
  BY <1>2, <1>3

\* The changes, the files they left, and what is shown of those.
IsChangeSet(changes) ==
    /\ \A c \in changes : IsChange(c)
    /\ \A c, d \in changes : c.new = d.new => c = d

LEMMA ShownByKind ==
    ASSUME NEW changes, IsChangeSet(changes), NEW profile
    PROVE  LET added == QuietIn(profile, NewFiles(changes, {"A", "C"}))
               renamed == QuietIn(profile, NewFiles(changes, {"R"}))
               modified == QuietIn(profile, NewFiles(changes, {"M", "T"})) \ NewFiles(changes, {"R"})
               shown == {y \in changes : ~Noisy(profile, y.new) /\ y.code # "D"}
           IN  {<<f, "added">> : f \in added} \cup {<<f, "renamed">> : f \in renamed}
               \cup {<<f, "modified">> : f \in modified}
               = {<<c.new, KindOf(c.code)>> : c \in shown}
<1> DEFINE added == QuietIn(profile, NewFiles(changes, {"A", "C"}))
           renamed == QuietIn(profile, NewFiles(changes, {"R"}))
           modified == QuietIn(profile, NewFiles(changes, {"M", "T"})) \ NewFiles(changes, {"R"})
           shown == {y \in changes : ~Noisy(profile, y.new) /\ y.code # "D"}
           right == {<<c.new, KindOf(c.code)>> : c \in shown}
           left == {<<f, "added">> : f \in added} \cup {<<f, "renamed">> : f \in renamed}
                   \cup {<<f, "modified">> : f \in modified}
<1>0. \A c \in changes : c.code \in {"A", "M", "D", "T", "R", "C"}
  BY DEF IsChangeSet, IsChange
<1>1. /\ \A f \in added : \E c \in shown : c.new = f /\ c.code \in {"A", "C"}
      /\ \A f \in renamed : \E c \in shown : c.new = f /\ c.code = "R"
      /\ \A f \in modified : \E c \in shown : c.new = f /\ c.code \in {"M", "T"}
  BY DEF QuietIn, NewFiles
<1>2. /\ \A c \in shown : c.code \in {"A", "C"} => c.new \in added
      /\ \A c \in shown : c.code = "R" => c.new \in renamed
  BY DEF QuietIn, NewFiles
<1>3. ASSUME NEW c \in shown, c.code \in {"M", "T"} PROVE c.new \in modified
  <2>1. c.new \in QuietIn(profile, NewFiles(changes, {"M", "T"}))
    BY <1>3 DEF QuietIn, NewFiles
  <2>2. ASSUME c.new \in NewFiles(changes, {"R"}) PROVE FALSE
    <3>1. PICK d \in changes : d.code = "R" /\ d.new = c.new
      BY <2>2 DEF NewFiles
    <3>2. c = d
      BY <3>1 DEF IsChangeSet
    <3>3. QED
      BY <1>3, <3>1, <3>2
  <2>3. QED
    BY <2>1, <2>2
<1>4. \A c \in shown : c.code \in {"A", "C", "R", "M", "T"}
  BY <1>0
<1>5. /\ KindOf("A") = "added" /\ KindOf("C") = "added" /\ KindOf("R") = "renamed"
      /\ KindOf("M") = "modified" /\ KindOf("T") = "modified"
  BY DEF KindOf
<1> HIDE DEF added, renamed, modified, shown
<1>6. ASSUME NEW p \in left PROVE p \in right
  <2>1. CASE p \in {<<f, "added">> : f \in added}
    <3>1. PICK f \in added : p = <<f, "added">>
      BY <2>1
    <3>2. PICK c \in shown : c.new = f /\ c.code \in {"A", "C"}
      BY <1>1
    <3>3. QED
      BY <1>5, <3>1, <3>2
  <2>2. CASE p \in {<<f, "renamed">> : f \in renamed}
    <3>1. PICK f \in renamed : p = <<f, "renamed">>
      BY <2>2
    <3>2. PICK c \in shown : c.new = f /\ c.code = "R"
      BY <1>1
    <3>3. QED
      BY <1>5, <3>1, <3>2
  <2>3. CASE p \in {<<f, "modified">> : f \in modified}
    <3>1. PICK f \in modified : p = <<f, "modified">>
      BY <2>3
    <3>2. PICK c \in shown : c.new = f /\ c.code \in {"M", "T"}
      BY <1>1
    <3>3. QED
      BY <1>5, <3>1, <3>2
  <2>4. QED
    BY <1>6, <2>1, <2>2, <2>3
<1>7. ASSUME NEW p \in right PROVE p \in left
  <2>1. PICK c \in shown : p = <<c.new, KindOf(c.code)>>
    BY <1>7
  <2>2. CASE c.code \in {"A", "C"}
    BY <1>2, <1>5, <2>1, <2>2
  <2>3. CASE c.code = "R"
    BY <1>2, <1>5, <2>1, <2>3
  <2>4. CASE c.code \in {"M", "T"}
    BY <1>3, <1>5, <2>1, <2>4
  <2>5. QED
    BY <1>4, <2>2, <2>3, <2>4
<1>8. left = right
  BY <1>6, <1>7
<1>9. QED
  BY <1>8 DEF added, renamed, modified, shown

\* The shown steps and the deleted ones of a tour.
Shows(x, changed, added, renamed, modified, deleted, dead, steps) ==
    /\ {t \in steps : t.kind = "deleted"} = dead
    /\ {<<t.file, t.kind>> : t \in {y \in steps : y.kind # "deleted"}}
         = {<<f, "added">> : f \in added} \cup {<<f, "renamed">> : f \in renamed}
           \cup {<<f, "modified">> : f \in modified}
    /\ UNION {t.all : t \in dead} = deleted
    /\ \A t \in steps : t.kind # "deleted" => t.tag = ClaimTag(x.claims, changed, ModuleOf(x.profile, t.file))

LEMMA KindsOfSteps ==
    ASSUME NEW x, NEW changed, NEW added, NEW renamed, NEW modified, NEW deleted,
           NEW dead, NEW steps, Parted(x, changed, added, renamed, modified, deleted, dead, steps)
    PROVE  Shows(x, changed, added, renamed, modified, deleted, dead, steps)
<1> DEFINE A == Unlined(x, changed, "added", added)  R == Unlined(x, changed, "renamed", renamed)
           M == Lined(x, changed, modified)  shown == A \cup R \cup M
           Pairs0(S) == {<<t.file, t.kind>> : t \in S}
<1>0. dead \subseteq Dead(deleted) /\ (dead = {} <=> deleted = {}) /\ steps = shown \cup dead
  BY DEF Parted
<1>1. /\ \A t \in A : t.kind = "added" /\ t.file \in added
      /\ \A t \in R : t.kind = "renamed" /\ t.file \in renamed
      /\ \A t \in M : t.kind = "modified" /\ t.file \in modified
      /\ \A t \in shown : t.tag = ClaimTag(x.claims, changed, ModuleOf(x.profile, t.file))
  BY DEF Unlined, Lined, TourStep
<1>2. /\ \A f \in added : TourStep(x, changed, f, "added", None) \in A
      /\ \A f \in renamed : TourStep(x, changed, f, "renamed", None) \in R
      /\ \A f \in modified : TourStep(x, changed, f, "modified", LineOf(x, f)) \in M
  BY DEF Unlined, Lined
<1>3. \A t \in dead : t.kind = "deleted" /\ t.all = deleted
  BY <1>0 DEF Dead
<1>4. \A f, kind, line : TourStep(x, changed, f, kind, line).file = f
  BY DEF TourStep
<1> HIDE DEF A, R, M
<1>5. \A t \in shown : t.kind # "deleted"
  BY <1>1
<1>6. {t \in steps : t.kind = "deleted"} = dead /\ {t \in steps : t.kind # "deleted"} = shown
  BY <1>0, <1>3, <1>5
<1>7. UNION {t.all : t \in dead} = deleted
  <2>1. CASE deleted = {}
    BY <1>0, <2>1
  <2>2. CASE deleted # {}
    <3>1. PICK t \in dead : TRUE
      BY <1>0, <2>2
    <3>2. {u.all : u \in dead} = {deleted}
      BY <1>3, <3>1
    <3>3. UNION {deleted} = deleted
      OBVIOUS
    <3>4. QED
      BY <3>2, <3>3
  <2>3. QED
    BY <2>1, <2>2
<1>8. Pairs0(shown) = {<<f, "added">> : f \in added} \cup {<<f, "renamed">> : f \in renamed}
                      \cup {<<f, "modified">> : f \in modified}
  <2>1. Pairs0(shown) = Pairs0(A) \cup Pairs0(R) \cup Pairs0(M)
    OBVIOUS
  <2>2. Pairs0(A) = {<<f, "added">> : f \in added}
    BY <1>1, <1>2, <1>4
  <2>3. Pairs0(R) = {<<f, "renamed">> : f \in renamed}
    BY <1>1, <1>2, <1>4
  <2>4. Pairs0(M) = {<<f, "modified">> : f \in modified}
    BY <1>1, <1>2, <1>4
  <2>5. QED
    BY <2>1, <2>2, <2>3, <2>4
<1>9. QED
  BY <1>1, <1>6, <1>7, <1>8 DEF Shows

\* Whatever the changes: what git prints of them is read back whole, and a tour
\* of them shows each in a step of its kind, and nothing else.
THEOREM StepsCover ==
    ASSUME NEW x, IsChanges(x.changes)
    PROVE  Covered(x)
<1> DEFINE changes == ToSet(x.changes)
           changed == {ModuleOf(x.profile, c.new) : c \in changes}
           fields == FieldsOf(x.changes)
           steps == BuildTour(fields, x.first, x.profile, x.claims, changed)
           X == UNION {{c.code, c.old, c.new} : c \in changes}
<1>1. x.changes \in Seq(changes) /\ AreOf(changes, X) /\ \A c \in changes : IsChange(c)
  BY DEF IsChanges, AreOf, IsChange, ToSet
<1>2. IsChangeSet(changes)
  BY <1>1 DEF IsChangeSet, IsChanges, ToSet
<1>3. ReadBack(X, Read(fields), changes)
  <2> HIDE DEF X, changes
  <2>1. ReadBack(X, Read(fields), ToSet(x.changes))
    BY <1>1, AllReadBack
  <2>2. QED
    BY <2>1 DEF changes
<1> DEFINE got == Read(fields).got
<1>4. StepsAre(x, changed, got, steps)
  <2>1. Read(fields) \in ReadSet(X)
    BY <1>3 DEF ReadBack
  <2> HIDE DEF fields, changed, X
  <2>2. QED
    BY <2>1, StepsBuilt
<1> DEFINE added == QuietIn(x.profile, NewFiles(changes, {"A", "C"}))
           renamed == QuietIn(x.profile, NewFiles(changes, {"R"}))
           modified == QuietIn(x.profile, NewFiles(changes, {"M", "T"})) \ NewFiles(changes, {"R"})
           deleted == QuietIn(x.profile, NewFiles(changes, {"D"}))
<1> HIDE DEF steps, changes
<1>5. PICK dead : Parted(x, changed, added, renamed, modified, deleted, dead, steps)
  BY <1>3, <1>4 DEF StepsAre, ReadBack
<1> HIDE DEF added, renamed, modified, deleted, changed
<1>6. Shows(x, changed, added, renamed, modified, deleted, dead, steps)
  BY <1>5, KindsOfSteps
<1>7. {<<f, "added">> : f \in added} \cup {<<f, "renamed">> : f \in renamed} \cup {<<f, "modified">> : f \in modified}
        = {<<c.new, KindOf(c.code)>> : c \in {y \in changes : ~Noisy(x.profile, y.new) /\ y.code # "D"}}
  BY <1>2, ShownByKind DEF added, renamed, modified
<1>8. deleted = {c.new : c \in {y \in changes : ~Noisy(x.profile, y.new) /\ y.code = "D"}}
  BY DEF deleted, QuietIn, NewFiles
<1>9. \A t \in steps : t.kind # "deleted" /\ t.tag = "unclaimed" =>
        \E m \in changed : x.claims # None /\ m \in x.claims /\ ModuleOf(x.profile, t.file) \notin x.claims
  BY <1>6, Unclaimed DEF Shows
<1>10. /\ {<<t.file, t.kind>> : t \in {y \in steps : y.kind # "deleted"}}
            = {<<c.new, KindOf(c.code)>> : c \in {y \in changes : ~Noisy(x.profile, y.new) /\ y.code # "D"}}
       /\ UNION {t.all : t \in {y \in steps : y.kind = "deleted"}}
            = {c.new : c \in {y \in changes : ~Noisy(x.profile, y.new) /\ y.code = "D"}}
       /\ \A t, u \in {y \in steps : y.kind = "deleted"} : t = u
  BY <1>5, <1>6, <1>7, <1>8 DEF Parted, Shows
<1>11. QED
  BY <1>9, <1>10 DEF Covered, Noisy, steps, changes, changed
---------------------------------------------------------------------------
(* The elements of a sequence in the order they were first seen.           *)

Seen(acc, x) == IF \E i \in DOMAIN acc : acc[i] = x THEN acc ELSE Append(acc, x)

LEMMA SeenFold ==
    ASSUME NEW seq
    PROVE  FirstSeen(seq) =
             LET iter[s \in SUBSET DOMAIN seq] ==
                   IF s = {} THEN <<>> ELSE Seen(iter[s \ {Max(s)}], seq[Max(s)])
             IN  iter[DOMAIN seq]
  BY DEF FirstSeen, FoldLeft, MapThenFoldSet, Seen

SeenIn(E) == [p \in Seq(E) \X E |-> Seen(p[1], p[2])]

LEMMA SeenStays ==
    ASSUME NEW E
    PROVE  /\ Stays(SeenIn(E), Seq(E), E) /\ <<>> \in Seq(E)
           /\ \A a \in Seq(E), x \in E : SeenIn(E)[a, x] = Seen(a, x)
<1>1. \A a \in Seq(E), x \in E : Seen(a, x) \in Seq(E)
  BY DEF Seen
<1>2. \A a \in Seq(E), x \in E : SeenIn(E)[a, x] = Seen(a, x)
  BY DEF SeenIn
<1>3. Stays(SeenIn(E), Seq(E), E)
  BY <1>1, <1>2, Zenon DEF Stays
<1>4. <<>> \in Seq(E)
  OBVIOUS
<1>5. QED
  BY <1>2, <1>3, <1>4, Zenon

LEMMA SeenFolded ==
    ASSUME NEW E, NEW seq \in Seq(E)
    PROVE  FirstSeen(seq) = FoldedBy(Seq(E), SeenIn(E), <<>>, seq)
<1>1. Len(seq) \in Nat /\ DOMAIN seq = 1 .. Len(seq) /\ seq \in [1 .. Len(seq) -> E]
  OBVIOUS
<1> DEFINE Fold(h) == h = [s \in SUBSET (1 .. Len(seq)) |->
                             IF s = {} THEN <<>> ELSE Seen(h[s \ {Max(s)}], seq[Max(s)])]
           iter == CHOOSE h : Fold(h)
           F == SeenIn(E)
<1>2. /\ Stays(F, Seq(E), E) /\ <<>> \in Seq(E)
      /\ \A a \in Seq(E), x \in E : F[a, x] = Seen(a, x)
  BY SeenStays
<1> HIDE DEF F
<1>3. \E h : Fold(h)
  <2>1. PICK h : FoldOf(Seq(E), F, <<>>, seq, Len(seq), h)
    BY <1>1, <1>2, FoldIsThere
  <2>2. ASSUME NEW s \in SUBSET (1 .. Len(seq)), s # {}
        PROVE  F[h[s \ {Max(s)}], seq[Max(s)]] = Seen(h[s \ {Max(s)}], seq[Max(s)])
    <3>1. Max(s) \in 1 .. Len(seq)
      BY <1>1, <2>2, MaxInside
    <3>2. QED
      BY <1>1, <1>2, <2>1, <3>1 DEF FoldOf
  <2>3. QED
    BY <2>1, <2>2 DEF FoldOf
<1>4. iter[1 .. Len(seq)] = FirstSeen(seq)
  BY <1>1, SeenFold
<1>5. Fold(iter)
  <2> HIDE DEF Fold
  <2>1. QED
    BY <1>3
<1> HIDE DEF iter
<1>6. Iterates(Seq(E), F, <<>>, seq, iter)
  <2>1. iter[{}] = <<>>
    BY <1>5
  <2>2. ASSUME NEW s \in SUBSET (1 .. Len(seq)), s # {}, iter[s \ {Max(s)}] \in Seq(E)
        PROVE  iter[s] = F[iter[s \ {Max(s)}], seq[Max(s)]]
    <3>1. iter[s] = Seen(iter[s \ {Max(s)}], seq[Max(s)])
      BY <1>5, <2>2
    <3>2. seq[Max(s)] \in E
      BY <1>1, <2>2, MaxInside
    <3>3. QED
      BY <1>2, <2>2, <3>1, <3>2
  <2>3. QED
    BY <2>1, <2>2 DEF Iterates
<1> DEFINE none == <<>>  D == Seq(E)
<1>7. Folds(D, E, F, none) /\ Iterates(D, F, none, seq, iter)
  BY <1>2, <1>6 DEF Folds
<1> HIDE DEF none, D
<1>8. FoldedBy(D, F, none, seq) = iter[1 .. Len(seq)]
  BY <1>7, IteratedIsFolded
<1>9. QED
  BY <1>4, <1>8 DEF F, none, D

LEMMA SeenOfNone == FirstSeen(<<>>) = <<>>
<1>1. <<>> \in Seq({})
  OBVIOUS
<1>2. FirstSeen(<<>>) = FoldedBy(Seq({}), SeenIn({}), <<>>, <<>>)
  BY <1>1, SeenFolded
<1>3. Folds(Seq({}), {}, SeenIn({}), <<>>)
  BY SeenStays DEF Folds
<1>4. QED
  BY <1>2, <1>3, FoldedOfNone

LEMMA SeenOfMore ==
    ASSUME NEW E, NEW seq \in Seq(E), NEW e \in E
    PROVE  FirstSeen(Append(seq, e)) = Seen(FirstSeen(seq), e)
<1> DEFINE F == SeenIn(E)  more == Append(seq, e)
<1>1. /\ Stays(F, Seq(E), E) /\ <<>> \in Seq(E)
      /\ \A a \in Seq(E), x \in E : F[a, x] = Seen(a, x)
  BY SeenStays
<1>2. more \in Seq(E)
  OBVIOUS
<1> HIDE DEF more
<1>3. /\ FirstSeen(seq) = FoldedBy(Seq(E), F, <<>>, seq)
      /\ FirstSeen(more) = FoldedBy(Seq(E), F, <<>>, more)
  BY <1>2, SeenFolded
<1> HIDE DEF F
<1> DEFINE none == <<>>  D == Seq(E)
<1>4. Folds(D, E, F, none)
  BY <1>1 DEF Folds
<1>6. Extends(E, seq, e, more)
  BY AppendExtends DEF more
<1> HIDE DEF none, D
<1>7. OneStep(D, F, none, seq, e, more)
  BY <1>4, <1>6, FoldedOfMore
<1>8. FoldedBy(D, F, none, seq) \in D /\ FoldedBy(D, F, none, more) = F[FoldedBy(D, F, none, seq), e]
  BY <1>7 DEF OneStep
<1>9. QED
  BY <1>1, <1>3, <1>8 DEF more, none, D

\* They are the elements, each once.
LEMMA SeenAre ==
    ASSUME NEW E, NEW seq \in Seq(E)
    PROVE  /\ FirstSeen(seq) \in Seq(E) /\ ToSet(FirstSeen(seq)) = ToSet(seq)
           /\ \A i, j \in DOMAIN FirstSeen(seq) : FirstSeen(seq)[i] = FirstSeen(seq)[j] => i = j
<1> DEFINE Once(s) == \A i, j \in DOMAIN s : s[i] = s[j] => i = j
           P == {s \in Seq(E) : /\ FirstSeen(s) \in Seq(E) /\ ToSet(FirstSeen(s)) = ToSet(s)
                                /\ Once(FirstSeen(s))}
<1>1. <<>> \in P
  <2>1. <<>> \in Seq(E) /\ DOMAIN <<>> = {}
    OBVIOUS
  <2>2. QED
    BY <2>1, SeenOfNone
<1>2. ASSUME NEW s \in Seq(E), NEW e \in E, s \in P PROVE Append(s, e) \in P
  <2> DEFINE was == FirstSeen(s)  is == FirstSeen(Append(s, e))
  <2>1. Append(s, e) \in Seq(E) /\ ToSet(Append(s, e)) = ToSet(s) \cup {e}
    BY SetOfMore
  <2>2. is = Seen(was, e)
    BY SeenOfMore
  <2>3. was \in Seq(E) /\ ToSet(was) = ToSet(s) /\ Once(was)
    BY <1>2
  <2> HIDE DEF was, is
  <2>4. CASE e \in ToSet(was)
    <3>1. \E i \in DOMAIN was : was[i] = e
      BY <2>4 DEF ToSet
    <3>2. is = was
      BY <2>2, <3>1 DEF Seen
    <3>3. QED
      BY <2>1, <2>3, <2>4, <3>2 DEF is
  <2>5. CASE e \notin ToSet(was)
    <3>1. ~ \E i \in DOMAIN was : was[i] = e
      BY <2>5 DEF ToSet
    <3>2. is = Append(was, e)
      BY <2>2, <3>1 DEF Seen
    <3>3. is \in Seq(E) /\ ToSet(is) = ToSet(was) \cup {e}
      BY <2>3, <3>2, SetOfMore
    <3>4. Once(is)
      <4>1. /\ Len(is) = Len(was) + 1 /\ Len(was) \in Nat /\ is[Len(was) + 1] = e
            /\ \A i \in 1 .. Len(was) : is[i] = was[i]
        BY <2>3, <3>2, AppendProperties
      <4>2. DOMAIN was = 1 .. Len(was) /\ DOMAIN is = 1 .. Len(was) + 1
        BY <2>3, <3>3, <4>1
      <4>3. \A i \in DOMAIN is : i = Len(was) + 1 \/ i \in DOMAIN was
        BY <4>1, <4>2
      <4>4. \A i \in DOMAIN was : is[i] # e
        BY <3>1, <4>1, <4>2
      <4>5. QED
        BY <2>3, <4>1, <4>2, <4>3, <4>4
    <3>5. QED
      BY <2>1, <2>3, <3>3, <3>4 DEF is
  <2>6. QED
    BY <2>4, <2>5
<1>3. seq \in P
  <2> HIDE DEF P
  <2>1. QED
    BY <1>1, <1>2, EverySequence
<1>4. QED
  BY <1>3

\* As many lie in a set as there are places where one does.
LEMMA ThoseCounted ==
    ASSUME NEW E, NEW seq \in Seq(E), NEW keep
    PROVE  Len(Those(seq, keep)) = Cardinality({i \in DOMAIN seq : seq[i] \in keep})
<1> DEFINE Hits(s) == {i \in DOMAIN s : s[i] \in keep}
           P == {s \in Seq(E) : IsFiniteSet(Hits(s)) /\ Cardinality(Hits(s)) = Len(Those(s, keep))}
<1>1. <<>> \in P
  <2>1. <<>> \in Seq(E) /\ Hits(<<>>) = {} /\ Len(<<>>) = 0
    OBVIOUS
  <2>2. IsFiniteSet({}) /\ Cardinality({}) = 0
    BY FS_EmptySet
  <2> HIDE DEF Hits
  <2>3. QED
    BY <2>1, <2>2, ThoseOfNone
<1>2. ASSUME NEW s \in Seq(E), NEW e \in E, s \in P PROVE Append(s, e) \in P
  <2> DEFINE more == Append(s, e)
  <2>1. /\ more \in Seq(E) /\ Len(more) = Len(s) + 1 /\ Len(s) \in Nat
        /\ more[Len(s) + 1] = e /\ \A i \in 1 .. Len(s) : more[i] = s[i]
    BY AppendProperties
  <2>2. Those(more, keep) = Kept(keep, Those(s, keep), e) /\ Those(s, keep) \in Seq(E)
    BY ThoseOfMore, ThoseAre
  <2>3. IsFiniteSet(Hits(s)) /\ Cardinality(Hits(s)) = Len(Those(s, keep))
    BY <1>2
  <2>4. DOMAIN s = 1 .. Len(s) /\ DOMAIN more = 1 .. Len(s) + 1
    BY <2>1
  <2> HIDE DEF more
  <2>5. CASE e \in keep
    <3>1. Hits(more) = Hits(s) \cup {Len(s) + 1} /\ Len(s) + 1 \notin Hits(s)
      BY <2>1, <2>4, <2>5
    <3>2. Len(Those(more, keep)) = Len(Those(s, keep)) + 1
      BY <2>2, <2>5 DEF Kept
    <3> HIDE DEF Hits
    <3>3. IsFiniteSet(Hits(more)) /\ Cardinality(Hits(more)) = Cardinality(Hits(s)) + 1
      BY <2>3, <3>1, FS_AddElement
    <3>4. QED
      BY <2>1, <2>3, <3>2, <3>3 DEF more
  <2>6. CASE e \notin keep
    <3>1. Hits(more) = Hits(s)
      BY <2>1, <2>4, <2>6
    <3>2. Those(more, keep) = Those(s, keep)
      BY <2>2, <2>6 DEF Kept
    <3>3. QED
      BY <2>1, <2>3, <3>1, <3>2 DEF more
  <2>7. QED
    BY <2>5, <2>6
<1>3. seq \in P
  <2> HIDE DEF P
  <2>1. QED
    BY <1>1, <1>2, EverySequence
<1>4. QED
  BY <1>3
---------------------------------------------------------------------------
(* The innermost span around a line.                                       *)

IsSpans(spans) ==
    /\ None \notin spans
    /\ \A s \in spans : s.from \in Int /\ s.to \in Int /\ s.seq \in Nat
    /\ \A s, t \in spans : s.seq = t.seq => s = t

\* The spans of an index are numbered in the order of its rows.
LEMMA SpansAre ==
    ASSUME NEW index, IsIndex(index), IsSpanned(index)
    PROVE  IsSpans(FnSpans(index))
<1> DEFINE sc == Scan(index)
           Spanned == {o \in ToSet(sc) : o.def /\ FnTailName(o.sym) # None /\ o.enc.arity \in {3, 4}}
           defs == Those(sc, Spanned)
           Span(i) == [sym |-> defs[i].sym, path |-> defs[i].path, seq |-> i,
                       from |-> defs[i].enc.from,
                       to |-> IF defs[i].enc.arity = 3 THEN defs[i].enc.from ELSE defs[i].enc.to]
<1>1. PICK E : sc \in Seq(E)
  BY ScanIsSeq
<1>2. FnSpans(index) = {Span(i) : i \in DOMAIN defs}
  BY DEF FnSpans
<1>3. \A o \in ToSet(sc) : o.def => o.enc.from \in Int /\ o.enc.to \in Int
  BY DEF IsSpanned
<1>4. None \notin FnSpans(index)
  BY DEF IsSpanned
<1>5. Spanned \subseteq ToSet(sc) /\ \A o \in Spanned : o.def
  OBVIOUS
<1> HIDE DEF sc, Spanned
<1>6. defs \in Seq(E) /\ ToSet(defs) = Spanned
  <2>1. defs \in Seq(E) /\ ToSet(defs) = ToSet(sc) \cap Spanned
    BY <1>1, ThoseAre
  <2>2. QED
    BY <1>5, <2>1
<1> HIDE DEF defs
<1>7. \A i \in DOMAIN defs : i \in Nat /\ defs[i] \in Spanned
  BY <1>6 DEF ToSet
<1>8. \A i \in DOMAIN defs : defs[i].enc.from \in Int /\ defs[i].enc.to \in Int
  BY <1>3, <1>5, <1>7
<1>9. \A i \in DOMAIN defs : Span(i).from \in Int /\ Span(i).to \in Int /\ Span(i).seq = i
  BY <1>8
<1> HIDE DEF Span
<1> DEFINE spans == FnSpans(index)  places == DOMAIN defs
<1>10. spans = {Span(i) : i \in places} /\ None \notin spans
  BY <1>2, <1>4
<1>11. \A i \in places : Span(i).from \in Int /\ Span(i).to \in Int /\ Span(i).seq = i /\ i \in Nat
  BY <1>7, <1>9
<1> HIDE DEF spans, places
<1>12. \A s \in spans : s.from \in Int /\ s.to \in Int /\ s.seq \in Nat /\ s = Span(s.seq)
  BY <1>10, <1>11
<1>13. IsSpans(spans)
  <2>1. \A s, t \in spans : s.seq = t.seq => s = t
    BY <1>12, Zenon
  <2>2. QED
    BY <1>10, <1>12, <2>1 DEF IsSpans
<1>14. QED
  BY <1>13 DEF spans

\* Of the spans around a line, one is the narrowest and, of those, the first.
LEMMA SomeInnermost ==
    ASSUME NEW spans, IsSpans(spans), NEW o, o.line \in Int, \E t \in spans : Encloses(t, o)
    PROVE  \E s \in spans : IsInnermost(spans, s, o)
<1> DEFINE around == {s \in spans : Encloses(s, o)}
           Width(s) == s.to - s.from
           widths == {Width(s) : s \in around}
<1>1. around # {} /\ \A s \in around : Width(s) \in Nat /\ s.seq \in Nat
  BY DEF IsSpans, Encloses
<1>2. \E w \in widths : \A v \in widths : w <= v
  <2>1. widths \subseteq Nat /\ widths # {}
    BY <1>1
  <2> HIDE DEF widths
  <2>2. QED
    BY <2>1, LeastNumber
<1>3. PICK n \in around : \A t \in around : Width(n) <= Width(t)
  BY <1>2
<1> DEFINE least == {s \in around : Width(s) = Width(n)}
           seqs == {s.seq : s \in least}
<1>4. \E k \in seqs : \A l \in seqs : k <= l
  <2>1. seqs \subseteq Nat /\ seqs # {}
    BY <1>1
  <2> HIDE DEF seqs
  <2>2. QED
    BY <2>1, LeastNumber
<1>5. PICK s \in least : \A t \in least : s.seq <= t.seq
  BY <1>4
<1>6. ASSUME NEW t \in spans, Encloses(t, o)
      PROVE  s.to - s.from <= t.to - t.from /\ (s.to - s.from = t.to - t.from => s.seq <= t.seq)
  <2>1. t \in around
    BY <1>6
  <2>2. Width(s) <= Width(t)
    BY <1>3, <1>5, <2>1
  <2>3. Width(s) = Width(t) => t \in least
    BY <1>5, <2>1
  <2>4. QED
    BY <1>5, <2>2, <2>3
<1>7. QED
  BY <1>5, <1>6 DEF IsInnermost

\* And it is the one the code takes; where there is none, it takes none.
LEMMA InnermostIs ==
    ASSUME NEW spans, IsSpans(spans), NEW o, o.line \in Int
    PROVE  LET s == Innermost(spans, o.path, o.line) IN
           IF \E t \in spans : Encloses(t, o)
           THEN s \in spans /\ s # None /\ IsInnermost(spans, s, o)
                /\ \A t \in spans : IsInnermost(spans, t, o) => t = s
           ELSE s = None
<1> DEFINE around == {s \in spans : s.path = o.path /\ s.from <= o.line /\ o.line <= s.to}
           s == Innermost(spans, o.path, o.line)
           Narrowest(t) == \A u \in around \ {t} : Narrower(t, u)
<1>1. s = IF around = {} THEN None ELSE CHOOSE t \in around : Narrowest(t)
  BY DEF Innermost
<1>2. around = {t \in spans : Encloses(t, o)}
  <2>1. \A t \in spans : Encloses(t, o) <=> t.path = o.path /\ t.from <= o.line /\ o.line <= t.to
    BY DEF IsSpans, Encloses
  <2>2. QED
    BY <2>1
<1>3. \A t \in around : Narrowest(t) <=> IsInnermost(spans, t, o)
  <2>1. \A t, u \in around : /\ t.from \in Int /\ t.to \in Int /\ t.seq \in Nat
                             /\ t.seq = u.seq => t = u
    BY DEF IsSpans
  <2> DEFINE NotWider(t, u) == /\ t.to - t.from <= u.to - u.from
                               /\ t.to - t.from = u.to - u.from => t.seq <= u.seq
  <2>2. ASSUME NEW t \in around, NEW u \in around PROVE (u # t => Narrower(t, u)) <=> NotWider(t, u)
    <3>1. CASE u = t
      BY <2>1, <3>1
    <3>2. CASE u # t
      <4>1. t.seq # u.seq
        BY <2>1, <3>2
      <4>2. QED
        BY <2>1, <3>2, <4>1 DEF Narrower
    <3>3. QED
      BY <3>1, <3>2
  <2>3. \A t \in around : IsInnermost(spans, t, o) <=> \A u \in around : NotWider(t, u)
    BY <1>2 DEF IsInnermost
  <2> HIDE DEF around, NotWider
  <2>4. QED
    BY <2>2, <2>3
<1> HIDE DEF Narrowest, s
<1>4. \A t \in spans : IsInnermost(spans, t, o) => t \in around
  BY <1>2 DEF IsInnermost
<1>5. ASSUME \E t \in spans : Encloses(t, o)
      PROVE  s \in spans /\ s # None /\ IsInnermost(spans, s, o)
             /\ \A t \in spans : IsInnermost(spans, t, o) => t = s
  <2>1. PICK t \in spans : IsInnermost(spans, t, o)
    BY <1>5, SomeInnermost
  <2>2. s \in around /\ Narrowest(s)
    <3>1. around # {} /\ \E u \in around : Narrowest(u)
      BY <1>3, <1>4, <2>1
    <3> HIDE DEF around
    <3>2. QED
      BY <1>1, <3>1
  <2>3. s \in spans /\ IsInnermost(spans, s, o)
    BY <1>2, <1>3, <2>2
  <2>4. s # None
    BY <2>3 DEF IsSpans
  <2>5. ASSUME NEW u \in spans, IsInnermost(spans, u, o) PROVE u = s
    <3>1. /\ Encloses(u, o) /\ Encloses(s, o)
          /\ s.to - s.from <= u.to - u.from /\ (s.to - s.from = u.to - u.from => s.seq <= u.seq)
          /\ u.to - u.from <= s.to - s.from /\ (u.to - u.from = s.to - s.from => u.seq <= s.seq)
      BY <2>3, <2>5 DEF IsInnermost
    <3>2. /\ u.from \in Int /\ u.to \in Int /\ s.from \in Int /\ s.to \in Int
          /\ u.seq \in Nat /\ s.seq \in Nat /\ (u.seq = s.seq => u = s)
      BY <2>3 DEF IsSpans
    <3>3. QED
      BY <3>1, <3>2
  <2>6. QED
    BY <2>3, <2>4, <2>5
<1>6. (~ \E t \in spans : Encloses(t, o)) => s = None
  BY <1>1, <1>2
<1>7. QED
  BY <1>5, <1>6 DEF s
---------------------------------------------------------------------------
(* The attribution of references.                                          *)

\* The owner of a row is the symbol of the one span the code takes.
LEMMA OwnerIs ==
    ASSUME NEW spans, IsSpans(spans), NEW o, o.line \in Int
    PROVE  LET s == Innermost(spans, o.path, o.line) IN
           /\ s = None <=> \A t \in spans : ~Encloses(t, o)
           /\ s # None => s \in spans /\ s.path = o.path
           /\ \A sym : Owns(spans, sym, o) <=> s # None /\ s.sym = sym
<1> DEFINE s == Innermost(spans, o.path, o.line)
<1>1. CASE \E t \in spans : Encloses(t, o)
  <2>1. /\ s \in spans /\ s # None /\ IsInnermost(spans, s, o)
        /\ \A t \in spans : IsInnermost(spans, t, o) => t = s
    BY <1>1, InnermostIs
  <2>2. s.path = o.path
    BY <2>1 DEF IsInnermost, Encloses
  <2>3. \A sym : Owns(spans, sym, o) <=> s.sym = sym
    <3> HIDE DEF s
    <3>1. QED
      BY <2>1 DEF Owns
  <2>4. QED
    BY <1>1, <2>1, <2>2, <2>3
<1>2. CASE ~ \E t \in spans : Encloses(t, o)
  <2>1. s = None
    BY <1>2, InnermostIs
  <2>2. \A sym : ~Owns(spans, sym, o)
    BY <1>2 DEF Owns, IsInnermost
  <2>3. QED
    BY <1>2, <2>1, <2>2
<1>3. QED
  BY <1>1, <1>2

\* A reference is attributed once, to its owner.
THEOREM EachAttributed ==
    ASSUME NEW spans, IsSpans(spans), NEW E, NEW rows, rows \in Seq(E),
           \A o \in ToSet(rows) : o.line \in Int
    PROVE  Attributed(rows, spans)
<1> DEFINE all == ToSet(rows)
           Owner(o) == Innermost(spans, o.path, o.line)
           Owned == {o \in all : Owner(o) # None}
           inside == Those(rows, Owned)
           syms == [i \in DOMAIN inside |-> Owner(inside[i]).sym]
           order == FirstSeen(syms)
           Its(sym) == Those(inside, {o \in ToSet(inside) : Owner(o).sym = sym})
           Caller(sym, its) == [sym |-> sym, defPath |-> Owner(its[1]).path, sites |-> Locs(its)]
           callers == [i \in DOMAIN order |-> Caller(order[i], Its(order[i]))]
           Mine(sym) == {o \in all : Owns(spans, sym, o)}
           Bare == {o \in all : \A s \in spans : ~Encloses(s, o)}
<1>1. /\ Attribute(rows, spans).callers = callers
      /\ Attribute(rows, spans).itemLevel = Locs(Those(rows, all \ Owned))
  BY DEF Attribute
<1>2. \A o \in all : /\ Owner(o) = None <=> \A t \in spans : ~Encloses(t, o)
                     /\ Owner(o) # None => Owner(o) \in spans /\ Owner(o).path = o.path
                     /\ \A sym : Owns(spans, sym, o) <=> Owner(o) # None /\ Owner(o).sym = sym
  BY OwnerIs
<1> HIDE DEF Owner
<1>3. \A sym : Mine(sym) = {o \in Owned : Owner(o).sym = sym}
  BY <1>2
<1>4. Bare = all \ Owned
  BY <1>2
<1>5. \A o \in Owned : Owner(o) \in spans /\ Owner(o).path = o.path /\ o \in Mine(Owner(o).sym)
  BY <1>2
<1>6. \A o \in all : o \notin Bare =>
        \E s \in spans : \A sym \in {t.sym : t \in spans} : Owns(spans, sym, o) <=> sym = s.sym
  BY <1>2
<1>7. Owned \subseteq all
  OBVIOUS
<1> HIDE DEF all, Mine, Bare, Owned
<1>8. inside \in Seq(E) /\ ToSet(inside) = Owned
  <2>1. inside \in Seq(E) /\ ToSet(inside) = ToSet(rows) \cap Owned
    BY ThoseAre
  <2>2. QED
    BY <1>7, <2>1 DEF all
<1>9. \A sym : Its(sym) = Those(rows, Mine(sym)) /\ Its(sym) \in Seq(E) /\ ToSet(Its(sym)) = Mine(sym)
  <2>1. TAKE sym
  <2> DEFINE keep == {o \in ToSet(inside) : Owner(o).sym = sym}
  <2>2. Its(sym) = Those(inside, keep)
    OBVIOUS
  <2>3. Owned \cap keep = Mine(sym)
    BY <1>3, <1>8
  <2>4. keep = Mine(sym) /\ keep \subseteq ToSet(inside)
    BY <1>3, <1>8
  <2> HIDE DEF keep
  <2>5. Those(inside, keep) = Those(rows, Owned \cap keep)
    BY ThoseOfThose
  <2> HIDE DEF inside
  <2>6. Those(inside, keep) \in Seq(E) /\ ToSet(Those(inside, keep)) = ToSet(inside) \cap keep
    BY <1>8, ThoseAre
  <2>7. QED
    BY <2>2, <2>3, <2>4, <2>5, <2>6
<1> HIDE DEF inside, Its
<1> DEFINE names == {Owner(o).sym : o \in Owned}
<1>10. syms \in Seq(names) /\ ToSet(syms) = names
  <2>1. Len(inside) \in Nat /\ DOMAIN inside = 1 .. Len(inside)
    BY <1>8
  <2>2. \A i \in DOMAIN inside : inside[i] \in Owned
    BY <1>8 DEF ToSet
  <2>3. \A o \in Owned : \E i \in DOMAIN inside : inside[i] = o
    BY <1>8 DEF ToSet
  <2>4. syms \in [1 .. Len(inside) -> names]
    BY <2>1, <2>2
  <2>5. syms \in Seq(names)
    BY <2>1, <2>4
  <2>6. ToSet(syms) = names
    BY <2>2, <2>3 DEF ToSet
  <2>7. QED
    BY <2>5, <2>6
<1> HIDE DEF syms
<1>11. ToSet(order) = names /\ \A i, j \in DOMAIN order : order[i] = order[j] => i = j
  BY <1>10, SeenAre
<1>12. names = {s.sym : s \in {t \in spans : Mine(t.sym) # {}}}
  <2> DEFINE some == {t \in spans : Mine(t.sym) # {}}
  <2>1. \A o \in Owned : Owner(o) \in some
    BY <1>5
  <2>2. \A s \in some : \E o \in Owned : Owner(o).sym = s.sym
    BY <1>3
  <2> HIDE DEF some
  <2>3. names = {s.sym : s \in some}
    BY <2>1, <2>2
  <2>4. QED
    BY <2>3 DEF some
<1> HIDE DEF order, names
<1>13. \A i \in DOMAIN order : order[i] \in names
  BY <1>11 DEF ToSet
<1>14. \A i \in DOMAIN callers : callers[i].sym = order[i] /\ callers[i].sites = Locs(Its(order[i]))
         /\ callers[i].defPath = Owner(Its(order[i])[1]).path
  OBVIOUS
<1>15. DOMAIN callers = DOMAIN order
  OBVIOUS
<1> HIDE DEF callers, Caller
<1>16. {x.sym : x \in ToSet(callers)} = names
  <2>1. ToSet(order) = names
    BY <1>11
  <2>2. QED
    BY <1>14, <1>15, <2>1 DEF ToSet
<1>17. ASSUME NEW i \in DOMAIN callers
       PROVE  callers[i].sites = Locs(Those(rows, Mine(callers[i].sym)))
              /\ callers[i].defPath = callers[i].sites[1][1]
  <2> DEFINE its == Its(order[i])
  <2>1. order[i] \in names
    BY <1>13, <1>15, <1>17
  <2>2. Mine(order[i]) # {}
    BY <1>5, <2>1 DEF names
  <2>3. its \in Seq(E) /\ ToSet(its) = Mine(order[i])
    BY <1>9
  <2>4. 1 \in DOMAIN its /\ its[1] \in Mine(order[i])
    BY <2>2, <2>3 DEF ToSet
  <2>5. Owner(its[1]).path = its[1].path
    BY <1>3, <1>5, <2>4
  <2>6. Locs(its)[1][1] = its[1].path
    BY <2>4 DEF Locs
  <2> HIDE DEF its
  <2>7. QED
    BY <1>9, <1>14, <2>5, <2>6 DEF its
<1>18. \A x \in ToSet(callers) : x.sites = Locs(Those(rows, Mine(x.sym))) /\ x.defPath = x.sites[1][1]
  BY <1>17 DEF ToSet
<1>19. \A i, j \in DOMAIN callers : callers[i].sym = callers[j].sym => i = j
  BY <1>11, <1>14, <1>15
<1>20. QED
  BY <1>1, <1>4, <1>6, <1>12, <1>16, <1>18, <1>19 DEF Attributed, all, Mine, Bare
---------------------------------------------------------------------------
(* The edges between functions.                                            *)

FnRefs(rows) == {o \in ToSet(rows) : FnTailName(o.sym) # None /\ ~o.def}
FnDefs(rows) == {o \in ToSet(rows) : FnTailName(o.sym) # None /\ o.def}

LEMMA ScannedIs ==
    ASSUME NEW E, NEW rows, rows \in Seq(E)
    PROVE  ScanRowsAndDefs(rows) =
             [rows |-> Those(rows, FnRefs(rows)), defs |-> {o.sym : o \in FnDefs(rows)}]
<1> DEFINE all == ToSet(rows)
           Fns == {o \in all : FnTailName(o.sym) # None}
           fns == Those(rows, Fns)
           refs == {o \in ToSet(fns) : ~o.def}
           defs == {r \in ToSet(fns) : r.def}
<1>1. ScanRowsAndDefs(rows) = [rows |-> Those(fns, refs), defs |-> {o.sym : o \in defs}]
  BY DEF ScanRowsAndDefs
<1>2. ToSet(fns) = Fns
  <2>1. ToSet(fns) = all \cap Fns
    BY ThoseAre
  <2>2. QED
    BY <2>1
<1>3. refs \subseteq ToSet(fns) /\ defs = FnDefs(rows) /\ Fns \cap refs = FnRefs(rows)
  BY <1>2 DEF FnDefs, FnRefs
<1> HIDE DEF Fns, refs, defs
<1>4. Those(fns, refs) = Those(rows, Fns \cap refs)
  BY ThoseOfThose
<1>5. QED
  BY <1>1, <1>3, <1>4

\* The cache keeps every row of a function.
LEMMA ScannedAlike ==
    ASSUME NEW index, IsIndex(index)
    PROVE  ScanRowsAndDefs(BuildDb(index).occs) = ScanRowsAndDefs(Scan(index))
<1> DEFINE sc == Scan(index)  K == Stored(sc)  occs == Those(sc, K)
<1>1. PICK E : sc \in Seq(E)
  BY ScanIsSeq
<1>2. BuildDb(index).occs = occs
  BY DbIs
<1>3. K \subseteq ToSet(sc)
  BY DEF Stored
<1>4. \A o \in ToSet(sc) : FnTailName(o.sym) # None => o \in K
  BY DEF Stored, Tails, IngestSymbol, FnTailName
<1> HIDE DEF sc, K
<1>5. occs \in Seq(E) /\ ToSet(occs) = K
  <2>1. occs \in Seq(E) /\ ToSet(occs) = ToSet(sc) \cap K
    BY <1>1, ThoseAre
  <2>2. QED
    BY <1>3, <2>1
<1>6. FnRefs(occs) = FnRefs(sc) /\ FnDefs(occs) = FnDefs(sc) /\ K \cap FnRefs(sc) = FnRefs(sc)
  <2> HIDE DEF occs
  <2>1. QED
    BY <1>3, <1>4, <1>5 DEF FnRefs, FnDefs
<1> DEFINE refs == FnRefs(sc)
<1>7. Those(occs, refs) = Those(sc, K \cap refs)
  <2> HIDE DEF refs
  <2>1. QED
    BY <1>1, ThoseOfThose
<1>8. ScanRowsAndDefs(sc) = [rows |-> Those(sc, FnRefs(sc)), defs |-> {o.sym : o \in FnDefs(sc)}]
  BY <1>1, ScannedIs
<1>9. ScanRowsAndDefs(occs) = [rows |-> Those(occs, FnRefs(occs)), defs |-> {o.sym : o \in FnDefs(occs)}]
  <2> HIDE DEF occs
  <2>1. QED
    BY <1>5, ScannedIs
<1>10. QED
  BY <1>2, <1>6, <1>7, <1>8, <1>9 DEF sc

LEMMA EdgesAre ==
    ASSUME NEW rows, NEW spans
    PROVE  DeriveEdges(rows, spans).edges = CallEdges(RefGroups(ScanRowsAndDefs(rows).rows, spans))
  BY DEF DeriveEdges

LEMMA DerivedAlike ==
    ASSUME NEW index, IsIndex(index), NEW spans
    PROVE  DeriveEdges(BuildDb(index).occs, spans) = DeriveEdges(Scan(index), spans)
  BY ScannedAlike, Zenon DEF DeriveEdges

CallsOf(scan, spans, f, c) ==
    {i \in DOMAIN scan : ~scan[i].def /\ scan[i].sym = c /\ Owns(spans, f, scan[i])}
Functions(spans) == {s.sym : s \in spans}
FnSyms(scan) == {c \in SymbolsOf(scan) : FnTailName(c) # None}
CallEnds(scan, spans) ==
    {p \in Functions(spans) \X FnSyms(scan) : CallsOf(scan, spans, p[1], p[2]) # {}}
RefsOf(rows, c) == {o \in ToSet(rows) : FnTailName(o.sym) # None /\ ~o.def /\ o.sym = c}
CallersOf(scan, spans, c) == {f \in Functions(spans) : CallsOf(scan, spans, f, c) # {}}
CountedTo(scan, spans, c) ==
    {[caller |-> f, callee |-> c, sites |-> Cardinality(CallsOf(scan, spans, f, c))] :
       f \in CallersOf(scan, spans, c)}
EdgesTo(c, callers) == {[caller |-> x.sym, callee |-> c, sites |-> Len(x.sites)] : x \in ToSet(callers)}

\* The references to a function, as they are grouped, are those of the scan.
LEMMA GroupIs ==
    ASSUME NEW E, NEW rows, rows \in Seq(E), NEW c
    PROVE  LET refs == ScanRowsAndDefs(rows).rows IN
           /\ Those(refs, RefsTo(refs, {c})) = Those(rows, RefsOf(rows, c))
           /\ SymbolsOf(refs) = {o.sym : o \in FnRefs(rows)}
<1> DEFINE refs == Those(rows, FnRefs(rows))  keep == RefsTo(refs, {c})
<1>1. ScanRowsAndDefs(rows).rows = refs
  BY ScannedIs
<1>2. ToSet(refs) = FnRefs(rows)
  <2>1. ToSet(refs) = ToSet(rows) \cap FnRefs(rows)
    BY ThoseAre
  <2>2. QED
    BY <2>1 DEF FnRefs
<1>3. FnRefs(rows) \cap keep = RefsOf(rows, c)
  BY <1>2 DEF RefsTo, RefsOf, FnRefs
<1>4. SymbolsOf(refs) = {o.sym : o \in FnRefs(rows)}
  BY <1>2 DEF SymbolsOf
<1>5. Those(refs, keep) = Those(rows, FnRefs(rows) \cap keep)
  <2> HIDE DEF keep
  <2>1. QED
    BY ThoseOfThose
<1> HIDE DEF refs
<1>6. QED
  BY <1>1, <1>3, <1>4, <1>5

\* A caller of the group has as many sites as the scan has references to the
\* function that it owns.
LEMMA GroupCounted ==
    ASSUME NEW spans, IsSpans(spans), NEW E, NEW scan, scan \in Seq(E),
           \A o \in ToSet(scan) : o.line \in Int, NEW c, FnTailName(c) # None
    PROVE  EdgesTo(c, Attribute(Those(scan, RefsOf(scan, c)), spans).callers) = CountedTo(scan, spans, c)
<1> DEFINE R == RefsOf(scan, c)  group == Those(scan, R)
           callers == Attribute(group, spans).callers
           Mine(sym) == {o \in ToSet(group) : Owns(spans, sym, o)}
           Sites(f) == Cardinality(CallsOf(scan, spans, f, c))
           owners == CallersOf(scan, spans, c)
<1>1. group \in Seq(E) /\ ToSet(group) = R
  <2>1. group \in Seq(E) /\ ToSet(group) = ToSet(scan) \cap R
    BY ThoseAre
  <2>2. QED
    BY <2>1 DEF RefsOf
<1>2. Attributed(group, spans)
  <2>1. \A o \in ToSet(group) : o.line \in Int
    BY <1>1 DEF RefsOf
  <2> HIDE DEF group
  <2>2. QED
    BY <1>1, <2>1, EachAttributed
<1>3. /\ {x.sym : x \in ToSet(callers)} = {s.sym : s \in {t \in spans : Mine(t.sym) # {}}}
      /\ \A x \in ToSet(callers) : x.sites = Locs(Those(group, Mine(x.sym)))
  BY <1>2, Zenon DEF Attributed
<1>4. \A f : CallsOf(scan, spans, f, c) = {i \in DOMAIN scan : scan[i] \in Mine(f)}
  <2>1. \A i \in DOMAIN scan : scan[i] \in ToSet(scan)
    BY DEF ToSet
  <2>2. \A f : \A i \in DOMAIN scan :
          scan[i] \in Mine(f) <=> ~scan[i].def /\ scan[i].sym = c /\ Owns(spans, f, scan[i])
    <3>1. \A f : \A o : o \in Mine(f) <=> o \in R /\ Owns(spans, f, o)
      BY <1>1
    <3>2. \A i \in DOMAIN scan : scan[i] \in R <=> ~scan[i].def /\ scan[i].sym = c
      BY <2>1 DEF RefsOf
    <3> HIDE DEF Mine, R
    <3>3. QED
      BY <3>1, <3>2
  <2> HIDE DEF Mine
  <2>3. QED
    BY <2>2 DEF CallsOf
<1>5. \A f : Mine(f) # {} <=> CallsOf(scan, spans, f, c) # {}
  <2>1. \A f : Mine(f) \subseteq ToSet(scan)
    BY <1>1 DEF RefsOf
  <2>2. \A f : \A o \in Mine(f) : \E i \in DOMAIN scan : scan[i] = o
    BY <2>1 DEF ToSet
  <2> HIDE DEF Mine
  <2>3. QED
    BY <1>4, <2>2
<1>6. \A f : Len(Locs(Those(group, Mine(f)))) = Sites(f)
  <2>1. TAKE f
  <2>2. Mine(f) \subseteq R
    BY <1>1
  <2> DEFINE mine == Mine(f)
  <2> HIDE DEF R
  <2>3. Those(group, mine) = Those(scan, R \cap mine)
    <3> HIDE DEF mine
    <3>1. QED
      BY ThoseOfThose
  <2>4. R \cap mine = mine
    BY <2>2
  <2>5. CallsOf(scan, spans, f, c) = {i \in DOMAIN scan : scan[i] \in mine}
    BY <1>4
  <2> HIDE DEF mine, group
  <2>6. Those(scan, mine) \in Seq(E)
    BY ThoseAre
  <2>7. Len(Those(scan, mine)) = Sites(f)
    BY <2>5, ThoseCounted
  <2>8. Len(Locs(Those(scan, mine))) = Len(Those(scan, mine))
    BY <2>6 DEF Locs
  <2>9. QED
    BY <2>3, <2>4, <2>7, <2>8 DEF mine
<1> HIDE DEF Sites
<1>7. \A x \in ToSet(callers) : Len(x.sites) = Sites(x.sym)
  BY <1>3, <1>6
<1>8. {x.sym : x \in ToSet(callers)} = owners
  <2>1. owners = {s.sym : s \in {t \in spans : Mine(t.sym) # {}}}
    <3> DEFINE some == {t \in spans : Mine(t.sym) # {}}
    <3>1. \A t \in spans : t \in some <=> t.sym \in owners
      BY <1>5 DEF CallersOf, Functions
    <3>2. \A f \in owners : \E t \in spans : t.sym = f
      BY DEF CallersOf, Functions
    <3>3. some \subseteq spans
      OBVIOUS
    <3> HIDE DEF some, owners
    <3>4. owners = {s.sym : s \in some}
      BY <3>1, <3>2, <3>3
    <3>5. QED
      BY <3>4 DEF some
  <2> HIDE DEF owners, Mine
  <2>2. QED
    BY <1>3, <2>1
<1> DEFINE set == ToSet(callers)
<1> HIDE DEF set, owners
<1>9. {[caller |-> x.sym, callee |-> c, sites |-> Len(x.sites)] : x \in set}
        = {[caller |-> f, callee |-> c, sites |-> Sites(f)] : f \in owners}
  <2>1. \A x \in set : x.sym \in owners /\ Len(x.sites) = Sites(x.sym)
    BY <1>7, <1>8 DEF set
  <2>2. \A f \in owners : \E x \in set : x.sym = f
    BY <1>8 DEF set
  <2>3. QED
    BY <2>1, <2>2
<1>10. QED
  BY <1>9 DEF EdgesTo, CountedTo, set, owners, Sites

\* Every edge counts the references it stands for, and the faces agree on it.
THEOREM EdgesAreCounted ==
    ASSUME NEW index, IsIndex(index), IsSpanned(index)
    PROVE  EdgesCounted(index)
<1> DEFINE scan == Scan(index)  spans == FnSpans(index)
           refs == ScanRowsAndDefs(scan).rows
           syms == SymbolsOf(refs)
           To(c) == CountedTo(scan, spans, c)
           Got(c) == EdgesTo(c, Attribute(Those(refs, RefsTo(refs, {c})), spans).callers)
           Edge(f, c) == [caller |-> f, callee |-> c, sites |-> Cardinality(CallsOf(scan, spans, f, c))]
<1>1. PICK E : scan \in Seq(E)
  BY ScanIsSeq
<1>2. IsSpans(spans) /\ \A o \in ToSet(scan) : o.line \in Int
  BY SpansAre DEF IsSpanned
<1>3. DeriveEdges(scan, spans).edges = CallEdges(RefGroups(refs, spans))
  BY EdgesAre
<1>4. CallEdges(RefGroups(refs, spans)) = UNION {Got(c) : c \in syms}
  BY DEF CallEdges, RefGroups, EdgesTo
<1>5. DeriveEdges(BuildDb(index).occs, spans) = DeriveEdges(scan, spans)
  BY DerivedAlike
<1> HIDE DEF scan, spans
<1>6. /\ \A c : Those(refs, RefsTo(refs, {c})) = Those(scan, RefsOf(scan, c))
      /\ SymbolsOf(refs) = {o.sym : o \in FnRefs(scan)}
  BY <1>1, GroupIs
<1> HIDE DEF refs
<1>7. \A c \in SymbolsOf(refs) : FnTailName(c) # None /\ c \in SymbolsOf(scan)
  BY <1>6 DEF FnRefs, SymbolsOf
<1>8. ASSUME NEW c \in syms PROVE Got(c) = To(c)
  <2>1. FnTailName(c) # None /\ Those(refs, RefsTo(refs, {c})) = Those(scan, RefsOf(scan, c))
    BY <1>6, <1>7
  <2>2. EdgesTo(c, Attribute(Those(scan, RefsOf(scan, c)), spans).callers) = CountedTo(scan, spans, c)
    BY <1>1, <1>2, <2>1, GroupCounted
  <2>3. QED
    BY <2>1, <2>2
<1>9. ASSUME NEW c \in FnSyms(scan), NEW f, CallsOf(scan, spans, f, c) # {} PROVE c \in syms
  <2>1. PICK i \in DOMAIN scan : ~scan[i].def /\ scan[i].sym = c
    BY <1>9 DEF CallsOf
  <2>2. scan[i] \in FnRefs(scan)
    BY <1>9, <2>1 DEF FnRefs, FnSyms, ToSet
  <2>3. QED
    BY <1>6, <2>1, <2>2
<1> HIDE DEF Got
<1>10. DeriveEdges(scan, spans).edges = UNION {To(c) : c \in syms}
  <2> HIDE DEF To, syms
  <2>1. QED
    BY <1>3, <1>4, <1>8
<1> DEFINE left == UNION {To(c) : c \in syms}
           ends == CallEnds(scan, spans)
           right == {Edge(p[1], p[2]) : p \in ends}
<1>11. left = right
  <2>1. \A c \in syms : \A f \in CallersOf(scan, spans, c) : <<f, c>> \in ends
    BY <1>7 DEF CallEnds, FnSyms, CallersOf
  <2>2. \A p \in ends : p[2] \in syms /\ p[1] \in CallersOf(scan, spans, p[2])
    BY <1>9 DEF CallEnds, CallersOf
  <2>3. \A c : \A e : e \in To(c) <=> \E f \in CallersOf(scan, spans, c) : e = Edge(f, c)
    BY DEF CountedTo
  <2> HIDE DEF To, Edge, syms, ends
  <2>4. ASSUME NEW e \in left PROVE e \in right
    <3>1. PICK c \in syms : e \in To(c)
      BY <2>4
    <3>2. PICK f \in CallersOf(scan, spans, c) : e = Edge(f, c)
      BY <2>3, <3>1
    <3> DEFINE p == <<f, c>>
    <3>3. p \in ends /\ p[1] = f /\ p[2] = c
      BY <2>1
    <3> HIDE DEF p
    <3>4. QED
      BY <3>2, <3>3
  <2>5. ASSUME NEW e \in right PROVE e \in left
    <3>1. PICK p \in ends : e = Edge(p[1], p[2])
      BY <2>5
    <3>2. e \in To(p[2])
      BY <2>2, <2>3, <3>1
    <3>3. QED
      BY <2>2, <3>2
  <2> HIDE DEF left, right
  <2>6. QED
    BY <2>4, <2>5
<1> HIDE DEF left, To, syms, ends
<1>12. DeriveEdges(scan, spans).edges = right
  BY <1>10, <1>11 DEF left
<1>13. QED
  BY <1>5, <1>12 DEF EdgesCounted, scan, spans, ends, CallEnds, CallsOf, FnSyms, Functions

---------------------------------------------------------------------------
(* The theorems of the specification.                                      *)

\* The input of an algorithm is one of those it is stated for.
InputKnown ==
    /\ Given("anchors") => in \in RowSets
    /\ Given("paths") => in \in Trees
    /\ Given("faces") => in \in FaceIndexes
    /\ Given("edges") => in \in EdgeIndexes
    /\ Given("delta") => in \in Histories
    /\ Given("tour") => in \in ChangeLists

LEMMA InputsKnown == Spec => []InputKnown
<1>1. Start => InputKnown
  BY DEF Start, OwnStart, OfAnswers!Start, OfGraphs!Start, OfBoundary!Start, InputKnown, Given
<1>2. InputKnown /\ [in = <<>> /\ Input /\ UNCHANGED alg]_<<alg, in>> => InputKnown'
  <2>1. SUFFICES ASSUME InputKnown, [in = <<>> /\ Input /\ UNCHANGED alg]_<<alg, in>>
                 PROVE  InputKnown'
    OBVIOUS
  <2>2. CASE UNCHANGED <<alg, in>>
    BY <2>1, <2>2 DEF InputKnown, Given
  <2>3. CASE Input /\ UNCHANGED alg
    <3>1. alg = "anchors" => in' \in RowSets
      BY <2>3 DEF Input, OwnInput, OfAnswers!Input, OfGraphs!Input, OfBoundary!Input
    <3>2. alg = "paths" => in' \in Trees
      BY <2>3 DEF Input, OwnInput, OfAnswers!Input, OfGraphs!Input, OfBoundary!Input
    <3>3. alg = "faces" => in' \in FaceIndexes
      BY <2>3 DEF Input, OwnInput, OfAnswers!Input, OfGraphs!Input, OfBoundary!Input
    <3>4. (alg = "delta" => in' \in Histories) /\ (alg = "tour" => in' \in ChangeLists)
      BY <2>3 DEF Input, OwnInput, OfAnswers!Input, OfGraphs!Input, OfBoundary!Input
    <3>5. alg = "edges" => in' \in EdgeIndexes
      BY <2>3 DEF Input, OwnInput, OfAnswers!Input, OfGraphs!Input, OfBoundary!Input
    <3>6. QED
      BY <2>3, <3>1, <3>2, <3>3, <3>4, <3>5 DEF InputKnown, Given
  <2>4. QED
    BY <2>1, <2>2, <2>3
<1>3. QED
  BY <1>1, <1>2, PTL DEF Spec

\* Whatever the rows of the graph, the frames, the symbols and the drifts of
\* the lines are, unless rows of a nested path answer for the file: the
\* identity that a step of a tour carries is the only one the frame can
\* declare or spell, the one on its line where impls of one type compete, and
\* otherwise, a guess, no further than any of the name.
THEOREM AnchorsAreGrounded == Spec => []AnchorsGrounded
<1>1. InputKnown => AnchorsGrounded
  <2>1. SUFFICES ASSUME InputKnown, Given("anchors"), NEW f \in Frames
                 PROVE  FrameGrounded(in.rows, f, Drifts)
    BY DEF AnchorsGrounded
  <2>2. in \in RowSets
    BY <2>1 DEF InputKnown
  <2>3. IsRows(in.rows) /\ \A to \in Drifts : None \notin Moved(in.rows, to)
    BY <2>2, AnchorsAssumption
  <2>4. /\ \A s \in DOMAIN Symbols : s \in Nat /\ IsSymbol(Symbols[s])
        /\ IsFrame(f) /\ Drifts \subseteq [DOMAIN Symbols -> Nat]
    BY AnchorsAssumption
  <2>5. QED
    BY <2>3, <2>4, EveryFrameGrounded
<1>2. QED
  BY <1>1, InputsKnown, PTL

\* Whatever the trees, the spelled paths and those before them are: a context
\* settles a choice and never changes an answer.
THEOREM ContextsOnlySettle == Spec => []ContextOnlySettles
<1>1. InputKnown => ContextOnlySettles
  <2>1. SUFFICES ASSUME InputKnown, Given("paths"), NEW before \in Befores, NEW p \in Spelled
                 PROVE  LET done == ResolveAll(in, before) IN
                        Settled(in, p, Resolve(in, done.ctx, p), ResolveAll(in, <<p>>).got[1], done.got)
    BY DEF ContextOnlySettles
  <2>2. IsTree(in) /\ p \in Seq(Identifiers) /\ p # <<>> /\ before \in Seq(Spelled)
    BY <2>1, PathsAssumption DEF InputKnown
  <2>3. QED
    BY <2>2, ContextSettles
<1>2. QED
  BY <1>1, InputsKnown, PTL

\* Whatever the indexes and the queries are: the sqlite cache answers what a
\* scan of the index answers.
THEOREM FacesAlwaysAgree == Spec => []FacesAgree
<1>1. InputKnown => FacesAgree
  <2>1. SUFFICES ASSUME InputKnown, Given("faces")
                 PROVE  /\ \A q \in Queries : SameAnswers(in, BuildDb(in), q)
                        /\ SameTargets(in, BuildDb(in), Asked)
    BY DEF FacesAgree
  <2>2. IsIndex(in) /\ None \notin DOMAIN Asked
    BY <2>1, FacesAssumption DEF InputKnown
  <2>3. QED
    BY <2>2, FacesAnswerAlike, TargetsAgree
<1>2. QED
  BY <1>1, InputsKnown, PTL

\* Every reference of an index to one symbol is attributed.
LEMMA RowsAttributed ==
    ASSUME NEW index, IsIndex(index), IsSpanned(index), NEW callee
    PROVE  Attributed(RefsRows(index, {callee}), FnSpans(index))
<1> DEFINE scan == Scan(index)  spans == FnSpans(index)
           keep == RefsTo(scan, {callee})  rows == Those(scan, keep)
<1>1. PICK E : scan \in Seq(E)
  BY ScanIsSeq
<1>2. IsSpans(spans) /\ \A o \in ToSet(scan) : o.line \in Int
  BY SpansAre DEF IsSpanned
<1>3. RefsRows(index, {callee}) = rows
  BY DEF RefsRows
<1> HIDE DEF scan, spans, keep
<1>4. rows \in Seq(E) /\ ToSet(rows) = ToSet(scan) \cap keep
  BY <1>1, ThoseAre
<1>5. \A o \in ToSet(rows) : o.line \in Int
  BY <1>2, <1>4
<1> HIDE DEF rows
<1>6. Attributed(rows, spans)
  BY <1>2, <1>4, <1>5, EachAttributed
<1>7. QED
  BY <1>3, <1>6 DEF spans

\* Whatever the indexes are: a reference belongs to the innermost function
\* around it and to no other, and an edge counts the references it stands for.
THEOREM CallersAlwaysAttributed == Spec => []CallersAttributed
<1>1. InputKnown => CallersAttributed
  <2>1. SUFFICES ASSUME InputKnown, Given("edges")
                 PROVE  /\ \A callee \in SymbolsOf(Scan(in)) :
                             Attributed(RefsRows(in, {callee}), FnSpans(in))
                        /\ EdgesCounted(in)
    BY DEF CallersAttributed
  <2>2. IsIndex(in) /\ IsSpanned(in)
    BY <2>1, EdgesAssumption DEF InputKnown
  <2>3. QED
    BY <2>2, RowsAttributed, EdgesAreCounted
<1>2. QED
  BY <1>1, InputsKnown, PTL

\* Whatever the histories and the changes are: what two snapshots differ in is
\* explained, and every change has its step.
THEOREM DifferencesTrue == Spec => []DeltaTrue
<1>1. InputKnown => DeltaTrue
  <2>1. ASSUME InputKnown, Given("delta") PROVE Explained(in)
    <3>1. IsHistory(in)
      BY <2>1, DeltasAssumption DEF InputKnown
    <3>2. QED
      BY <3>1, DifferenceExplained
  <2>2. ASSUME InputKnown, Given("tour") PROVE Covered(in)
    <3>1. IsChanges(in.changes)
      BY <2>2, DeltasAssumption DEF InputKnown
    <3>2. QED
      BY <3>1, StepsCover
  <2>3. QED
    BY <2>1, <2>2 DEF DeltaTrue
<1>2. QED
  BY <1>1, InputsKnown, PTL
=============================================================================
