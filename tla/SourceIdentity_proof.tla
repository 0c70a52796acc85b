------------------------ MODULE SourceIdentity_proof ------------------------
(***************************************************************************)
(* Proofs about SourceIdentity, for any files, passes and bounds: what a   *)
(* pass that finds no drift has seen, through whatever cache, and that its *)
(* verdict and its delta agree.                                            *)
(***************************************************************************)
EXTENDS SourceIdentity, FiniteSetTheorems, TLAPS

States == [c : Contents, m : Nat]
Faces == {"python", "rust", "javascript", "typescript"}
Profs == (SUBSET (Sources \cup Elsewhere)) \cup {None}
Working == {"load", "hash", "judge", "delta"}
Hashes == [Files -> Contents \cup {None}]
Caches == [Files -> States \cup {None}]
Tops == (SUBSET Markers) \cup {None}

StampRecs == [gen : Nat, faces : SUBSET Faces, selection : {"auto", "explicit"},
              entries : Hashes, topology : Tops, profile : Profs]
DeltaRecs == [changed : SUBSET Files, removed : SUBSET Files, added : SUBSET Files,
              flags : SUBSET {"topology", "profile", "js-ts-config"}, full : BOOLEAN]
PassRecs == [policy : {None, "Full", "WriteBack", "ReadOnly"}, rows : SUBSET Files,
             times : [Files -> Nat \cup {None}], topology : Tops, oos : Nat,
             stamp : StampRecs \cup {None}, faces : SUBSET Faces, moved : BOOLEAN, cache : Caches,
             dirty : BOOLEAN, left : SUBSET Files, entries : Hashes, reads : Nat,
             drift : BOOLEAN, delta : DeltaRecs \cup {None}]

\* Every variable holds what the code can put in it.
SourceTypes ==
  /\ disk \in [Files -> States \cup {None}]
  /\ profile \in Profs /\ clock \in Nat /\ past \in [Files -> SUBSET (States \cup {None})]
  /\ stamp \in StampRecs /\ cache \in Caches
  /\ pc \in [Passes -> Working \cup {"idle", "done", "error"}]
  /\ pass \in [Passes -> PassRecs]
  /\ held \in [Passes -> [Files -> SUBSET (States \cup {None})]]
  /\ raced \in SUBSET Files
  /\ budget \in [edits : Nat, moves : Nat, stamps : Nat]

LEMMA NoneFacts ==
  /\ None \notin Contents /\ None \notin States /\ None \notin SUBSET Markers
BY SourceSentinelAssumption DEF States

\* Rust files and the rows of their inputs.
RustFace(f) == FaceOf(f) \in {"rust", "rust-input"}

LEMMA FaceFacts ==
  /\ \A f \in Python : FaceOf(f) = "python" /\ ~RustFace(f)
  /\ \A f \in Rust : FaceOf(f) = "rust" /\ RustFace(f)
  /\ \A f \in JavaScript : FaceOf(f) = "javascript" /\ ~RustFace(f)
  /\ \A f \in TypeScript : FaceOf(f) = "typescript" /\ ~RustFace(f)
  /\ \A f \in Inputs \cup Markers : FaceOf(f) = "rust-input" /\ RustFace(f)
BY SourceIdentityAssumption DEF FaceOf, RustFace, Sources, Scripts

LEMMA SpendFacts ==
  ASSUME SourceTypes, NEW k \in {"edits", "moves", "stamps"}, Spend(k)
  PROVE  /\ budget' \in [edits : Nat, moves : Nat, stamps : Nat]
         /\ budget'.moves <= budget.moves
         /\ k # "moves" => budget'.moves = budget.moves
         /\ k = "moves" => budget'.moves = budget.moves - 1 /\ budget.moves > 0
<1>1. CASE k = "edits"
  BY <1>1 DEF SourceTypes, Spend
<1>2. CASE k = "moves"
  BY <1>2 DEF SourceTypes, Spend
<1>3. CASE k = "stamps"
  BY <1>3 DEF SourceTypes, Spend
<1> QED
  BY <1>1, <1>2, <1>3

---------------------------------------------------------------------------
(* What the variables hold.                                                *)

LEMMA ContentFacts ==
  ASSUME disk \in [Files -> States \cup {None}]
  PROVE  /\ Content(disk) \in Hashes
         /\ \A f \in Files : Content(disk)[f] # None => disk[f] \in States /\ disk[f].c = Content(disk)[f]
<1>1. ASSUME NEW f \in Files
      PROVE  /\ Content(disk)[f] \in Contents \cup {None}
             /\ Content(disk)[f] # None => disk[f] \in States /\ disk[f].c = Content(disk)[f]
  <2>1. disk[f] \in States \cup {None}
    OBVIOUS
  <2>2. Content(disk)[f] = IF disk[f] = None THEN None ELSE disk[f].c
    BY DEF Content
  <2>3. disk[f] # None => disk[f].c \in Contents
    BY <2>1 DEF States
  <2> QED
    BY <2>1, <2>2, <2>3
<1> QED
  BY <1>1 DEF Content, Hashes

\* The rows of a walk, and what it detects.
LEMMA WalkFacts ==
  /\ \A d, ex : Source(d, ex) \subseteq Files /\ InputsFound(d, ex) \subseteq Files
  /\ \A d, ex : Topology(d, ex) \in Tops
  /\ \A d, ex : Detected(d, ex) \subseteq Faces
  /\ \A d, ex : "rust" \in Detected(d, ex) <=> RustWalk(d, ex)
  /\ \A d, ex : RustWalk(d, ex) <=> Topology(d, ex) # None
<1> USE FaceFacts, NoneFacts
<1>1. ASSUME NEW d, NEW ex
      PROVE  /\ Source(d, ex) \subseteq Files /\ InputsFound(d, ex) \subseteq Files
             /\ Topology(d, ex) \in Tops
             /\ RustWalk(d, ex) <=> Topology(d, ex) # None
  <2>1. Source(d, ex) \subseteq Files /\ InputsFound(d, ex) \subseteq Files
    BY DEF Source, InputsFound, Files
  <2>2. CASE RustWalk(d, ex)
    BY <2>1, <2>2 DEF Topology, Tops
  <2>3. CASE ~RustWalk(d, ex)
    BY <2>1, <2>3 DEF Topology, Tops
  <2> QED
    BY <2>1, <2>2, <2>3
<1>2. ASSUME NEW d, NEW ex
      PROVE  /\ Detected(d, ex) \subseteq Faces
             /\ "rust" \in Detected(d, ex) <=> RustWalk(d, ex)
  <2>1. Source(d, ex) \subseteq Python \cup Rust \cup JavaScript \cup TypeScript
    BY DEF Source, Sources, Scripts
  <2>2. \A f \in Source(d, ex) : FaceOf(f) \in Faces /\ (FaceOf(f) = "rust" <=> f \in Rust)
    BY <2>1 DEF Faces
  <2> QED
    BY <2>2 DEF Detected, RustWalk
<1> QED
  BY <1>1, <1>2

\* What holds of every stamp: rows of its faces only, and a topology exactly
\* when Rust is one of them.
StampOK(s) ==
  /\ \A f \in Files : s.entries[f] # None => InScope(f, s.faces)
  /\ "rust" \in s.faces <=> s.topology # None

LEMMA CapturedFacts ==
  ASSUME disk \in [Files -> States \cup {None}], profile \in Profs,
         NEW selection \in {"auto", "explicit"}, NEW gen \in Nat
  PROVE  /\ Captured(selection, gen) \in StampRecs /\ StampOK(Captured(selection, gen))
         /\ Captured(selection, gen).gen = gen
<1> DEFINE faces == IF selection = "auto" THEN Detected(disk, profile) ELSE Detected(disk, profile) \cap Pin
           entries == Pick(Rows(disk, profile, faces), Content(disk))
           topology == IF "rust" \in faces THEN Topology(disk, profile) ELSE None
<1>1. faces \in SUBSET Faces
  BY WalkFacts DEF Faces
<1>2. entries \in Hashes
  BY ContentFacts DEF Pick, Hashes
<1>3. topology \in Tops
  BY WalkFacts DEF Tops
<1>4. "rust" \in faces <=> topology # None
  BY WalkFacts
<1>5. \A f \in Files : entries[f] # None => InScope(f, faces)
  BY DEF Pick, Rows
<1> HIDE DEF faces, entries, topology
<1>6. Captured(selection, gen) = [gen |-> gen, faces |-> faces, selection |-> selection,
                                  entries |-> entries, topology |-> topology,
                                  profile |-> profile]
  BY DEF Captured, faces, entries, topology
<1> QED
  BY <1>1, <1>2, <1>3, <1>4, <1>5, <1>6 DEF StampRecs, StampOK

LEMMA IdleFacts == Idle \in PassRecs
<1>1. NoEntries \in Hashes /\ NoEntries \in Caches /\ NoEntries \in [Files -> Nat \cup {None}]
  BY DEF NoEntries, Hashes, Caches
<1> QED
  BY <1>1 DEF Idle, PassRecs, Tops

\* One pass goes on; the others stay.
LEMMA GoFacts ==
  ASSUME SourceTypes, NEW p \in Passes, NEW to \in Working \cup {"idle", "done", "error"},
         NEW j \in PassRecs, Go(p, to, j)
  PROVE  /\ pc' \in [Passes -> Working \cup {"idle", "done", "error"}]
         /\ pass' \in [Passes -> PassRecs]
         /\ pc'[p] = to /\ pass'[p] = j
         /\ \A q \in Passes : q # p => pc'[q] = pc[q] /\ pass'[q] = pass[q]
BY DEF SourceTypes, Go

\* The world moves a file.
LEMMA BecomesFacts ==
  ASSUME SourceTypes, NEW f \in Files, NEW new \in States \cup {None}, Becomes(f, new)
  PROVE  /\ disk' \in [Files -> States \cup {None}] /\ disk'[f] = new
         /\ \A g \in Files : g # f => disk'[g] = disk[g]
         /\ past' \in [Files -> SUBSET (States \cup {None})] /\ past'[f] = past[f] \cup {new}
         /\ \A g \in Files : g # f => past'[g] = past[g]
         /\ held' \in [Passes -> [Files -> SUBSET (States \cup {None})]]
         /\ \A p \in Passes : pc[p] = "idle" => held'[p] = held[p]
         /\ \A p \in Passes : pc[p] # "idle" =>
               held'[p][f] = held[p][f] \cup {new} /\ \A g \in Files : g # f => held'[p][g] = held[p][g]
         /\ UNCHANGED <<profile, stamp, cache, pc, pass, raced>>
<1>1. ASSUME NEW p \in Passes, pc[p] # "idle"
      PROVE  /\ held'[p] = [held[p] EXCEPT ![f] = held[p][f] \cup {new}]
             /\ held[p] \in [Files -> SUBSET (States \cup {None})]
  BY <1>1 DEF Becomes, SourceTypes
<1>2. ASSUME NEW p \in Passes, pc[p] = "idle" PROVE held'[p] = held[p]
  BY <1>2 DEF Becomes
<1>3. ASSUME NEW p \in Passes PROVE held'[p] \in [Files -> SUBSET (States \cup {None})]
  <2>1. CASE pc[p] = "idle"
    BY <1>2, <2>1 DEF SourceTypes
  <2>2. CASE pc[p] # "idle"
    <3>1. held[p] \in [Files -> SUBSET (States \cup {None})]
      BY DEF SourceTypes
    <3>2. held[p][f] \cup {new} \in SUBSET (States \cup {None})
      BY <3>1
    <3>3. held'[p] = [held[p] EXCEPT ![f] = held[p][f] \cup {new}]
      BY <1>1, <2>2
    <3> QED
      BY <3>1, <3>2, <3>3
  <2> QED
    BY <2>1, <2>2
<1>4. held' \in [Passes -> [Files -> SUBSET (States \cup {None})]]
  BY <1>3 DEF Becomes
<1>5. ASSUME NEW p \in Passes, pc[p] # "idle"
      PROVE  held'[p][f] = held[p][f] \cup {new} /\ \A g \in Files : g # f => held'[p][g] = held[p][g]
  BY <1>1, <1>5
<1>6. /\ disk' = [disk EXCEPT ![f] = new] /\ past' = [past EXCEPT ![f] = past[f] \cup {new}]
      /\ UNCHANGED <<profile, stamp, cache, pc, pass, raced>>
  BY DEF Becomes
<1> QED
  BY <1>2, <1>4, <1>5, <1>6 DEF SourceTypes

---------------------------------------------------------------------------
(* What each step of a pass makes of its locals.                           *)

LEMMA WalkEffect ==
  ASSUME SourceTypes, NEW p \in Passes, Walk(p)
  PROVE  /\ pc[p] = "idle" /\ pass'[p] \in PassRecs
         /\ \E j \in PassRecs : Go(p, "load", j)
         /\ pass'[p].rows = Source(disk, profile) \cup InputsFound(disk, profile)
         /\ pass'[p].times = [f \in Files |-> IF On(disk, f) THEN disk[f].m ELSE None]
         /\ pass'[p].topology = Topology(disk, profile)
         /\ pass'[p].cache = NoEntries /\ pass'[p].entries = NoEntries /\ pass'[p].left = {}
<1> DEFINE rows == Source(disk, profile) \cup InputsFound(disk, profile)
           times == [f \in Files |-> IF On(disk, f) THEN disk[f].m ELSE None]
           topology == Topology(disk, profile)
<1>1. PICK policy \in {"Full", "WriteBack", "ReadOnly"} :
         Go(p, "load", [Idle EXCEPT !.policy = policy, !.rows = rows, !.times = times,
                                    !.topology = topology])
  BY DEF Walk
<1>2. rows \in SUBSET Files
  BY WalkFacts
<1>3. topology \in Tops
  BY WalkFacts
<1>4. times \in [Files -> Nat \cup {None}]
  <2>1. ASSUME NEW f \in Files PROVE On(disk, f) => disk[f].m \in Nat
    BY DEF SourceTypes, On, States
  <2> QED
    BY <2>1
<1> DEFINE j == [Idle EXCEPT !.policy = policy, !.rows = rows, !.times = times,
                             !.topology = topology]
<1> HIDE DEF rows, times, topology
<1>5. policy \in {None, "Full", "WriteBack", "ReadOnly"}
  OBVIOUS
<1>6. Idle.cache = NoEntries /\ Idle.entries = NoEntries /\ Idle.left = {}
  BY DEF Idle
<1>7. j \in PassRecs
  BY <1>2, <1>3, <1>4, <1>5, IdleFacts DEF PassRecs
<1>11. /\ j.rows = rows /\ j.times = times /\ j.topology = topology
       /\ j.cache = NoEntries /\ j.entries = NoEntries /\ j.left = {}
  BY <1>6, IdleFacts DEF PassRecs
<1> HIDE DEF j
<1>8. Go(p, "load", j)
  BY <1>1 DEF j
<1>9. pass'[p] = j
  BY <1>7, <1>8, GoFacts DEF Working
<1>10. pc[p] = "idle"
  BY DEF Walk
<1> QED
  BY <1>7, <1>8, <1>9, <1>10, <1>11 DEF rows, times, topology

Found(j) == {FaceOf(f) : f \in j.rows} \ {"rust-input"}
FacesOf(j) == stamp.faces \cup (IF stamp.selection = "auto" THEN Found(j) ELSE {})
OutOfScope(j, faces) == {f \in j.rows : ~InScope(f, faces)}

LEMMA LoadEffect ==
  ASSUME SourceTypes, NEW p \in Passes, LoadStamp(p), pass[p].rows \subseteq Files
  PROVE  LET j == pass[p]  k == pass'[p] IN
         /\ pc[p] = "load" /\ k \in PassRecs /\ Go(p, "hash", k)
         /\ k.stamp = stamp /\ k.faces = FacesOf(j)
         /\ k.rows = {f \in j.rows : InScope(f, FacesOf(j))} /\ k.left = k.rows
         /\ k.oos = Cardinality(OutOfScope(j, stamp.faces))
         /\ k.cache = NoEntries \/ k.cache = cache
         /\ k.times = j.times /\ k.topology = j.topology /\ k.entries = j.entries
         /\ k.policy = j.policy
<1> DEFINE j == pass[p]
           faces == FacesOf(j)
           rows == {f \in j.rows : InScope(f, faces)}
           oos == Cardinality(OutOfScope(j, stamp.faces))
           known == IF j.policy = "ReadOnly" THEN NoEntries ELSE cache
           moved == ProfileMoved(stamp)
           k == [j EXCEPT !.stamp = stamp, !.faces = faces, !.left = rows, !.rows = rows,
                          !.moved = moved, !.oos = oos, !.cache = known]
<1>1. Go(p, "hash", k) /\ pc[p] = "load"
  BY DEF LoadStamp, FacesOf, Found, OutOfScope
<1>11. moved \in BOOLEAN
  BY DEF ProfileMoved
<1>2. j \in PassRecs /\ j.rows \subseteq Files
  BY DEF SourceTypes, PassRecs
<1>3. faces \in SUBSET Faces
  <2>1. stamp.faces \subseteq Faces
    BY DEF SourceTypes, StampRecs
  <2>2. Found(j) \subseteq Faces
    BY DEF Found, FaceOf, Faces
  <2> QED
    BY <2>1, <2>2 DEF FacesOf
<1>4. rows \in SUBSET Files
  BY <1>2
<1>5. oos \in Nat
  <2>1. OutOfScope(j, stamp.faces) \subseteq Files
    BY <1>2 DEF OutOfScope
  <2>2. IsFiniteSet(OutOfScope(j, stamp.faces))
    BY <2>1, FS_Subset, SourceIdentityAssumption
  <2> QED
    BY <2>2, FS_CardinalityType
<1>6. known \in Caches /\ (known = NoEntries \/ known = cache)
  BY DEF SourceTypes, NoEntries, Caches
<1>7. stamp \in StampRecs
  BY DEF SourceTypes
<1> HIDE DEF faces, rows, oos, known, moved, j
<1>8. k \in PassRecs
  BY <1>2, <1>11, <1>3, <1>4, <1>5, <1>6, <1>7 DEF PassRecs
<1>9. /\ k.stamp = stamp /\ k.faces = faces /\ k.rows = rows /\ k.left = rows /\ k.oos = oos
      /\ k.cache = known /\ k.times = j.times /\ k.topology = j.topology
      /\ k.entries = j.entries /\ k.policy = j.policy
  BY <1>2 DEF PassRecs
<1> HIDE DEF k
<1>10. pass'[p] = k
  BY <1>1, <1>8, GoFacts DEF Working
<1> QED
  BY <1>1, <1>6, <1>8, <1>9, <1>10 DEF faces, rows, oos, j

\* What a pass keeps of its walk and of the stamp once it has loaded it.
Frame(j, k) ==
  /\ k.rows = j.rows /\ k.times = j.times /\ k.topology = j.topology /\ k.stamp = j.stamp
  /\ k.faces = j.faces /\ k.oos = j.oos /\ k.policy = j.policy

\* A hash read now, under the time of the walk.
ReadNow(j, k, f) ==
  /\ On(disk, f) /\ k.entries = [j.entries EXCEPT ![f] = disk[f].c]
  /\ \/ k.cache = j.cache
     \/ /\ k.cache = [j.cache EXCEPT ![f] = [c |-> disk[f].c, m |-> j.times[f]]]
        /\ disk[f].m # j.times[f] => f \in raced'

\* A hash taken from the cache.
TakenFromCache(j, k, f) ==
  /\ j.cache[f] # None /\ j.cache[f].m = j.times[f]
  /\ k.entries = [j.entries EXCEPT ![f] = j.cache[f].c] /\ k.cache = j.cache

LEMMA HashEffect ==
  ASSUME SourceTypes, NEW p \in Passes, NEW f \in Files, Hash(p, f), pass[p].times[f] \in Nat
  PROVE  LET j == pass[p]  k == pass'[p] IN
         /\ pc[p] = "hash" /\ f \in j.left /\ k \in PassRecs
         /\ raced \subseteq raced' /\ raced' \in SUBSET Files
         /\ \/ Go(p, "error", k) /\ k = Idle
            \/ /\ Go(p, "hash", k) /\ Frame(j, k) /\ k.left = j.left \ {f}
               /\ ReadNow(j, k, f) \/ TakenFromCache(j, k, f)
<1> DEFINE i == pass[p]
           j == [i EXCEPT !.left = i.left \ {f}]
<1>1. i \in PassRecs
  BY DEF SourceTypes
<1> HIDE DEF i
<1>2. j \in PassRecs /\ Frame(i, j) /\ j.left = i.left \ {f} /\ j.cache = i.cache
      /\ j.entries = i.entries /\ j.reads = i.reads
  BY <1>1 DEF PassRecs, Frame
<1>3. f \in i.left /\ pc[p] = "hash"
  <2>1. pc[p] = "hash" /\ i.left # {} /\ f = Foremost(i.left)
    BY DEF Hash, i
  <2> QED
    BY <2>1 DEF Foremost
<1>4. raced \subseteq raced' /\ raced' \in SUBSET Files
  BY DEF Hash, SourceTypes
<1>5. Hit(i, f) <=> Hit(j, f)
  BY <1>2 DEF Hit, Frame
<1>6. CASE Hit(j, f)
  <2> DEFINE k == [j EXCEPT !.entries = [j.entries EXCEPT ![f] = j.cache[f].c]]
  <2>1. Go(p, "hash", k)
    BY <1>6 DEF Hash, i
  <2>2. [j.entries EXCEPT ![f] = j.cache[f].c] \in Hashes
    <3>1. j.cache[f] \in States /\ j.entries \in Hashes
      BY <1>2, <1>6 DEF Hit, PassRecs, Caches
    <3> QED
      BY <3>1 DEF Hashes, States
  <2> DEFINE entries == [j.entries EXCEPT ![f] = j.cache[f].c]
  <2> HIDE DEF j, entries
  <2>3. k \in PassRecs /\ Frame(j, k) /\ k.entries = entries /\ k.cache = j.cache /\ k.left = j.left
    <3>1. k = [j EXCEPT !.entries = entries]
      BY DEF entries
    <3>2. entries \in Hashes
      BY <2>2 DEF entries
    <3> HIDE DEF k
    <3> QED
      BY <1>2, <3>1, <3>2 DEF PassRecs, Frame
  <2>4. j.cache[f] # None /\ j.cache[f].m = j.times[f]
    BY <1>6 DEF Hit
  <2> HIDE DEF k
  <2>5. pass'[p] = k
    BY <2>1, <2>3, GoFacts DEF Working
  <2>6. Frame(i, k) /\ TakenFromCache(i, k, f)
    BY <1>2, <2>3, <2>4 DEF Frame, TakenFromCache, entries
  <2> QED
    BY <1>2, <1>3, <1>4, <2>1, <2>3, <2>5, <2>6 DEF i
<1>7. CASE ~Hit(j, f) /\ On(disk, f)
  <2> DEFINE recorded == j.policy # "ReadOnly"
             entry == [c |-> disk[f].c, m |-> j.times[f]]
             entries == [j.entries EXCEPT ![f] = disk[f].c]
             kept == [j.cache EXCEPT ![f] = IF recorded THEN entry ELSE j.cache[f]]
             k == [j EXCEPT !.entries = entries, !.reads = j.reads + 1, !.dirty = recorded,
                            !.cache = kept]
  <2>1. Go(p, "hash", k)
    BY <1>7 DEF Hash, i
  <2>2. disk[f] \in States /\ disk[f].c \in Contents
    BY <1>7 DEF SourceTypes, On, States
  <2>3. entries \in Hashes
    BY <1>2, <2>2 DEF PassRecs, Hashes
  <2>4. j.cache \in Caches /\ entry \in States
    BY <1>2, <2>2 DEF PassRecs, States, Frame, i
  <2>5. kept \in Caches
    BY <2>4 DEF Caches
  <2>6. recorded => kept = [j.cache EXCEPT ![f] = entry]
    OBVIOUS
  <2>7. ~recorded => kept = j.cache
    BY <2>4 DEF Caches
  <2>8. recorded /\ disk[f].m # i.times[f] => f \in raced'
    BY <1>2, <1>5, <1>7 DEF Hash, Frame, i
  <2>9. recorded \in BOOLEAN /\ j.reads + 1 \in Nat
    BY <1>2 DEF PassRecs
  <2> HIDE DEF j, recorded, entries, kept
  <2>10. k \in PassRecs /\ Frame(j, k) /\ k.entries = entries /\ k.cache = kept /\ k.left = j.left
    BY <1>2, <2>3, <2>5, <2>9 DEF PassRecs, Frame
  <2> HIDE DEF k
  <2>11. pass'[p] = k
    BY <2>1, <2>10, GoFacts DEF Working
  <2>12. Frame(i, k) /\ ReadNow(i, k, f)
    BY <1>2, <1>7, <2>6, <2>7, <2>8, <2>10 DEF Frame, ReadNow, entries
  <2> QED
    BY <1>2, <1>3, <1>4, <2>1, <2>10, <2>11, <2>12 DEF i
<1>8. CASE ~Hit(j, f) /\ ~On(disk, f)
  <2>1. Go(p, "error", Idle)
    BY <1>8 DEF Hash, i
  <2>2. pass'[p] = Idle
    BY <2>1, IdleFacts, GoFacts
  <2> QED
    BY <1>3, <1>4, <2>1, <2>2, IdleFacts DEF i
<1> QED
  BY <1>6, <1>7, <1>8

LEMMA StoreEffect ==
  ASSUME SourceTypes, NEW p \in Passes, Store(p)
  PROVE  LET j == pass[p]  k == pass'[p] IN
         /\ pc[p] = "hash" /\ j.left = {} /\ k \in PassRecs
         /\ Go(p, "judge", k) /\ Frame(j, k) /\ k.left = {} /\ k.entries = j.entries /\ k.cache = j.cache
         /\ cache' \in Caches
         /\ \A f \in Files : cache'[f] \in {None, j.cache[f], cache[f]}
<1> DEFINE j == pass[p]
           k == [j EXCEPT !.dirty = FALSE]
           kept == Pick(j.rows, j.cache)
<1>1. j \in PassRecs /\ pc[p] = "hash" /\ j.left = {} /\ Go(p, "judge", k)
  BY DEF Store, SourceTypes
<1>2. kept \in Caches /\ \A f \in Files : kept[f] \in {None, j.cache[f]}
  BY <1>1 DEF Pick, PassRecs, Caches
<1>3. cache' = kept \/ cache' = cache
  BY DEF Store
<1> HIDE DEF j, kept
<1>4. k \in PassRecs /\ Frame(j, k) /\ k.left = j.left /\ k.entries = j.entries /\ k.cache = j.cache
  BY <1>1 DEF PassRecs, Frame
<1> HIDE DEF k
<1>5. pass'[p] = k
  BY <1>1, <1>4, GoFacts DEF Working
<1>6. cache' \in Caches /\ \A f \in Files : cache'[f] \in {None, j.cache[f], cache[f]}
  BY <1>2, <1>3 DEF SourceTypes
<1> QED
  BY <1>1, <1>4, <1>5, <1>6 DEF j

\* The identity of a pass is not the stamped one.
Differs(j) == Composed(j.entries, j.faces, j.topology)
                # Composed(j.stamp.entries, j.stamp.faces, j.stamp.topology)

LEMMA JudgeEffect ==
  ASSUME SourceTypes, NEW p \in Passes, Judge(p)
  PROVE  LET j == pass[p]  k == pass'[p] IN
         /\ pc[p] = "judge" /\ k \in PassRecs /\ Go(p, "delta", k) /\ Frame(j, k)
         /\ k.left = j.left /\ k.entries = j.entries /\ k.cache = j.cache
         /\ k.drift <=> Differs(j) \/ stamp.gen # j.stamp.gen
<1> DEFINE j == pass[p]
           drift == Differs(j) \/ stamp.gen # j.stamp.gen
           k == [j EXCEPT !.drift = drift]
<1>1. j \in PassRecs /\ pc[p] = "judge" /\ Go(p, "delta", k)
  BY DEF Judge, SourceTypes, Differs
<1>2. drift \in BOOLEAN
  OBVIOUS
<1> HIDE DEF j, drift
<1>3. /\ k \in PassRecs /\ Frame(j, k) /\ k.left = j.left /\ k.entries = j.entries
      /\ k.cache = j.cache /\ k.drift = drift
  BY <1>1, <1>2 DEF PassRecs, Frame
<1> HIDE DEF k
<1>4. pass'[p] = k
  BY <1>1, <1>3, GoFacts DEF Working
<1> QED
  BY <1>1, <1>3, <1>4 DEF j, drift

LEMMA DeltaEffect ==
  ASSUME SourceTypes, NEW p \in Passes, Delta(p)
  PROVE  LET j == pass[p]  k == pass'[p] IN
         /\ pc[p] = "delta" /\ k \in PassRecs /\ Go(p, "done", k)
         /\ k.stamp = j.stamp /\ k.faces = j.faces /\ k.oos = j.oos /\ k.entries = j.entries
         /\ k.drift = j.drift /\ k.cache = NoEntries /\ k.rows = {} /\ k.left = {}
         /\ k.delta = IF stamp.gen = j.stamp.gen THEN DeltaOf(j) ELSE None
<1> DEFINE j == pass[p]
           delta == IF stamp.gen = j.stamp.gen THEN DeltaOf(j) ELSE None
           k == [Idle EXCEPT !.drift = j.drift, !.stamp = j.stamp, !.oos = j.oos,
                             !.entries = j.entries, !.faces = j.faces, !.delta = delta]
<1>1. j \in PassRecs /\ pc[p] = "delta" /\ Go(p, "done", k)
  BY DEF Delta, SourceTypes
<1>2. DeltaOf(j) \in DeltaRecs
  <2>1. /\ (IF TopologyMoved(j) THEN {"topology"} ELSE {})
             \cup (IF j.moved THEN {"js-ts-config"} ELSE {})
             \cup UNION {NowExcluded(f) : f \in Absent(j)}
               \in SUBSET {"topology", "profile", "js-ts-config"}
    BY DEF NowExcluded
  <2>2. Absent(j) \subseteq Files
    BY DEF Absent
  <2> QED
    BY <2>1, <2>2 DEF DeltaOf, DeltaRecs
<1>3. delta \in DeltaRecs \cup {None}
  BY <1>2
<1>4. Idle.cache = NoEntries /\ Idle.rows = {} /\ Idle.left = {}
  BY DEF Idle
<1> HIDE DEF j, delta
<1>5. /\ k \in PassRecs /\ k.stamp = j.stamp /\ k.faces = j.faces /\ k.oos = j.oos
      /\ k.entries = j.entries /\ k.drift = j.drift /\ k.cache = NoEntries /\ k.delta = delta
      /\ k.rows = {} /\ k.left = {}
  BY <1>1, <1>3, <1>4, IdleFacts DEF PassRecs
<1> HIDE DEF k
<1>6. pass'[p] = k
  BY <1>1, <1>5, GoFacts DEF Working
<1> QED
  BY <1>1, <1>5, <1>6 DEF j, delta

---------------------------------------------------------------------------
(* Types.  A row left to hash has the time that the walk gave it.          *)

Timed(j) == j.left \subseteq j.rows /\ \A f \in j.rows : j.times[f] \in Nat
SourceInv == SourceTypes /\ \A p \in Passes : Timed(pass[p])

\* A step of pass p that leaves the world and the stamp alone.
LEMMA PassTyped ==
  ASSUME SourceInv, NEW p \in Passes, NEW to \in Working \cup {"idle", "done", "error"},
         NEW j \in PassRecs, Go(p, to, j), Timed(j), UNCHANGED <<world, stamp, budget>>,
         cache' \in Caches, raced' \in SUBSET Files,
         held' \in [Passes -> [Files -> SUBSET (States \cup {None})]]
  PROVE  SourceInv'
<1>1. SourceTypes'
  BY GoFacts DEF SourceInv, SourceTypes, world
<1>2. ASSUME NEW q \in Passes PROVE Timed(pass'[q])
  <2>1. pass'[q] = j \/ pass'[q] = pass[q]
    BY GoFacts DEF SourceInv
  <2> QED
    BY <2>1 DEF SourceInv
<1> QED
  BY <1>1, <1>2 DEF SourceInv

LEMMA WalkHeld ==
  ASSUME SourceInv, NEW p \in Passes, Walk(p)
  PROVE  /\ held' \in [Passes -> [Files -> SUBSET (States \cup {None})]]
         /\ \A f \in Files : held'[p][f] = {disk[f]} \cup (IF f \in pass'[p].rows THEN {} ELSE {None})
         /\ \A q \in Passes : q # p => held'[q] = held[q]
<1> DEFINE seen == [f \in Files |-> {disk[f]} \cup (IF f \in pass'[p].rows THEN {} ELSE {None})]
<1>1. held' = [held EXCEPT ![p] = seen] /\ held \in [Passes -> [Files -> SUBSET (States \cup {None})]]
  BY DEF Walk, SourceInv, SourceTypes
<1>2. seen \in [Files -> SUBSET (States \cup {None})]
  BY DEF SourceInv, SourceTypes
<1>3. \A f \in Files : seen[f] = {disk[f]} \cup (IF f \in pass'[p].rows THEN {} ELSE {None})
  OBVIOUS
<1> HIDE DEF seen
<1> QED
  BY <1>1, <1>2, <1>3

LEMMA SourceInvInit == Init => SourceInv
<1> SUFFICES ASSUME Init PROVE SourceInv
  OBVIOUS
<1>1. PICK c \in Contents : disk \in [Files -> {None, [c |-> c, m |-> 0]}]
  BY DEF Init
<1>2. [c |-> c, m |-> 0] \in States
  BY DEF States
<1>3. disk \in [Files -> States \cup {None}]
  BY <1>1, <1>2
<1>4. past \in [Files -> SUBSET (States \cup {None})] /\ clock \in Nat
  BY <1>3 DEF Init
<1>5. NoEntries \in Caches
  BY DEF NoEntries, Caches
<1>6. /\ pc \in [Passes -> Working \cup {"idle", "done", "error"}]
      /\ pass \in [Passes -> PassRecs] /\ \A p \in Passes : pass[p] = Idle
  BY IdleFacts DEF Init
<1>7. /\ held \in [Passes -> [Files -> SUBSET (States \cup {None})]] /\ raced \in SUBSET Files
  BY DEF Init
<1>8. budget \in [edits : Nat, moves : Nat, stamps : Nat]
  BY SourceIdentityAssumption DEF Init
<1>11. profile \in Profs
  BY DEF Init, Profs
<1>9. stamp \in StampRecs
  BY <1>3, <1>11, CapturedFacts, SourceIdentityAssumption DEF Init
<1>10. Idle.left = {} /\ Idle.rows = {}
  BY DEF Idle
<1> QED
  BY <1>3, <1>4, <1>5, <1>6, <1>7, <1>8, <1>9, <1>10, <1>11 DEF SourceInv, SourceTypes, Timed, Init

LEMMA SourceInvNext == SourceInv /\ [Next]_vars => SourceInv'
<1> SUFFICES ASSUME SourceInv, [Next]_vars PROVE SourceInv'
  OBVIOUS
<1> USE DEF SourceInv
<1>0. CASE UNCHANGED vars
  BY <1>0 DEF SourceTypes, vars, world
<1>1. CASE Stamp
  <2>1. stamp' \in StampRecs
    <3>1. stamp.selection \in {"auto", "explicit"} /\ stamp.gen + 1 \in Nat
      BY DEF SourceTypes, StampRecs
    <3> QED
      BY <1>1, <3>1, CapturedFacts DEF Stamp, SourceTypes
  <2>2. budget' \in [edits : Nat, moves : Nat, stamps : Nat]
    BY <1>1, SpendFacts DEF Stamp
  <2>3. cache' \in Caches
    BY <1>1 DEF Stamp, NoEntries, Caches
  <2> QED
    BY <1>1, <2>1, <2>2, <2>3 DEF SourceTypes, Stamp, world
<1>2. ASSUME NEW f \in Files, NEW k \in {"edits", "moves"}, NEW new \in States \cup {None},
             Spend(k), Becomes(f, new), clock' \in Nat
      PROVE  SourceInv'
  <2>1. budget' \in [edits : Nat, moves : Nat, stamps : Nat]
    BY <1>2, SpendFacts
  <2> QED
    BY <1>2, <2>1, BecomesFacts DEF SourceTypes
<1>3. ASSUME NEW f \in Files, NEW c \in Contents, Write(f, c) PROVE SourceInv'
  <2>1. [c |-> c, m |-> clock + 1] \in States /\ clock + 1 \in Nat
    BY DEF SourceTypes, States
  <2> QED
    BY <1>2, <1>3, <2>1 DEF Write
<1>4. ASSUME NEW f \in Files, Delete(f) PROVE SourceInv'
  BY <1>2, <1>4 DEF Delete, SourceTypes
<1>5. ASSUME NEW f \in Files, MoveBack(f) PROVE SourceInv'
  <2>1. PICK old \in past[f] \ {disk[f], None} : Becomes(f, old)
    BY <1>5 DEF MoveBack
  <2>2. old \in States \cup {None}
    BY DEF SourceTypes
  <2> QED
    BY <1>2, <1>5, <2>1, <2>2 DEF MoveBack, SourceTypes
<1>6. ASSUME NEW new \in Profiles, Exclude(new) PROVE SourceInv'
  <2>1. budget' \in [edits : Nat, moves : Nat, stamps : Nat]
    BY <1>6, SpendFacts DEF Exclude
  <2>2. Excluded(profile) \subseteq Sources \cup Elsewhere
    BY DEF SourceTypes, Profs, Excluded
  <2>3. new \in Profs
    BY <2>2 DEF Profiles, Profs
  <2> QED
    BY <1>6, <2>1, <2>3 DEF SourceTypes, Exclude
<1>7. ASSUME NEW p \in Passes, Walk(p) PROVE SourceInv'
  <2>1. Timed(pass'[p])
    <3>1. \A f \in pass'[p].rows : f \in Files /\ On(disk, f)
      <4>1. \A f \in Source(disk, profile) : f \in Files /\ On(disk, f)
        BY WalkFacts DEF Source
      <4>2. \A f \in InputsFound(disk, profile) : f \in Files /\ On(disk, f)
        BY WalkFacts DEF InputsFound
      <4> QED
        BY <1>7, <4>1, <4>2, WalkEffect
    <3>2. \A f \in Files : On(disk, f) => disk[f].m \in Nat
      BY DEF SourceTypes, On, States
    <3> QED
      BY <1>7, <3>1, <3>2, WalkEffect DEF Timed
  <2>2. UNCHANGED <<world, stamp, cache, raced, budget>>
    BY <1>7 DEF Walk
  <2>3. PICK j \in PassRecs : Go(p, "load", j)
    BY <1>7, WalkEffect
  <2>4. j = pass'[p]
    BY <2>3, GoFacts DEF Working
  <2> QED
    BY <1>7, <2>1, <2>2, <2>3, <2>4, PassTyped, WalkHeld DEF SourceTypes, Working
<1>8. ASSUME NEW p \in Passes, LoadStamp(p) PROVE SourceInv'
  <2>1. pass[p].rows \subseteq Files
    BY DEF SourceTypes, PassRecs
  <2>2. Timed(pass'[p])
    BY <1>8, <2>1, LoadEffect DEF Timed
  <2>3. UNCHANGED <<world, stamp, cache, held, raced, budget>>
    BY <1>8 DEF LoadStamp
  <2> QED
    BY <1>8, <2>1, <2>2, <2>3, PassTyped, LoadEffect DEF SourceTypes, Working
<1>9. ASSUME NEW p \in Passes, NEW f \in Files, Hash(p, f) PROVE SourceInv'
  <2>1. pass[p].times[f] \in Nat
    <3>1. pass[p].left # {} /\ f = Foremost(pass[p].left)
      BY <1>9 DEF Hash
    <3> QED
      BY <3>1 DEF Foremost, Timed
  <2>2. Timed(pass'[p])
    <3>1. Timed(Idle)
      BY DEF Timed, Idle
    <3> QED
      BY <1>9, <2>1, <3>1, HashEffect DEF Timed, Frame
  <2>3. UNCHANGED <<world, stamp, cache, held, budget>>
    BY <1>9 DEF Hash
  <2> QED
    BY <1>9, <2>1, <2>2, <2>3, PassTyped, HashEffect DEF SourceTypes, Working
<1>10. ASSUME NEW p \in Passes, Store(p) PROVE SourceInv'
  <2>1. Timed(pass'[p])
    BY <1>10, StoreEffect DEF Timed, Frame
  <2>2. UNCHANGED <<world, stamp, held, raced, budget>>
    BY <1>10 DEF Store
  <2> QED
    BY <1>10, <2>1, <2>2, PassTyped, StoreEffect DEF SourceTypes, Working
<1>11. ASSUME NEW p \in Passes, Judge(p) PROVE SourceInv'
  <2>1. Timed(pass'[p])
    BY <1>11, JudgeEffect DEF Timed, Frame
  <2>2. UNCHANGED <<world, stamp, cache, held, raced, budget>>
    BY <1>11 DEF Judge
  <2> QED
    BY <1>11, <2>1, <2>2, PassTyped, JudgeEffect DEF SourceTypes, Working
<1>12. ASSUME NEW p \in Passes, Delta(p) PROVE SourceInv'
  <2>1. Timed(pass'[p])
    BY <1>12, DeltaEffect DEF Timed
  <2>2. UNCHANGED <<world, stamp, cache, held, raced, budget>>
    BY <1>12 DEF Delta
  <2> QED
    BY <1>12, <2>1, <2>2, PassTyped, DeltaEffect DEF SourceTypes, Working
<1> QED
  BY <1>0, <1>1, <1>3, <1>4, <1>5, <1>6, <1>7, <1>8, <1>9, <1>10, <1>11, <1>12 DEF Next

---------------------------------------------------------------------------
(* A verdict and its delta.                                                *)

Pairs(entries) == {<<f, entries[f]>> : f \in {g \in Files : entries[g] # None}}
Scope(faces, topology) == IF "rust" \in faces THEN topology ELSE None

LEMMA ComposedFacts ==
  ASSUME NEW a, NEW b, NEW fa, NEW fb, NEW ta, NEW tb
  PROVE  Composed(a, fa, ta) = Composed(b, fb, tb)
           <=> /\ \A f \in Files : a[f] = b[f]
               /\ Scope(fa, ta) = Scope(fb, tb)
<1>1. Composed(a, fa, ta) = <<Pairs(a), Scope(fa, ta)>> /\ Composed(b, fb, tb) = <<Pairs(b), Scope(fb, tb)>>
  BY DEF Composed, Pairs, Scope
<1>2. ASSUME \A f \in Files : a[f] = b[f] PROVE Pairs(a) = Pairs(b)
  BY <1>2 DEF Pairs
<1>3. ASSUME Pairs(a) = Pairs(b), NEW f \in Files PROVE a[f] = b[f]
  <2>1. ASSUME NEW c, NEW d, Pairs(c) = Pairs(d), c[f] # None PROVE d[f] = c[f]
    <3>1. <<f, c[f]>> \in Pairs(d)
      BY <2>1 DEF Pairs
    <3>2. PICK g \in Files : <<f, c[f]>> = <<g, d[g]>>
      BY <3>1 DEF Pairs
    <3> QED
      BY <3>2
  <2>2. a[f] # None => b[f] = a[f]
    BY <1>3, <2>1
  <2>3. b[f] # None => a[f] = b[f]
    BY <1>3, <2>1
  <2> QED
    BY <2>2, <2>3
<1> QED
  BY <1>1, <1>2, <1>3

\* The locals between load and delta: rows of the faces only, all hashed but
\* those left, and whatever is out of the stamped scope is in that of the pass
\* where the selection is automatic.
Beyond(j) == {f \in j.rows : ~InScope(f, j.stamp.faces)}
Scoped(j) ==
  /\ j.stamp \in StampRecs /\ StampOK(j.stamp)
  /\ \A f \in Files : j.entries[f] # None <=> f \in j.rows \ j.left
  /\ \A f \in j.rows : InScope(f, j.faces)
  /\ j.stamp.faces \subseteq j.faces
  /\ j.stamp.selection = "explicit" => j.faces = j.stamp.faces
  /\ j.stamp.selection = "auto" => (j.oos > 0 <=> Beyond(j) # {})
  /\ "rust" \in j.faces \ j.stamp.faces => Beyond(j) # {}

\* What DriftExplained calls an explanation.
Listed(d) == d.changed \cup d.added \cup d.removed # {} \/ d.flags \ {"js-ts-config"} # {}
Uncovered(s, oos) == s.selection = "auto" /\ oos > 0

LEMMA DeltaExplains ==
  ASSUME NEW j \in PassRecs, Scoped(j), j.left = {}
  PROVE  Differs(j) <=> Listed(DeltaOf(j)) \/ Uncovered(j.stamp, j.oos)
<1> DEFINE d == DeltaOf(j)
           moved == TopologyMoved(j)
           here == j.entries
           there == j.stamp.entries
<1>1. Differs(j) <=> \/ \E f \in Files : here[f] # there[f]
                     \/ Scope(j.faces, j.topology) # Scope(j.stamp.faces, j.stamp.topology)
  BY ComposedFacts DEF Differs
<1>2. j.stamp \in StampRecs
  BY DEF Scoped, PassRecs
<1>3. j.stamp.selection \in {"auto", "explicit"}
  BY <1>2 DEF StampRecs
<1>4. /\ \A f \in Files : f \in d.changed <=> there[f] # None /\ here[f] # None /\ there[f] # here[f]
      /\ \A f \in Files : f \in d.removed <=> f \in Absent(j) /\ ~(f \in Excluded(profile) /\ On(disk, f))
      /\ \A f \in Files : f \in d.added <=>
            /\ here[f] # None /\ there[f] = None /\ InScope(f, j.stamp.faces)
            /\ ~(FaceOf(f) = "rust-input" /\ moved)
      /\ d.changed \subseteq Files /\ d.removed \subseteq Files /\ d.added \subseteq Files
  BY DEF DeltaOf, Absent
<1>5. d.flags \ {"js-ts-config"} # {}
        <=> moved \/ \E f \in Absent(j) : f \in Excluded(profile) /\ On(disk, f)
  <2> DEFINE out == UNION {NowExcluded(f) : f \in Absent(j)}
  <2>1. d.flags = (IF moved THEN {"topology"} ELSE {})
                  \cup (IF j.moved THEN {"js-ts-config"} ELSE {}) \cup out
    BY DEF DeltaOf
  <2>2. /\ out # {} <=> \E f \in Absent(j) : f \in Excluded(profile) /\ On(disk, f)
        /\ "js-ts-config" \notin out
    BY DEF NowExcluded
  <2> HIDE DEF d, moved, out
  <2> QED
    BY <2>1, <2>2
<1>6. \A f \in Files : f \in Absent(j) <=>
            there[f] # None /\ here[f] = None /\ ~(FaceOf(f) = "rust-input" /\ moved)
  BY DEF Absent
<1>7. \A f \in Absent(j) : f \in Files
  BY DEF Absent
<1>8. \A f \in Files : here[f] # None <=> f \in j.rows
  BY DEF Scoped
<1>9. j.rows \subseteq Files
  BY DEF PassRecs
<1>10. \A f \in Files : there[f] # None => InScope(f, j.stamp.faces)
  BY DEF Scoped, StampOK
<1>11. moved <=> j.stamp.topology # None /\ j.topology # j.stamp.topology
  BY DEF TopologyMoved
<1>12. "rust" \in j.stamp.faces <=> j.stamp.topology # None
  BY DEF Scoped, StampOK
<1>13. Beyond(j) # {} => j.stamp.selection = "auto"
  BY <1>3 DEF Beyond, Scoped
<1>14. Uncovered(j.stamp, j.oos) <=> Beyond(j) # {}
  BY <1>13 DEF Scoped, Uncovered
<1> HIDE DEF d, moved, here, there
<1>15. ASSUME NEW f \in Files, here[f] # there[f]
       PROVE  Listed(d) \/ Beyond(j) # {}
  <2>1. CASE here[f] # None /\ there[f] # None
    BY <1>4, <1>15, <2>1 DEF Listed
  <2>2. CASE here[f] = None
    BY <1>4, <1>5, <1>6, <1>15, <2>2 DEF Listed
  <2>3. CASE here[f] # None /\ there[f] = None
    <3>1. CASE InScope(f, j.stamp.faces)
      BY <1>4, <1>5, <2>3, <3>1 DEF Listed
    <3>2. CASE ~InScope(f, j.stamp.faces)
      BY <1>8, <2>3, <3>2 DEF Beyond
    <3> QED
      BY <3>1, <3>2
  <2> QED
    BY <2>1, <2>2, <2>3
<1>16. ASSUME Scope(j.faces, j.topology) # Scope(j.stamp.faces, j.stamp.topology)
       PROVE  moved \/ Beyond(j) # {}
  <2>1. CASE "rust" \in j.stamp.faces
    BY <1>11, <1>12, <1>16, <2>1 DEF Scope, Scoped
  <2>2. CASE "rust" \notin j.stamp.faces
    BY <1>16, <2>2 DEF Scope, Scoped
  <2> QED
    BY <2>1, <2>2
<1>17. ASSUME moved PROVE Scope(j.faces, j.topology) # Scope(j.stamp.faces, j.stamp.topology)
  BY <1>11, <1>12, <1>17 DEF Scope, Scoped
<1>18. ASSUME Beyond(j) # {} PROVE \E f \in Files : here[f] # there[f]
  <2>1. PICK f \in j.rows : ~InScope(f, j.stamp.faces)
    BY <1>18 DEF Beyond
  <2> QED
    BY <1>8, <1>9, <1>10, <2>1
<1>19. ASSUME d.changed \cup d.added \cup d.removed # {} \/ Absent(j) # {}
       PROVE  \E f \in Files : here[f] # there[f]
  BY <1>4, <1>6, <1>7, <1>19
<1>20. ASSUME Listed(d) PROVE moved \/ \E f \in Files : here[f] # there[f]
  BY <1>5, <1>19, <1>20 DEF Listed
<1>21. ASSUME moved PROVE Listed(d)
  BY <1>5, <1>21 DEF Listed
<1> QED
  BY <1>1, <1>14, <1>15, <1>16, <1>17, <1>18, <1>20, <1>21 DEF d, here, there

\* The locals at load: no Rust input without a Rust file.
Walked(j) ==
  /\ j.left = {} /\ \A f \in Files : j.entries[f] = None
  /\ (\E f \in j.rows : RustFace(f)) => \E f \in j.rows : FaceOf(f) = "rust"

Scoping == {"hash", "judge", "delta"}
Local(at, j) ==
  /\ at = "load" => Walked(j)
  /\ at \in Scoping => Scoped(j)
  /\ at \in {"judge", "delta"} => j.left = {}
  /\ at \in {"delta", "done"} /\ ~j.drift =>
        \A f \in Files : j.entries[f] = j.stamp.entries[f]
  /\ at = "done" /\ j.delta # None =>
        (j.drift <=> Listed(j.delta) \/ Uncovered(j.stamp, j.oos))

\* What the stamp of now says of the pass's.
Judged(at, j) ==
  /\ at \in Scoping => j.stamp.gen <= stamp.gen
  /\ at = "delta" /\ stamp.gen = j.stamp.gen => (j.drift <=> Differs(j))

VerdictInv == StampOK(stamp) /\ \A p \in Passes : Local(pc[p], pass[p]) /\ Judged(pc[p], pass[p])

\* A step of pass p that keeps the stamp.
LEMMA VerdictStep ==
  ASSUME SourceInv, VerdictInv, NEW p \in Passes, NEW to \in Working \cup {"idle", "done", "error"},
         NEW j \in PassRecs, Go(p, to, j), UNCHANGED stamp, Local(to, j), Judged(to, j)
  PROVE  VerdictInv'
<1>1. StampOK(stamp)'
  BY DEF VerdictInv, StampOK
<1>2. ASSUME NEW q \in Passes PROVE Local(pc'[q], pass'[q]) /\ Judged(pc'[q], pass'[q])
  <2>1. \/ pc'[q] = to /\ pass'[q] = j
        \/ pc'[q] = pc[q] /\ pass'[q] = pass[q]
    BY GoFacts DEF SourceInv
  <2> QED
    BY <2>1 DEF VerdictInv
<1>3. ASSUME NEW at, NEW i, Judged(at, i) PROVE Judged(at, i)'
  BY <1>3 DEF Judged, Differs
<1> QED
  BY <1>1, <1>2, <1>3 DEF VerdictInv, Local, Walked, Scoped

\* A step that leaves the passes, and perhaps stamps anew.
LEMMA VerdictStays ==
  ASSUME SourceInv, VerdictInv, UNCHANGED <<pc, pass>>,
         stamp' = stamp \/ (StampOK(stamp') /\ stamp'.gen = stamp.gen + 1)
  PROVE  VerdictInv'
<1>1. StampOK(stamp)'
  BY DEF VerdictInv, StampOK
<1>2. stamp.gen \in Nat
  BY DEF SourceInv, SourceTypes, StampRecs
<1>3. ASSUME NEW p \in Passes PROVE Judged(pc[p], pass[p])'
  <2>1. Judged(pc[p], pass[p]) /\ Local(pc[p], pass[p])
    BY DEF VerdictInv
  <2>2. pass[p] \in PassRecs
    BY DEF SourceInv, SourceTypes
  <2>3. ASSUME pc[p] \in Scoping PROVE pass[p].stamp.gen \in Nat
    BY <2>1, <2>3 DEF Local, Scoped, StampRecs
  <2>4. CASE stamp' = stamp
    BY <2>1, <2>4 DEF Judged, Differs
  <2>5. CASE stamp'.gen = stamp.gen + 1
    BY <1>2, <2>1, <2>3, <2>5 DEF Judged, Scoping
  <2> QED
    BY <2>4, <2>5
<1> QED
  BY <1>1, <1>3 DEF VerdictInv, Local, Walked, Scoped

LEMMA VerdictInit == Init => VerdictInv
<1> SUFFICES ASSUME Init PROVE VerdictInv
  OBVIOUS
<1>1. SourceInv
  BY SourceInvInit
<1>2. StampOK(stamp)
  BY <1>1, CapturedFacts, SourceIdentityAssumption DEF Init, SourceInv, SourceTypes
<1>3. \A p \in Passes : pc[p] = "idle"
  BY DEF Init
<1> QED
  BY <1>2, <1>3 DEF VerdictInv, Local, Judged, Scoping

LEMMA LoadScopes ==
  ASSUME SourceInv, VerdictInv, NEW p \in Passes, LoadStamp(p)
  PROVE  Scoped(pass'[p])
<1> DEFINE j == pass[p]
           k == pass'[p]
<1>1. Walked(j) /\ StampOK(stamp) /\ j \in PassRecs
  BY DEF VerdictInv, Local, LoadStamp, SourceInv, SourceTypes
<1>2. stamp \in StampRecs
  BY DEF SourceInv, SourceTypes
<1>3. /\ k.stamp = stamp /\ k.faces = FacesOf(j)
      /\ k.rows = {f \in j.rows : InScope(f, FacesOf(j))} /\ k.left = k.rows
      /\ k.oos = Cardinality(OutOfScope(j, stamp.faces)) /\ k.entries = j.entries
  <2>1. j.rows \subseteq Files
    BY <1>1 DEF PassRecs
  <2> QED
    BY <2>1, LoadEffect DEF SourceInv
<1> HIDE DEF j, k
<1>4. k.oos > 0 <=> OutOfScope(j, stamp.faces) # {}
  <2>1. IsFiniteSet(OutOfScope(j, stamp.faces))
    <3>1. OutOfScope(j, stamp.faces) \subseteq Files
      BY <1>1 DEF OutOfScope, PassRecs
    <3> QED
      BY <3>1, FS_Subset, SourceIdentityAssumption
  <2> DEFINE n == Cardinality(OutOfScope(j, stamp.faces))
  <2>2. n \in Nat /\ (n = 0 <=> OutOfScope(j, stamp.faces) = {})
    BY <2>1, FS_CardinalityType, FS_EmptySet
  <2>3. k.oos = n
    BY <1>3
  <2> HIDE DEF n
  <2> QED
    BY <2>2, <2>3
<1>6. \A f \in Files : k.entries[f] # None <=> f \in k.rows \ k.left
  BY <1>1, <1>3 DEF Walked
<1>7. \A f \in k.rows : InScope(f, k.faces)
  BY <1>3
<1>8. stamp.faces \subseteq FacesOf(j) /\ (stamp.selection = "explicit" => FacesOf(j) = stamp.faces)
  BY DEF FacesOf
<1>9. Beyond(k) \subseteq OutOfScope(j, stamp.faces)
  BY <1>3 DEF Beyond, OutOfScope
<1>10. ASSUME stamp.selection = "auto", NEW f \in OutOfScope(j, stamp.faces)
       PROVE  f \in Beyond(k)
  <2>1. f \in j.rows /\ ~InScope(f, stamp.faces)
    BY DEF OutOfScope
  <2>2. InScope(f, FacesOf(j))
    <3>1. CASE RustFace(f)
      <4>1. PICK g \in j.rows : FaceOf(g) = "rust"
        BY <1>1, <2>1, <3>1 DEF Walked
      <4>2. "rust" \in Found(j)
        BY <4>1 DEF Found
      <4> QED
        BY <1>10, <3>1, <4>2 DEF FacesOf, InScope, RustFace
    <3>2. CASE ~RustFace(f)
      <4>1. FaceOf(f) \in Found(j) /\ FaceOf(f) # "rust-input"
        BY <2>1, <3>2 DEF Found, RustFace
      <4> QED
        BY <1>10, <4>1 DEF FacesOf, InScope
    <3> QED
      BY <3>1, <3>2
  <2> QED
    BY <1>3, <2>1, <2>2 DEF Beyond
<1>11. ASSUME "rust" \in k.faces \ stamp.faces PROVE Beyond(k) # {}
  <2>1. "rust" \in Found(j) /\ "rust" \in FacesOf(j)
    BY <1>3, <1>11 DEF FacesOf
  <2>2. PICK f \in j.rows : FaceOf(f) = "rust"
    BY <2>1 DEF Found
  <2>3. InScope(f, FacesOf(j)) /\ ~InScope(f, stamp.faces)
    BY <1>11, <2>1, <2>2 DEF InScope, RustFace
  <2> QED
    BY <1>3, <2>2, <2>3 DEF Beyond
<1> QED
  BY <1>1, <1>3, <1>2, <1>4, <1>6, <1>7, <1>8, <1>9, <1>10, <1>11 DEF Scoped, k

LEMMA VerdictNext == SourceInv /\ VerdictInv /\ [Next]_vars => VerdictInv'
<1> SUFFICES ASSUME SourceInv, VerdictInv, [Next]_vars PROVE VerdictInv'
  OBVIOUS
<1>0. SourceTypes
  BY DEF SourceInv
<1>1. CASE UNCHANGED <<stamp, pc, pass>>
  BY <1>1, VerdictStays
<1>2. CASE Stamp
  <2>1. stamp.selection \in {"auto", "explicit"} /\ stamp.gen + 1 \in Nat
    BY <1>0 DEF SourceTypes, StampRecs
  <2>2. StampOK(stamp') /\ stamp'.gen = stamp.gen + 1
    BY <1>0, <1>2, <2>1, CapturedFacts DEF Stamp, SourceTypes
  <2> QED
    BY <1>2, <2>2, VerdictStays DEF Stamp
<1>3. ASSUME NEW p \in Passes, Walk(p) PROVE VerdictInv'
  <2> DEFINE k == pass'[p]
  <2>1. PICK j \in PassRecs : Go(p, "load", j)
    BY <1>0, <1>3, WalkEffect
  <2>2. j = k
    BY <1>0, <2>1, GoFacts DEF Working
  <2>3. Walked(k)
    <3>1. k.rows = Source(disk, profile) \cup InputsFound(disk, profile)
      BY <1>0, <1>3, WalkEffect
    <3>2. k.left = {} /\ k.entries = NoEntries
      BY <1>0, <1>3, WalkEffect
    <3>3. ASSUME NEW f \in k.rows, RustFace(f) PROVE \E g \in k.rows : FaceOf(g) = "rust"
      <4>1. CASE f \in Source(disk, profile)
        BY <4>1, <3>1, <3>3, FaceFacts DEF Source, Sources, Scripts
      <4>2. CASE f \in InputsFound(disk, profile)
        <5>1. RustWalk(disk, profile)
          BY <4>2 DEF InputsFound
        <5> QED
          BY <3>1, <5>1, FaceFacts DEF RustWalk
      <4> QED
        BY <3>1, <4>1, <4>2
    <3> QED
      BY <3>2, <3>3 DEF Walked, NoEntries
  <2>4. Local("load", k) /\ Judged("load", k)
    BY <2>3 DEF Local, Judged, Scoping
  <2>5. UNCHANGED stamp
    BY <1>3 DEF Walk
  <2> QED
    BY <2>1, <2>2, <2>4, <2>5, VerdictStep DEF Working
<1>4. ASSUME NEW p \in Passes, LoadStamp(p) PROVE VerdictInv'
  <2> DEFINE k == pass'[p]
  <2>1. pass[p].rows \subseteq Files
    BY <1>0 DEF SourceTypes, PassRecs
  <2>2. k \in PassRecs /\ Go(p, "hash", k) /\ k.stamp = stamp
    BY <1>0, <1>4, <2>1, LoadEffect
  <2>3. stamp.gen \in Nat /\ UNCHANGED stamp
    BY <1>0, <1>4 DEF SourceTypes, StampRecs, LoadStamp
  <2>4. Local("hash", k) /\ Judged("hash", k)
    BY <1>4, <2>2, <2>3, LoadScopes DEF Local, Judged
  <2> QED
    BY <2>2, <2>3, <2>4, VerdictStep DEF Working
<1>5. ASSUME NEW p \in Passes, NEW f \in Files, Hash(p, f) PROVE VerdictInv'
  <2> DEFINE j == pass[p]
             k == pass'[p]
  <2>1. j.times[f] \in Nat
    <3>1. j.left # {} /\ f = Foremost(j.left)
      BY <1>5 DEF Hash
    <3> QED
      BY <3>1 DEF Foremost, Timed, SourceInv
  <2>2. j \in PassRecs /\ k \in PassRecs /\ f \in j.left /\ UNCHANGED stamp /\ pc[p] = "hash"
    BY <1>0, <1>5, <2>1, HashEffect DEF Hash, SourceTypes
  <2>3. CASE Go(p, "error", k) /\ k = Idle
    <3>1. Local("error", k) /\ Judged("error", k)
      BY DEF Local, Judged, Scoping
    <3> QED
      BY <2>2, <2>3, <3>1, VerdictStep
  <2>4. CASE /\ Go(p, "hash", k) /\ Frame(j, k) /\ k.left = j.left \ {f}
             /\ ReadNow(j, k, f) \/ TakenFromCache(j, k, f)
    <3>1. Scoped(j) /\ j.stamp.gen <= stamp.gen
      BY <2>2 DEF VerdictInv, Local, Judged, Scoping
    <3>2. j.left \subseteq j.rows
      BY DEF SourceInv, Timed
    <3>3. PICK c : c # None /\ k.entries = [j.entries EXCEPT ![f] = c]
      <4>1. CASE ReadNow(j, k, f)
        <5>1. disk[f].c # None
          BY <1>0, <4>1, NoneFacts DEF ReadNow, On, SourceTypes, States
        <5> QED
          BY <4>1, <5>1 DEF ReadNow
      <4>2. CASE TakenFromCache(j, k, f)
        <5>1. j.cache[f].c # None
          BY <2>2, <4>2, NoneFacts DEF TakenFromCache, PassRecs, Caches, States
        <5> QED
          BY <4>2, <5>1 DEF TakenFromCache
      <4> QED
        BY <2>4, <4>1, <4>2
    <3>4. \A g \in Files : k.entries[g] # None <=> g \in k.rows \ k.left
      BY <2>2, <2>4, <3>1, <3>2, <3>3 DEF Frame, Scoped, PassRecs, Hashes
    <3>5. Scoped(k)
      BY <2>4, <3>1, <3>4 DEF Frame, Scoped, Beyond
    <3>6. Local("hash", k) /\ Judged("hash", k)
      BY <2>4, <3>1, <3>5 DEF Local, Judged, Frame
    <3> QED
      BY <2>2, <2>4, <3>6, VerdictStep DEF Working
  <2> QED
    BY <1>0, <1>5, <2>1, <2>3, <2>4, HashEffect
<1>6. ASSUME NEW p \in Passes, Store(p) PROVE VerdictInv'
  <2> DEFINE j == pass[p]
             k == pass'[p]
  <2>1. /\ k \in PassRecs /\ Go(p, "judge", k) /\ Frame(j, k) /\ k.left = {} /\ j.left = {}
        /\ k.entries = j.entries /\ pc[p] = "hash" /\ UNCHANGED stamp
    BY <1>0, <1>6, StoreEffect DEF Store
  <2>2. Scoped(j) /\ j.stamp.gen <= stamp.gen
    BY <2>1 DEF VerdictInv, Local, Judged, Scoping
  <2>3. Scoped(k)
    BY <2>1, <2>2 DEF Frame, Scoped, Beyond
  <2>4. Local("judge", k) /\ Judged("judge", k)
    BY <2>1, <2>2, <2>3 DEF Local, Judged, Frame
  <2> QED
    BY <2>1, <2>4, VerdictStep DEF Working
<1>7. ASSUME NEW p \in Passes, Judge(p) PROVE VerdictInv'
  <2> DEFINE j == pass[p]
             k == pass'[p]
  <2>1. /\ k \in PassRecs /\ Go(p, "delta", k) /\ Frame(j, k) /\ k.left = j.left
        /\ k.entries = j.entries /\ pc[p] = "judge"
        /\ k.drift <=> Differs(j) \/ stamp.gen # j.stamp.gen
    BY <1>0, <1>7, JudgeEffect
  <2>2. Scoped(j) /\ j.stamp.gen <= stamp.gen /\ j.left = {} /\ UNCHANGED stamp
    BY <1>7, <2>1 DEF VerdictInv, Local, Judged, Scoping, Judge
  <2>3. Scoped(k)
    BY <2>1, <2>2 DEF Frame, Scoped, Beyond
  <2>4. Differs(k) <=> Differs(j)
    BY <2>1 DEF Frame, Differs
  <2>5. ~Differs(k) => \A f \in Files : k.entries[f] = k.stamp.entries[f]
    BY ComposedFacts DEF Differs
  <2>6. ~k.drift => ~Differs(k)
    BY <2>1, <2>4
  <2>7. stamp.gen = k.stamp.gen => (k.drift <=> Differs(k))
    BY <2>1, <2>4 DEF Frame
  <2> HIDE DEF j, k
  <2>8. Local("delta", k)
    BY <2>1, <2>2, <2>3, <2>5, <2>6 DEF Local
  <2>9. Judged("delta", k)
    BY <2>1, <2>2, <2>7 DEF Judged, Frame
  <2> QED
    BY <2>1, <2>2, <2>8, <2>9, VerdictStep DEF Working
<1>8. ASSUME NEW p \in Passes, Delta(p) PROVE VerdictInv'
  <2> DEFINE j == pass[p]
             k == pass'[p]
  <2>1. /\ k \in PassRecs /\ Go(p, "done", k) /\ pc[p] = "delta"
        /\ k.stamp = j.stamp /\ k.oos = j.oos /\ k.entries = j.entries /\ k.drift = j.drift
        /\ k.delta = IF stamp.gen = j.stamp.gen THEN DeltaOf(j) ELSE None
    BY <1>0, <1>8, DeltaEffect
  <2>2. Local("delta", j) /\ Judged("delta", j) /\ j \in PassRecs /\ UNCHANGED stamp
    BY <1>0, <1>8, <2>1 DEF VerdictInv, Delta, SourceTypes
  <2>3. Differs(j) <=> Listed(DeltaOf(j)) \/ Uncovered(j.stamp, j.oos)
    BY <2>2, DeltaExplains DEF Local, Scoping
  <2>4. k.delta # None => (k.drift <=> Listed(k.delta) \/ Uncovered(k.stamp, k.oos))
    <3>1. CASE stamp.gen = j.stamp.gen
      BY <2>1, <2>2, <2>3, <3>1 DEF Judged
    <3>2. CASE stamp.gen # j.stamp.gen
      BY <2>1, <3>2
    <3> QED
      BY <3>1, <3>2
  <2>5. ~k.drift => \A f \in Files : k.entries[f] = k.stamp.entries[f]
    BY <2>1, <2>2 DEF Local
  <2> HIDE DEF j, k
  <2>6. Local("done", k) /\ Judged("done", k)
    BY <2>4, <2>5 DEF Local, Judged, Scoping
  <2> QED
    BY <2>1, <2>2, <2>6, VerdictStep
<1>9. ASSUME NEW f \in Files, NEW new, Becomes(f, new) PROVE UNCHANGED <<stamp, pc, pass>>
  BY <1>9 DEF Becomes
<1>10. ASSUME NEW f \in Files, Delete(f) \/ MoveBack(f) \/ \E c \in Contents : Write(f, c)
       PROVE  UNCHANGED <<stamp, pc, pass>>
  BY <1>9, <1>10 DEF Delete, MoveBack, Write
<1>11. ASSUME NEW new \in Profiles, Exclude(new) PROVE UNCHANGED <<stamp, pc, pass>>
  BY <1>11 DEF Exclude
<1> QED
  BY <1>1, <1>2, <1>3, <1>4, <1>5, <1>6, <1>7, <1>8, <1>10, <1>11 DEF Next, vars

\* A verdict and its delta agree: what a pass calls drift is listed, flagged
\* or counted as out of scope, and what is listed or flagged has drifted, but
\* for the moved exclusions of a repository with JavaScript or TypeScript,
\* which are flagged and in no identity (evaluate_staleness, delta_face).
THEOREM VerdictsExplained == Spec => []DriftExplained
<1>1. Init => SourceInv /\ VerdictInv
  BY SourceInvInit, VerdictInit
<1>2. SourceInv /\ VerdictInv /\ [Next]_vars => (SourceInv /\ VerdictInv)'
  BY SourceInvNext, VerdictNext
<1>3. VerdictInv => DriftExplained
  BY DEF VerdictInv, Local, DriftExplained, Listed, Uncovered
<1> QED
  BY <1>1, <1>2, <1>3, PTL DEF Spec

---------------------------------------------------------------------------
(* What a pass has seen.  A time names one state of a file, and the latest *)
(* as long as no move has brought an earlier state back; a cached hash is  *)
(* that of the state under whose time it stands, or of a later one.        *)

NoMoves == budget.moves = MaxMoves
PastInv ==
  /\ budget.moves <= MaxMoves
  /\ \A f \in Files : disk[f] \in past[f]
  /\ \A f \in Files : \A s \in past[f] \ {None} : s.m <= clock
  /\ \A f \in Files : \A s, t \in past[f] \ {None} : s.m = t.m => s = t
  /\ NoMoves => \A f \in Files : On(disk, f) => \A s \in past[f] \ {None} : s.m <= disk[f].m

\* What an entry of a cache is worth.
Backed(f, e) ==
  e # None => /\ f \notin raced => e \in past[f]
              /\ NoMoves => \E s \in past[f] \ {None} : s.c = e.c /\ s.m >= e.m
CacheInv ==
  /\ \A f \in Files : Backed(f, cache[f])
  /\ \A p \in Passes : \A f \in Files : Backed(f, pass[p].cache[f])

\* A row was seen at its time, and at any later one there has been.
Witnessed(p, f, time) ==
  /\ \E s \in held[p][f] \cap past[f] : s # None /\ s.m = time
  /\ NoMoves => \A s \in past[f] \ {None} : s.m >= time => s \in held[p][f]

SeenAs(p, at, j) ==
  /\ at # "idle" => \A f \in Files : disk[f] \in held[p][f]
  /\ at \in Working => \A f \in j.rows : Witnessed(p, f, j.times[f])
  /\ at = "load" => \A f \in Files \ j.rows : None \in held[p][f]
  /\ at \in Scoping => \A f \in Files \ j.rows : InScope(f, j.faces) => None \in held[p][f]
  /\ at = "done" => \A f \in Files :
        j.entries[f] = None /\ InScope(f, j.faces) => None \in held[p][f]
  /\ \A f \in Files : j.entries[f] # None /\ ~RacedAndBack(f) =>
        \E s \in held[p][f] : s # None /\ s.c = j.entries[f]

SeenInv == \A p \in Passes : SeenAs(p, pc[p], pass[p])

\* The world goes on, and a pass that runs sees it.
Evolves ==
  /\ budget'.moves <= budget.moves /\ raced \subseteq raced'
  /\ \A f \in Files : past[f] \subseteq past'[f]
Watched(p) ==
  \A f \in Files : /\ held[p][f] \subseteq held'[p][f]
                   /\ pc[p] # "idle" => /\ disk'[f] \in {disk[f]} \cup held'[p][f]
                                        /\ past'[f] \subseteq past[f] \cup held'[p][f]

LEMMA MovesStay ==
  ASSUME SourceInv, SourceInv', PastInv, Evolves
  PROVE  /\ NoMoves' => NoMoves
         /\ \A f : RacedAndBack(f) => RacedAndBack(f)'
<1>1. MaxMoves \in Nat /\ budget.moves \in Nat /\ budget'.moves \in Nat
  BY SourceIdentityAssumption DEF SourceInv, SourceTypes
<1>2. budget.moves <= MaxMoves /\ budget'.moves <= budget.moves
  BY DEF PastInv, Evolves
<1>3. budget'.moves = MaxMoves => budget.moves = MaxMoves
  BY <1>1, <1>2
<1>4. budget.moves < MaxMoves => budget'.moves < MaxMoves
  BY <1>1, <1>2
<1> QED
  BY <1>3, <1>4 DEF NoMoves, RacedAndBack, Evolves

LEMMA BackedStays ==
  ASSUME SourceInv, SourceInv', PastInv, Evolves, NEW f \in Files, NEW e, Backed(f, e)
  PROVE  Backed(f, e)'
<1>1. past[f] \subseteq past'[f] /\ raced \subseteq raced'
  BY DEF Evolves
<1> QED
  BY <1>1, MovesStay DEF Backed

LEMMA WitnessStays ==
  ASSUME SourceInv, SourceInv', PastInv, Evolves, NEW p \in Passes, Watched(p), pc[p] # "idle",
         NEW f \in Files, NEW time, Witnessed(p, f, time)
  PROVE  Witnessed(p, f, time)'
<1>1. past[f] \subseteq past'[f] /\ held[p][f] \subseteq held'[p][f]
      /\ past'[f] \subseteq past[f] \cup held'[p][f]
  BY DEF Evolves, Watched
<1> QED
  BY <1>1, MovesStay DEF Witnessed

LEMMA SeenStays ==
  ASSUME SourceInv, SourceInv', PastInv, Evolves, NEW p \in Passes, Watched(p), NEW at, NEW j,
         pc[p] = "idle" => at = "idle", SeenAs(p, at, j), j.rows \subseteq Files
  PROVE  SeenAs(p, at, j)'
<1>1. \A f \in Files : held[p][f] \subseteq held'[p][f]
  BY DEF Watched
<1>2. at # "idle" => \A f \in Files : disk'[f] \in held'[p][f]
  BY <1>1 DEF Watched, SeenAs
<1>3. at \in Working => \A f \in j.rows : Witnessed(p, f, j.times[f])'
  BY WitnessStays DEF Working, SeenAs
<1>4. \A f \in Files : ~RacedAndBack(f)' => ~RacedAndBack(f)
  BY MovesStay
<1>5. \A f \in Files : j.entries[f] # None /\ ~RacedAndBack(f)' =>
        \E s \in held'[p][f] : s # None /\ s.c = j.entries[f]
  BY <1>1, <1>4 DEF SeenAs
<1> QED
  BY <1>1, <1>2, <1>3, <1>5 DEF SeenAs

LEMMA PastInit == Init => PastInv
<1> SUFFICES ASSUME Init PROVE PastInv
  OBVIOUS
<1>1. PICK c \in Contents : disk \in [Files -> {None, [c |-> c, m |-> 0]}]
  BY DEF Init
<1>2. \A f \in Files : past[f] = {disk[f]} /\ disk[f] \in {None, [c |-> c, m |-> 0]}
  BY <1>1 DEF Init
<1>3. budget.moves = MaxMoves /\ MaxMoves \in Nat /\ clock = 0
  BY SourceIdentityAssumption DEF Init
<1>4. \A f \in Files : \A s \in past[f] \ {None} : s = [c |-> c, m |-> 0] /\ s = disk[f]
  BY <1>2
<1> QED
  BY <1>2, <1>3, <1>4 DEF PastInv

\* What a file becomes is newer than all it was, or a move has been spent.
LEMMA PastBecomes ==
  ASSUME SourceInv, SourceInv', PastInv, NEW f \in Files, NEW new \in States \cup {None},
         Becomes(f, new), clock' \in Nat, clock <= clock', budget'.moves <= budget.moves,
         \/ new = None
         \/ new # None /\ new.m = clock' /\ clock' = clock + 1
         \/ new \in past[f] /\ budget'.moves < budget.moves
  PROVE  PastInv'
<1>0. SourceTypes
  BY DEF SourceInv
<1>1. /\ disk'[f] = new /\ past'[f] = past[f] \cup {new}
      /\ \A g \in Files : g # f => disk'[g] = disk[g] /\ past'[g] = past[g]
  BY <1>0, BecomesFacts
<1>2. MaxMoves \in Nat /\ budget.moves \in Nat /\ budget'.moves \in Nat /\ clock \in Nat
  BY <1>0, SourceIdentityAssumption DEF SourceInv, SourceTypes
<1>3. budget'.moves <= MaxMoves /\ (NoMoves' => NoMoves /\ budget'.moves = budget.moves)
  BY <1>2 DEF PastInv, NoMoves
<1>4. \A g \in Files : \A s \in past[g] \ {None} : s.m \in Nat /\ s.m <= clock
  BY <1>0 DEF SourceTypes, States, PastInv
<1>5. ASSUME NEW g \in Files
      PROVE  /\ disk'[g] \in past'[g]
             /\ \A s \in past'[g] \ {None} : s.m <= clock'
             /\ \A s, t \in past'[g] \ {None} : s.m = t.m => s = t
             /\ NoMoves' /\ On(disk', g) => \A s \in past'[g] \ {None} : s.m <= disk'[g].m
  <2>1. CASE g # f
    BY <1>1, <1>2, <1>3, <1>4, <2>1 DEF PastInv, On
  <2>2. CASE g = f /\ new = None
    BY <1>1, <1>2, <1>4, <2>2 DEF PastInv, On
  <2>3. CASE g = f /\ new # None /\ new.m = clock' /\ clock' = clock + 1
    <3>1. \A s \in past[f] \ {None} : s.m # new.m /\ s.m <= new.m
      BY <1>2, <1>4, <2>3
    <3> QED
      BY <1>1, <1>2, <2>3, <3>1 DEF PastInv, On
  <2>4. CASE g = f /\ new \in past[f] /\ budget'.moves < budget.moves
    BY <1>1, <1>2, <1>3, <1>4, <2>4 DEF PastInv
  <2> QED
    BY <2>1, <2>2, <2>3, <2>4
<1> QED
  BY <1>3, <1>5 DEF PastInv

LEMMA PastNext ==
  ASSUME SourceInv, SourceInv', PastInv, [Next]_vars
  PROVE  PastInv' /\ Evolves /\ \A p \in Passes : Walk(p) \/ Watched(p)
<1>0. SourceTypes /\ budget.moves \in Nat /\ clock \in Nat
  BY DEF SourceInv, SourceTypes
<1>1. ASSUME UNCHANGED <<world, budget>>, raced \subseteq raced',
             \A p \in Passes : Walk(p) \/ held'[p] = held[p]
      PROVE  PastInv' /\ Evolves /\ \A p \in Passes : Walk(p) \/ Watched(p)
  <2>1. UNCHANGED <<disk, clock, past, budget>>
    BY <1>1 DEF world
  <2>2. PastInv'
    BY <2>1 DEF PastInv, NoMoves, On
  <2>3. Evolves
    BY <1>0, <1>1, <2>1 DEF Evolves
  <2> QED
    BY <1>1, <2>1, <2>2, <2>3 DEF Watched
<1>2. ASSUME NEW f \in Files, NEW k \in {"edits", "moves"}, NEW new \in States \cup {None},
             Spend(k), Becomes(f, new), clock' \in Nat, clock <= clock',
             \/ new = None
             \/ new # None /\ new.m = clock' /\ clock' = clock + 1
             \/ new \in past[f] /\ k = "moves"
      PROVE  PastInv' /\ Evolves /\ \A p \in Passes : Walk(p) \/ Watched(p)
  <2>1. /\ budget'.moves <= budget.moves
        /\ k = "moves" => budget'.moves = budget.moves - 1 /\ budget.moves > 0
    BY <1>0, <1>2, SpendFacts
  <2>2. k = "moves" => budget'.moves < budget.moves
    BY <1>0, <2>1
  <2>3. PastInv'
    BY <1>2, <2>1, <2>2, PastBecomes
  <2>4. /\ disk'[f] = new /\ past'[f] = past[f] \cup {new}
        /\ \A g \in Files : g # f => disk'[g] = disk[g] /\ past'[g] = past[g]
        /\ raced' = raced
    BY <1>0, <1>2, BecomesFacts
  <2>5. Evolves
    BY <2>1, <2>4 DEF Evolves
  <2>6. ASSUME NEW p \in Passes PROVE Watched(p)
    <3>1. CASE pc[p] = "idle"
      BY <1>0, <1>2, <3>1, BecomesFacts DEF Watched
    <3>2. CASE pc[p] # "idle"
      <4>1. held'[p][f] = held[p][f] \cup {new} /\ \A g \in Files : g # f => held'[p][g] = held[p][g]
        BY <1>0, <1>2, <3>2, BecomesFacts
      <4> QED
        BY <2>4, <3>2, <4>1 DEF Watched
    <3> QED
      BY <3>1, <3>2
  <2> QED
    BY <2>3, <2>5, <2>6
<1>3. CASE UNCHANGED vars
  BY <1>1, <1>3 DEF vars
<1>4. CASE Stamp
  <2>1. budget'.moves <= budget.moves
    BY <1>0, <1>4, SpendFacts DEF Stamp
  <2>2. UNCHANGED <<disk, clock, past, raced, held>> /\ budget'.moves = budget.moves
    BY <1>0, <1>4, SpendFacts DEF Stamp, world
  <2>3. PastInv'
    BY <2>2 DEF PastInv, NoMoves, On
  <2> QED
    BY <2>1, <2>2, <2>3 DEF Evolves, Watched
<1>5. ASSUME NEW f \in Files, NEW c \in Contents, Write(f, c)
      PROVE  PastInv' /\ Evolves /\ \A p \in Passes : Walk(p) \/ Watched(p)
  <2> DEFINE new == [c |-> c, m |-> clock + 1]
  <2>1. new \in States /\ new.m = clock + 1
    BY <1>0 DEF States
  <2>2. Spend("edits") /\ Becomes(f, new) /\ clock' = clock + 1
    BY <1>5 DEF Write
  <2> HIDE DEF new
  <2>3. clock' \in Nat /\ clock <= clock' /\ new # None
    BY <1>0, <2>1, <2>2, NoneFacts
  <2> QED
    BY <1>2, <2>1, <2>2, <2>3
<1>6. ASSUME NEW f \in Files, Delete(f)
      PROVE  PastInv' /\ Evolves /\ \A p \in Passes : Walk(p) \/ Watched(p)
  BY <1>0, <1>2, <1>6 DEF Delete
<1>7. ASSUME NEW f \in Files, MoveBack(f)
      PROVE  PastInv' /\ Evolves /\ \A p \in Passes : Walk(p) \/ Watched(p)
  <2>1. PICK old \in past[f] \ {disk[f], None} : Becomes(f, old)
    BY <1>7 DEF MoveBack
  <2>2. old \in States \cup {None}
    BY <1>0 DEF SourceTypes
  <2> QED
    BY <1>0, <1>2, <1>7, <2>1, <2>2 DEF MoveBack
<1>8. ASSUME NEW new \in Profiles, Exclude(new)
      PROVE  PastInv' /\ Evolves /\ \A p \in Passes : Walk(p) \/ Watched(p)
  <2>1. UNCHANGED <<disk, clock, past, raced, held>> /\ budget'.moves = budget.moves
    BY <1>0, <1>8, SpendFacts DEF Exclude
  <2>2. PastInv'
    BY <2>1 DEF PastInv, NoMoves, On
  <2> QED
    BY <1>0, <2>1, <2>2 DEF Evolves, Watched
<1>9. ASSUME NEW p \in Passes, Walk(p)
      PROVE  PastInv' /\ Evolves /\ \A q \in Passes : Walk(q) \/ Watched(q)
  <2>1. \A q \in Passes : q # p => held'[q] = held[q]
    BY <1>9, WalkHeld
  <2>2. UNCHANGED <<world, budget, raced>>
    BY <1>9 DEF Walk
  <2> QED
    BY <1>1, <1>9, <2>1, <2>2
<1>10. ASSUME NEW p \in Passes, LoadStamp(p) \/ Store(p) \/ Judge(p) \/ Delta(p)
       PROVE  UNCHANGED <<world, budget, raced, held>>
  BY <1>10 DEF LoadStamp, Store, Judge, Delta
<1>11. ASSUME NEW p \in Passes, NEW f \in Files, Hash(p, f)
       PROVE  UNCHANGED <<world, budget, held>> /\ raced \subseteq raced'
  BY <1>11 DEF Hash
<1> QED
  BY <1>1, <1>3, <1>4, <1>5, <1>6, <1>7, <1>8, <1>9, <1>10, <1>11 DEF Next

\* Pass p goes on while the world stands still: what it has seen is judged by
\* the locals it goes on with.
LEMMA SeenStep ==
  ASSUME SourceInv, SourceInv', PastInv, SeenInv, Evolves,
         NEW p \in Passes, pc[p] # "idle",
         NEW to \in Working \cup {"idle", "done", "error"}, NEW j \in PassRecs, Go(p, to, j),
         UNCHANGED <<world, held>>, SeenAs(p, to, j)
  PROVE  SeenInv'
<1>1. UNCHANGED <<disk, past, held>>
  BY DEF world
<1>2. ASSUME NEW q \in Passes PROVE SeenAs(q, pc[q], pass[q])'
  <2>1. Watched(q)
    BY <1>1 DEF Watched
  <2>2. \/ q = p /\ pc'[q] = to /\ pass'[q] = j
        \/ pc'[q] = pc[q] /\ pass'[q] = pass[q]
    BY GoFacts DEF SourceInv
  <2>3. SeenAs(q, pc[q], pass[q])
    BY DEF SeenInv
  <2>4. pass[q].rows \subseteq Files /\ j.rows \subseteq Files
    BY DEF SourceInv, SourceTypes, PassRecs
  <2>5. PICK at, i : /\ at = pc'[q] /\ i = pass'[q] /\ i.rows \subseteq Files
                    /\ SeenAs(q, at, i) /\ (pc[q] = "idle" => at = "idle")
    BY <2>2, <2>3, <2>4
  <2>6. SeenAs(q, at, i)'
    BY <2>1, <2>5, SeenStays
  <2> QED
    BY <2>5, <2>6 DEF SeenAs
<1> QED
  BY <1>2 DEF SeenInv

\* What a step may leave in a cache: what was in one, or a hash that is backed.
LEMMA CacheStep ==
  ASSUME SourceInv, SourceInv', PastInv, CacheInv, Evolves,
         NEW p \in Passes, NEW to \in Working \cup {"idle", "done", "error"}, NEW j \in PassRecs,
         Go(p, to, j),
         \A f \in Files : cache'[f] \in {None, cache[f], pass[p].cache[f]},
         \A f \in Files : j.cache[f] \in {None, cache[f], pass[p].cache[f]} \/ Backed(f, j.cache[f])'
  PROVE  CacheInv'
<1>1. ASSUME NEW f \in Files, NEW e, e \in {None, cache[f]} \/ \E q \in Passes : e = pass[q].cache[f]
      PROVE  Backed(f, e)'
  <2>1. Backed(f, e)
    BY <1>1 DEF CacheInv, Backed
  <2> QED
    BY <2>1, BackedStays
<1>2. ASSUME NEW f \in Files PROVE Backed(f, cache[f])'
  <2>1. PICK e : e = cache'[f]
    OBVIOUS
  <2>2. Backed(f, e)'
    BY <1>1, <2>1
  <2> QED
    BY <2>1, <2>2 DEF Backed
<1>3. ASSUME NEW q \in Passes, NEW f \in Files PROVE Backed(f, pass[q].cache[f])'
  <2>1. PICK e : e = pass'[q].cache[f]
    OBVIOUS
  <2>2. (q = p /\ e = j.cache[f]) \/ e = pass[q].cache[f]
    BY <2>1, GoFacts DEF SourceInv
  <2>3. Backed(f, e)'
    BY <1>1, <2>2
  <2> QED
    BY <2>1, <2>3 DEF Backed
<1> QED
  BY <1>2, <1>3 DEF CacheInv

LEMMA CacheStays ==
  ASSUME SourceInv, SourceInv', PastInv, CacheInv, Evolves, UNCHANGED pass,
         \A f \in Files : cache'[f] \in {None, cache[f]}
  PROVE  CacheInv'
<1>1. ASSUME NEW f \in Files PROVE Backed(f, cache[f])'
  <2>1. PICK e : e = cache'[f]
    OBVIOUS
  <2>2. Backed(f, e)
    BY <2>1 DEF CacheInv, Backed
  <2> QED
    BY <2>1, <2>2, BackedStays DEF Backed
<1>2. ASSUME NEW q \in Passes, NEW f \in Files PROVE Backed(f, pass[q].cache[f])'
  <2>1. PICK e : e = pass[q].cache[f]
    OBVIOUS
  <2>2. Backed(f, e)
    BY <2>1 DEF CacheInv
  <2> QED
    BY <2>1, <2>2, BackedStays DEF Backed
<1> QED
  BY <1>1, <1>2 DEF CacheInv

\* The hash of a row: what is read is of now, what is cached under the time of
\* the walk is of a state that the pass has seen.
LEMMA HashSees ==
  ASSUME SourceInv, PastInv, CacheInv, SeenInv,
         NEW p \in Passes, NEW f \in Files, Hash(p, f)
  PROVE  LET j == pass[p]  k == pass'[p] IN
         /\ ReadNow(j, k, f) => disk[f] \in held[p][f] /\ disk[f] # None
         /\ TakenFromCache(j, k, f) /\ ~RacedAndBack(f) =>
               \E s \in held[p][f] : s # None /\ s.c = j.cache[f].c
         /\ f \in j.rows /\ pc[p] = "hash" /\ Witnessed(p, f, j.times[f])
<1> DEFINE j == pass[p]
           k == pass'[p]
<1>0. SourceTypes
  BY DEF SourceInv
<1>1. pc[p] = "hash" /\ f \in j.left
  <2>1. pc[p] = "hash" /\ j.left # {} /\ f = Foremost(j.left)
    BY DEF Hash
  <2> QED
    BY <2>1 DEF Foremost
<1>2. f \in j.rows
  BY <1>1 DEF SourceInv, Timed
<1>3. SeenAs(p, "hash", j)
  BY <1>1 DEF SeenInv
<1>4. disk[f] \in held[p][f] /\ Witnessed(p, f, j.times[f])
  BY <1>2, <1>3 DEF SeenAs, Working
<1> HIDE DEF j, k
<1>5. ASSUME TakenFromCache(j, k, f), ~RacedAndBack(f)
      PROVE  \E s \in held[p][f] : s # None /\ s.c = j.cache[f].c
  <2> DEFINE e == j.cache[f]
  <2>1. e # None /\ e.m = j.times[f]
    BY <1>5 DEF TakenFromCache
  <2>2. Backed(f, e)
    BY DEF CacheInv, j
  <2> HIDE DEF e
  <2>3. CASE f \notin raced
    <3>1. e \in past[f]
      BY <2>1, <2>2, <2>3 DEF Backed
    <3>2. PICK s \in held[p][f] \cap past[f] : s # None /\ s.m = j.times[f]
      BY <1>4 DEF Witnessed
    <3>3. s = e
      BY <2>1, <3>1, <3>2 DEF PastInv
    <3> QED
      BY <3>2, <3>3 DEF e
  <2>4. CASE f \in raced
    <3>1. NoMoves
      <4>1. ~(budget.moves < MaxMoves) /\ budget.moves <= MaxMoves
        BY <1>5, <2>4 DEF RacedAndBack, PastInv
      <4>2. budget.moves \in Nat /\ MaxMoves \in Nat
        BY <1>0, SourceIdentityAssumption DEF SourceTypes
      <4> QED
        BY <4>1, <4>2 DEF NoMoves
    <3>2. PICK s \in past[f] \ {None} : s.c = e.c /\ s.m >= j.times[f]
      BY <2>1, <2>2, <3>1 DEF Backed
    <3>3. s \in held[p][f]
      BY <1>4, <3>1, <3>2 DEF Witnessed
    <3> QED
      BY <3>2, <3>3 DEF e
  <2> QED
    BY <2>3, <2>4
<1> QED
  BY <1>1, <1>2, <1>4, <1>5 DEF ReadNow, On, j, k

LEMMA CacheNext ==
  ASSUME SourceInv, SourceInv', PastInv, CacheInv, SeenInv, Evolves, [Next]_vars
  PROVE  CacheInv'
<1>0. SourceTypes
  BY DEF SourceInv
<1>1. CASE UNCHANGED <<cache, pass>>
  BY <1>1, CacheStays
<1>2. CASE Stamp
  BY <1>2, CacheStays DEF Stamp, NoEntries
<1>3. ASSUME NEW p \in Passes, Walk(p) PROVE CacheInv'
  <2>1. PICK j \in PassRecs : Go(p, "load", j)
    BY <1>0, <1>3, WalkEffect
  <2>2. j = pass'[p]
    BY <1>0, <2>1, GoFacts DEF Working
  <2>3. j.cache = NoEntries /\ UNCHANGED cache
    BY <1>0, <1>3, <2>2, WalkEffect DEF Walk
  <2> QED
    BY <2>1, <2>3, CacheStep DEF Working, NoEntries
<1>4. ASSUME NEW p \in Passes, LoadStamp(p) PROVE CacheInv'
  <2>1. pass[p].rows \subseteq Files /\ UNCHANGED cache
    BY <1>0, <1>4 DEF SourceTypes, PassRecs, LoadStamp
  <2>2. PICK j \in PassRecs : Go(p, "hash", j) /\ (j.cache = NoEntries \/ j.cache = cache)
    BY <1>0, <1>4, <2>1, LoadEffect
  <2> QED
    BY <2>1, <2>2, CacheStep DEF Working, NoEntries
<1>5. ASSUME NEW p \in Passes, NEW f \in Files, Hash(p, f) PROVE CacheInv'
  <2>1. /\ f \in pass[p].rows /\ Witnessed(p, f, pass[p].times[f])
    BY <1>5, HashSees
  <2>2. pass[p].times[f] \in Nat
    BY <2>1 DEF SourceInv, Timed
  <2>3. UNCHANGED <<disk, past, budget, cache>>
    BY <1>5 DEF Hash, world
  <2>4. PICK j : j = pass'[p]
    OBVIOUS
  <2>5. /\ j \in PassRecs
        /\ \/ Go(p, "error", j) /\ j = Idle
           \/ Go(p, "hash", j) /\ (ReadNow(pass[p], j, f) \/ TakenFromCache(pass[p], j, f))
    BY <1>0, <1>5, <2>2, <2>4, HashEffect
  <2>6. CASE Go(p, "error", j) /\ j = Idle
    BY <2>3, <2>5, <2>6, CacheStep DEF Idle, NoEntries
  <2>7. CASE Go(p, "hash", j) /\ j.cache = pass[p].cache
    BY <2>3, <2>5, <2>7, CacheStep DEF Working
  <2>8. CASE Go(p, "hash", j) /\ ReadNow(pass[p], j, f) /\ j.cache # pass[p].cache
    <3> DEFINE e == [c |-> disk[f].c, m |-> pass[p].times[f]]
    <3>1. /\ On(disk, f) /\ j.cache = [pass[p].cache EXCEPT ![f] = e]
          /\ disk[f].m # pass[p].times[f] => f \in raced'
      BY <2>8 DEF ReadNow
    <3>2. disk[f] \in States /\ disk[f] \in past[f] \ {None}
      BY <1>0, <3>1 DEF SourceTypes, PastInv, On
    <3>3. disk[f].m = pass[p].times[f] => e = disk[f]
      BY <3>2 DEF States
    <3>4. NoMoves => pass[p].times[f] <= disk[f].m
      BY <2>1, <3>1, <3>2 DEF Witnessed, PastInv
    <3>5. e.c = disk[f].c /\ e.m = pass[p].times[f]
      OBVIOUS
    <3>6. j.cache[f] = e /\ \A g \in Files : g # f => j.cache[g] = pass[p].cache[g]
      BY <1>0, <3>1 DEF SourceTypes, PassRecs, Caches
    <3> HIDE DEF e
    <3>7. Backed(f, j.cache[f])'
      <4>1. f \notin raced' => e \in past'[f]
        BY <2>3, <3>1, <3>2, <3>3
      <4>2. NoMoves' => \E s \in past'[f] \ {None} : s.c = e.c /\ s.m >= e.m
        <5>1. ASSUME NoMoves' PROVE pass[p].times[f] <= disk[f].m
          BY <2>3, <3>4, <5>1 DEF NoMoves
        <5>2. disk[f].m \in Nat
          BY <3>2 DEF States
        <5>3. ASSUME NoMoves' PROVE disk[f].c = e.c /\ disk[f].m >= e.m
          BY <2>2, <3>5, <5>1, <5>2, <5>3
        <5> QED
          BY <2>3, <3>2, <5>3
      <4> QED
        BY <3>6, <4>1, <4>2 DEF Backed
    <3> QED
      BY <2>3, <2>5, <2>8, <3>6, <3>7, CacheStep DEF Working
  <2> QED
    BY <2>5, <2>6, <2>7, <2>8 DEF TakenFromCache
<1>6. ASSUME NEW p \in Passes, Store(p) PROVE CacheInv'
  <2>1. PICK j \in PassRecs : Go(p, "judge", j) /\ j.cache = pass[p].cache
    BY <1>0, <1>6, StoreEffect
  <2>2. \A f \in Files : cache'[f] \in {None, pass[p].cache[f], cache[f]}
    BY <1>0, <1>6, StoreEffect
  <2> QED
    BY <2>1, <2>2, CacheStep DEF Working
<1>7. ASSUME NEW p \in Passes, Judge(p) PROVE CacheInv'
  <2>1. PICK j \in PassRecs : Go(p, "delta", j) /\ j.cache = pass[p].cache
    BY <1>0, <1>7, JudgeEffect
  <2> QED
    BY <1>7, <2>1, CacheStep DEF Working, Judge
<1>8. ASSUME NEW p \in Passes, Delta(p) PROVE CacheInv'
  <2>1. PICK j \in PassRecs : Go(p, "done", j) /\ j.cache = NoEntries
    BY <1>0, <1>8, DeltaEffect
  <2> QED
    BY <1>8, <2>1, CacheStep DEF Delta, NoEntries
<1>9. ASSUME NEW f \in Files, Delete(f) \/ MoveBack(f) \/ \E c \in Contents : Write(f, c)
      PROVE  UNCHANGED <<cache, pass>>
  BY <1>9 DEF Delete, MoveBack, Write, Becomes
<1>10. ASSUME NEW new \in Profiles, Exclude(new) PROVE UNCHANGED <<cache, pass>>
  BY <1>10 DEF Exclude
<1> QED
  BY <1>1, <1>2, <1>3, <1>4, <1>5, <1>6, <1>7, <1>8, <1>9, <1>10 DEF Next, vars

LEMMA SeenIdle ==
  ASSUME SourceInv, SourceInv', PastInv, SeenInv, Evolves, NEW q \in Passes, Watched(q),
         pc'[q] = pc[q], pass'[q] = pass[q]
  PROVE  SeenAs(q, pc[q], pass[q])'
<1>1. PICK at, i : at = pc[q] /\ i = pass[q]
  OBVIOUS
<1>2. SeenAs(q, at, i) /\ i.rows \subseteq Files
  BY <1>1 DEF SeenInv, SourceInv, SourceTypes, PassRecs
<1>3. SeenAs(q, at, i)'
  BY <1>1, <1>2, SeenStays
<1> QED
  BY <1>1, <1>3 DEF SeenAs

LEMMA WalkSees ==
  ASSUME SourceInv, SourceInv', PastInv, NEW p \in Passes, Walk(p)
  PROVE  SeenAs(p, pc[p], pass[p])'
<1>0. SourceTypes
  BY DEF SourceInv
<1>1. PICK k : k = pass'[p]
  OBVIOUS
<1>2. /\ k.rows = Source(disk, profile) \cup InputsFound(disk, profile)
      /\ k.times = [f \in Files |-> IF On(disk, f) THEN disk[f].m ELSE None]
      /\ k.entries = NoEntries
  BY <1>0, <1>1, WalkEffect
<1>3. pc'[p] = "load"
  BY <1>0, WalkEffect, GoFacts DEF Working
<1>4. \A f \in Files : held'[p][f] = {disk[f]} \cup (IF f \in k.rows THEN {} ELSE {None})
  BY <1>1, WalkHeld
<1>5. UNCHANGED <<disk, past, budget>>
  BY DEF Walk, world
<1>6. ASSUME NEW f \in k.rows
      PROVE  f \in Files /\ On(disk, f) /\ k.times[f] = disk[f].m /\ disk[f].m \in Nat
  <2>1. f \in Files /\ On(disk, f)
    BY <1>2, WalkFacts DEF Source, InputsFound
  <2> QED
    BY <1>0, <1>2, <2>1 DEF SourceTypes, On, States
<1>7. ASSUME NEW f \in k.rows PROVE Witnessed(p, f, k.times[f])'
  <2>1. f \in Files /\ disk[f] # None /\ k.times[f] = disk[f].m /\ disk[f] \in past[f]
    BY <1>6 DEF On, PastInv
  <2>2. held'[p][f] = {disk[f]}
    BY <1>4, <1>6, <1>7
  <2>3. ASSUME NoMoves, NEW s \in past[f] \ {None}, s.m >= disk[f].m PROVE s = disk[f]
    <3>1. s.m <= disk[f].m
      BY <1>6, <2>3 DEF PastInv
    <3>2. s.m \in Nat
      BY <1>0, <2>1, <2>3 DEF SourceTypes, States
    <3>3. s.m = disk[f].m
      BY <1>6, <2>3, <3>1, <3>2
    <3> QED
      BY <2>1, <2>3, <3>3 DEF PastInv
  <2> QED
    BY <1>5, <2>1, <2>2, <2>3 DEF Witnessed, NoMoves
<1>8. SeenAs(p, "load", k)'
  BY <1>2, <1>4, <1>5, <1>7 DEF SeenAs, NoEntries, Scoping
<1> QED
  BY <1>1, <1>3, <1>8 DEF SeenAs

LEMMA SeenNext ==
  ASSUME SourceInv, SourceInv', VerdictInv, PastInv, CacheInv, SeenInv, [Next]_vars
  PROVE  SeenInv'
<1>0. SourceTypes /\ Evolves /\ \A q \in Passes : Walk(q) \/ Watched(q)
  BY PastNext DEF SourceInv
<1>1. ASSUME NEW p \in Passes, Walk(p) PROVE SeenInv'
  <2>1. PICK j \in PassRecs : Go(p, "load", j)
    BY <1>0, <1>1, WalkEffect
  <2>2. ASSUME NEW q \in Passes, q # p PROVE SeenAs(q, pc[q], pass[q])'
    <3>1. pc'[q] = pc[q] /\ pass'[q] = pass[q]
      BY <1>0, <2>1, <2>2, GoFacts DEF Working
    <3>2. held'[q] = held[q] /\ UNCHANGED world
      BY <1>1, <2>2, WalkHeld DEF Walk
    <3>3. Watched(q)
      BY <3>2 DEF Watched, world
    <3> QED
      BY <1>0, <3>1, <3>3, SeenIdle
  <2>3. SeenAs(p, pc[p], pass[p])'
    BY <1>1, WalkSees
  <2> QED
    BY <2>2, <2>3 DEF SeenInv
<1>2. CASE UNCHANGED <<pc, pass>> /\ \A q \in Passes : ~Walk(q)
  BY <1>0, <1>2, SeenIdle DEF SeenInv
<1>3. ASSUME NEW p \in Passes, LoadStamp(p) PROVE SeenInv'
  <2>1. pass[p].rows \subseteq Files /\ UNCHANGED <<world, held>>
    BY <1>0, <1>3 DEF SourceTypes, PassRecs, LoadStamp
  <2>2. PICK k : k = pass'[p]
    OBVIOUS
  <2>3. /\ pc[p] = "load" /\ k \in PassRecs /\ Go(p, "hash", k)
        /\ k.rows = {f \in pass[p].rows : InScope(f, k.faces)}
        /\ k.times = pass[p].times /\ k.entries = pass[p].entries
    BY <1>0, <1>3, <2>1, <2>2, LoadEffect
  <2>4. SeenAs(p, "load", pass[p])
    BY <2>3 DEF SeenInv
  <2>5. SeenAs(p, "hash", k)
    BY <2>3, <2>4 DEF SeenAs, Working, Scoping
  <2> QED
    BY <1>0, <2>1, <2>3, <2>5, SeenStep DEF Working
<1>4. ASSUME NEW p \in Passes, NEW f \in Files, Hash(p, f) PROVE SeenInv'
  <2>1. /\ ReadNow(pass[p], pass'[p], f) => disk[f] \in held[p][f] /\ disk[f] # None
        /\ TakenFromCache(pass[p], pass'[p], f) /\ ~RacedAndBack(f) =>
              \E s \in held[p][f] : s # None /\ s.c = pass[p].cache[f].c
        /\ f \in pass[p].rows /\ pc[p] = "hash"
    BY <1>4, HashSees
  <2>2. pass[p].times[f] \in Nat /\ UNCHANGED <<world, held>>
    BY <1>4, <2>1 DEF SourceInv, Timed, Hash
  <2>3. PICK k : k = pass'[p]
    OBVIOUS
  <2>4. /\ k \in PassRecs
        /\ \/ Go(p, "error", k) /\ k = Idle
           \/ /\ Go(p, "hash", k) /\ Frame(pass[p], k)
              /\ ReadNow(pass[p], k, f) \/ TakenFromCache(pass[p], k, f)
    BY <1>0, <1>4, <2>2, <2>3, HashEffect
  <2>5. SeenAs(p, "hash", pass[p])
    BY <2>1 DEF SeenInv
  <2>6. CASE Go(p, "error", k) /\ k = Idle
    <3>1. SeenAs(p, "error", k)
      BY <2>5, <2>6 DEF SeenAs, Working, Scoping, Idle, NoEntries
    <3> QED
      BY <1>0, <2>1, <2>2, <2>4, <2>6, <3>1, SeenStep
  <2>7. CASE /\ Go(p, "hash", k) /\ Frame(pass[p], k)
             /\ ReadNow(pass[p], k, f) \/ TakenFromCache(pass[p], k, f)
    <3>1. PICK c : /\ k.entries = [pass[p].entries EXCEPT ![f] = c]
                   /\ ~RacedAndBack(f) => \E s \in held[p][f] : s # None /\ s.c = c
      <4>1. CASE ReadNow(pass[p], k, f)
        BY <2>1, <2>3, <4>1 DEF ReadNow
      <4>2. CASE TakenFromCache(pass[p], k, f)
        BY <2>1, <2>3, <4>2 DEF TakenFromCache
      <4> QED
        BY <2>7, <4>1, <4>2
    <3>2. pass[p].entries \in Hashes
      BY <1>0 DEF SourceTypes, PassRecs
    <3>3. ASSUME NEW g \in Files, k.entries[g] # None, ~RacedAndBack(g)
          PROVE  \E s \in held[p][g] : s # None /\ s.c = k.entries[g]
      <4>1. CASE g = f
        BY <3>1, <3>2, <3>3, <4>1 DEF Hashes
      <4>2. CASE g # f
        BY <2>5, <3>1, <3>2, <3>3, <4>2 DEF Hashes, SeenAs
      <4> QED
        BY <4>1, <4>2
    <3>4. SeenAs(p, "hash", k)
      BY <2>5, <2>7, <3>3 DEF SeenAs, Frame
    <3> QED
      BY <1>0, <2>1, <2>2, <2>4, <2>7, <3>4, SeenStep DEF Working
  <2> QED
    BY <2>4, <2>6, <2>7
<1>5. ASSUME NEW p \in Passes, NEW to \in {"judge", "delta"}, NEW k \in PassRecs, Go(p, to, k),
             Frame(pass[p], k), k.entries = pass[p].entries, pc[p] \in {"hash", "judge"},
             UNCHANGED <<world, held>>
      PROVE  SeenInv'
  <2>1. SeenAs(p, pc[p], pass[p])
    BY DEF SeenInv
  <2>2. SeenAs(p, to, k)
    BY <1>5, <2>1 DEF SeenAs, Frame, Working, Scoping
  <2> QED
    BY <1>0, <1>5, <2>2, SeenStep DEF Working
<1>6. ASSUME NEW p \in Passes, Store(p) PROVE SeenInv'
  BY <1>0, <1>5, <1>6, StoreEffect DEF Store
<1>7. ASSUME NEW p \in Passes, Judge(p) PROVE SeenInv'
  BY <1>0, <1>5, <1>7, JudgeEffect DEF Judge
<1>8. ASSUME NEW p \in Passes, Delta(p) PROVE SeenInv'
  <2>1. PICK k : /\ pc[p] = "delta" /\ k \in PassRecs /\ Go(p, "done", k)
                 /\ k.faces = pass[p].faces /\ k.entries = pass[p].entries
    BY <1>0, <1>8, DeltaEffect
  <2>2. SeenAs(p, "delta", pass[p]) /\ Scoped(pass[p]) /\ pass[p].left = {}
    BY <2>1 DEF SeenInv, VerdictInv, Local, Scoping
  <2>3. \A f \in Files : pass[p].entries[f] = None => f \in Files \ pass[p].rows
    BY <2>2 DEF Scoped
  <2>4. SeenAs(p, "done", k)
    BY <2>1, <2>2, <2>3 DEF SeenAs, Scoping, Working
  <2>5. UNCHANGED <<world, held>>
    BY <1>8 DEF Delta
  <2> QED
    BY <1>0, <2>1, <2>4, <2>5, SeenStep
<1>9. ASSUME NEW f \in Files, Delete(f) \/ MoveBack(f) \/ \E c \in Contents : Write(f, c)
      PROVE  UNCHANGED <<pc, pass>>
  BY <1>9 DEF Delete, MoveBack, Write, Becomes
<1>10. CASE Stamp
  BY <1>1, <1>2, <1>10 DEF Stamp
<1>11. ASSUME NEW new \in Profiles, Exclude(new) PROVE UNCHANGED <<pc, pass>>
  BY <1>11 DEF Exclude
<1> QED
  BY <1>1, <1>2, <1>3, <1>4, <1>6, <1>7, <1>8, <1>9, <1>10, <1>11 DEF Next, vars

LEMMA SeenInit == Init => CacheInv /\ SeenInv
BY DEF Init, CacheInv, Backed, SeenInv, SeenAs, Working, Scoping, Idle, NoEntries

\* A pass that finds no drift has seen the stamped source: each file of the
\* manifest held the stamped content at some moment of the pass, and no other
\* file of the scope was governed throughout, whatever other passes cached and
\* however the files were edited in between (content_hash_of, IdentityCache).
THEOREM FreshMeansSeen == Spec => []FreshIsTrue
<1> DEFINE I == SourceInv /\ VerdictInv /\ PastInv /\ CacheInv /\ SeenInv
<1>1. Init => I
  BY SourceInvInit, VerdictInit, PastInit, SeenInit
<1>2. I /\ [Next]_vars => I'
  BY SourceInvNext, VerdictNext, PastNext, CacheNext, SeenNext
<1>3. I => FreshIsTrue
  <2> SUFFICES ASSUME I, NEW p \in Passes, pc[p] = "done", ~pass[p].drift,
                      NEW f \in Files, ~RacedAndBack(f)
               PROVE  IF pass[p].stamp.entries[f] # None
                      THEN \E s \in held[p][f] : s # None /\ s.c = pass[p].stamp.entries[f]
                      ELSE InScope(f, pass[p].faces) => None \in held[p][f]
    BY DEF FreshIsTrue
  <2>1. pass[p].entries[f] = pass[p].stamp.entries[f]
    BY DEF VerdictInv, Local
  <2>2. SeenAs(p, "done", pass[p])
    BY DEF SeenInv
  <2> QED
    BY <2>1, <2>2 DEF SeenAs
<1> HIDE DEF I
<1> QED
  BY <1>1, <1>2, <1>3, PTL DEF Spec

=============================================================================
