-------------------------- MODULE SourceIdentity ---------------------------
(***************************************************************************)
(* What a query compares to tell whether the index is of the source on     *)
(* disk: the walk, the per-file hashes with the cache that saves reading   *)
(* unchanged files, the identity composed of them, and the delta against   *)
(* the manifest that the build stamped (identity.rs, engine.rs).  Files    *)
(* are edited, moved and excluded between any two steps, other passes and  *)
(* a build share the cache file.  A hash is its content, and an identity   *)
(* the entries it is composed of: two contents of one hash are left out.   *)
(***************************************************************************)
EXTENDS Integers, FiniteSets

CONSTANTS
  Python, Rust, JavaScript, TypeScript,     \* files of the four faces
  Inputs,           \* Cargo manifests: rows of the rust-input face
  Markers,          \* locks and toolchain files: rows, or marked as absent
  Elsewhere,        \* prefixes to exclude that no governed file has
  Contents,         \* what a file may hold; all of one size
  Passes,           \* passes over the source, each by its own process
  Selections,       \* how the index was built: subsets of {"auto", "explicit"}
  Pin,              \* the faces of the family that an explicit build names
  MaxEdits,         \* bound: writes, deletions and exclusions
  MaxMoves,         \* bound: moves that bring a file back with its old time
  MaxStamps,        \* bound: builds
  None              \* no file, no entry, nothing

Scripts == JavaScript \cup TypeScript
Sources == Python \cup Rust \cup Scripts
Files == Sources \cup Inputs \cup Markers

ASSUME SourceIdentityAssumption ==
  /\ Python \cap (Rust \cup Scripts) = {} /\ Rust \cap Scripts = {}
  /\ JavaScript \cap TypeScript = {} /\ Inputs \cap Markers = {}
  /\ Sources \cap (Inputs \cup Markers) = {} /\ IsFiniteSet(Files)
  /\ Selections \subseteq {"auto", "explicit"}
  /\ Pin \in {{"python"}, {"rust"}, {"javascript", "typescript"}}
  /\ {MaxEdits, MaxMoves, MaxStamps} \subseteq Nat
ASSUME SourceSentinelAssumption ==
  None \notin Contents \cup [c : Contents, m : Nat] /\ \A ms \in SUBSET Markers : ms # None

FaceOf(f) == CASE f \in Python -> "python" [] f \in Rust -> "rust"
               [] f \in JavaScript -> "javascript" [] f \in TypeScript -> "typescript"
               [] OTHER -> "rust-input"

VARIABLES
  disk,         \* file -> [c, m]: content and time, or None
  profile,      \* what .code-reality.toml excludes, or None: no such file
  clock,        \* the time of the latest write: no two writes share one
  past,         \* file -> the states it had, which a move can bring back
  stamp,        \* meta and manifest: [gen, faces, selection, entries,
                \* topology, profile]
  cache,        \* identity-cache.json: file -> [c, m], or None
  pc, pass,     \* each pass's place and locals
  held,         \* history: pass -> file -> what it held while the pass ran, and
                \* None if the walk of the pass did not find it
  raced,        \* history: files whose hash was cached under another state's time
  budget        \* edits, moves and stamps left

world == <<disk, profile, clock, past>>
vars == <<world, stamp, cache, pc, pass, held, raced, budget>>

(***************************************************************************)
(* The walk of the governed source.                                        *)
(***************************************************************************)
On(d, f) == d[f] # None
Excluded(ex) == IF ex = None THEN {} ELSE ex
Source(d, ex) == {f \in Sources : On(d, f) /\ f \notin Excluded(ex)}
\* collect_rust_inputs: only when the walk has found a Rust file.
RustWalk(d, ex) == Source(d, ex) \cap Rust # {}
InputsFound(d, ex) == IF RustWalk(d, ex) THEN {f \in Inputs \cup Markers : On(d, f)} ELSE {}
Topology(d, ex) == IF RustWalk(d, ex) THEN {f \in Markers : ~On(d, f)} ELSE None
Detected(d, ex) == {FaceOf(f) : f \in Source(d, ex)}

\* compute_identity_scoped_full: which of the rows the faces let in.
InScope(f, faces) == (IF FaceOf(f) = "rust-input" THEN "rust" ELSE FaceOf(f)) \in faces
Rows(d, ex, faces) == {f \in Source(d, ex) \cup InputsFound(d, ex) : InScope(f, faces)}

\* recompose_identity, over rows that are hashed already.
Composed(entries, faces, topology) ==
  <<{<<f, entries[f]>> : f \in {g \in Files : entries[g] # None}},
    IF "rust" \in faces THEN topology ELSE None>>

NoEntries == [f \in Files |-> None]
Pick(fs, g) == [f \in Files |-> IF f \in fs THEN g[f] ELSE None]
Content(d) == [f \in Files |-> IF d[f] = None THEN None ELSE d[f].c]

\* ProductionIdentity::capture, certified: every byte read, no cache.
Captured(selection, gen) ==
  LET found == Detected(disk, profile)
      faces == IF selection = "auto" THEN found ELSE found \cap Pin IN
  [gen |-> gen, faces |-> faces, selection |-> selection,
   entries |-> Pick(Rows(disk, profile, faces), Content(disk)),
   topology |-> IF "rust" \in faces THEN Topology(disk, profile) ELSE None,
   profile |-> profile]

\* A build that finds no face stamps no identity: its slot is left out.
Stamped(s) == s.faces # {}

Idle == [policy |-> None, rows |-> {}, times |-> NoEntries, topology |-> None, oos |-> 0,
         stamp |-> None, faces |-> {}, moved |-> FALSE, cache |-> NoEntries, dirty |-> FALSE, left |-> {},
         entries |-> NoEntries, reads |-> 0, drift |-> FALSE, delta |-> None]

Init ==
  /\ \E c \in Contents : disk \in [Files -> {None, [c |-> c, m |-> 0]}]   \* alike at first
  /\ profile = None /\ clock = 0 /\ past = [f \in Files |-> {disk[f]}]
  /\ \E s \in Selections : stamp = Captured(s, 0)
  /\ Stamped(stamp)
  /\ cache = NoEntries
  /\ pc = [p \in Passes |-> "idle"] /\ pass = [p \in Passes |-> Idle]
  /\ held = [p \in Passes |-> [f \in Files |-> {}]] /\ raced = {}
  /\ budget = [edits |-> MaxEdits, moves |-> MaxMoves, stamps |-> MaxStamps]

Spend(k) == budget[k] > 0 /\ budget' = [budget EXCEPT ![k] = @ - 1]
Go(p, to, j) == pc' = [pc EXCEPT ![p] = to] /\ pass' = [pass EXCEPT ![p] = j]

(***************************************************************************)
(* The world.                                                              *)
(***************************************************************************)
Becomes(f, new) ==
  /\ disk' = [disk EXCEPT ![f] = new]
  /\ past' = [past EXCEPT ![f] = @ \cup {new}]
  /\ held' = [p \in Passes |-> IF pc[p] = "idle" THEN held[p]
                               ELSE [held[p] EXCEPT ![f] = @ \cup {new}]]
  /\ UNCHANGED <<profile, stamp, cache, pc, pass, raced>>

Write(f, c) ==
  /\ Spend("edits") /\ clock' = clock + 1
  /\ Content(disk)[f] # c /\ Becomes(f, [c |-> c, m |-> clock + 1])
Delete(f) == Spend("edits") /\ On(disk, f) /\ Becomes(f, None) /\ UNCHANGED clock
MoveBack(f) ==                         \* mv keeps the time
  /\ Spend("moves") /\ \E old \in past[f] \ {disk[f], None} : Becomes(f, old)
  /\ UNCHANGED clock
Profiles == {None, {}} \cup {Excluded(profile) \cup {x} : x \in Sources \cup Elsewhere}
            \cup {Excluded(profile) \ {x} : x \in Sources \cup Elsewhere}
Exclude(new) ==                        \* an edit of .code-reality.toml
  /\ Spend("edits") /\ new # profile /\ profile' = new
  /\ UNCHANGED <<disk, clock, past, stamp, cache, pc, pass, held, raced>>

Stamp ==                               \* build_repo, up to its graph
  /\ Spend("stamps") /\ stamp' = Captured(stamp.selection, stamp.gen + 1) /\ Stamped(stamp')
  /\ cache' = NoEntries
  /\ UNCHANGED <<world, pc, pass, held, raced>>

(***************************************************************************)
(* A pass: evaluate_staleness, or the build's own refill of the cache.     *)
(***************************************************************************)
Walk(p) ==                             \* stats only
  /\ pc[p] = "idle"
  /\ \E policy \in {"Full", "WriteBack", "ReadOnly"} :
       Go(p, "load", [Idle EXCEPT
          !.policy = policy,
          !.rows = Source(disk, profile) \cup InputsFound(disk, profile),
          !.times = [f \in Files |-> IF On(disk, f) THEN disk[f].m ELSE None],
          !.topology = Topology(disk, profile)])
  /\ held' = [held EXCEPT ![p] = [f \in Files |->
        {disk[f]} \cup (IF f \in pass'[p].rows THEN {} ELSE {None})]]
  /\ UNCHANGED <<world, stamp, cache, raced, budget>>

\* The fingerprint of the exclusions, compared where the meta has one: only a
\* JavaScript or TypeScript face stamps it.
ProfileMoved(s) == s.faces \cap {"javascript", "typescript"} # {} /\ profile # s.profile

LoadStamp(p) ==                        \* the meta, the profile, then the cache
  /\ pc[p] = "load"
  /\ LET j == pass[p]
         found == {FaceOf(f) : f \in j.rows} \ {"rust-input"}
         faces == stamp.faces \cup (IF stamp.selection = "auto" THEN found ELSE {})
         rows == {f \in j.rows : InScope(f, faces)}
     IN Go(p, "hash", [j EXCEPT !.stamp = stamp, !.faces = faces, !.left = rows, !.rows = rows,
          !.moved = ProfileMoved(stamp),
          !.oos = Cardinality({f \in j.rows : ~InScope(f, stamp.faces)}),
          !.cache = IF j.policy = "ReadOnly" THEN NoEntries ELSE cache])
  /\ UNCHANGED <<world, stamp, cache, held, raced, budget>>

\* Mutant: the gate compares the size only, and here all sizes are alike.
HitBySize(j, f) == j.policy = "WriteBack" /\ j.cache[f] # None

\* The stat gate: the time of the walk is that of the cached hash.
Hit(j, f) == j.policy = "WriteBack" /\ j.cache[f] # None /\ j.cache[f].m = j.times[f]

Foremost(fs) == CHOOSE f \in fs : TRUE     \* the walk's order, any will do
Hash(p, f) ==                          \* content_hash_of: the bytes are of now
  /\ pc[p] = "hash" /\ pass[p].left # {} /\ f = Foremost(pass[p].left)
  /\ LET j == [pass[p] EXCEPT !.left = @ \ {f}] IN
     CASE Hit(j, f) -> Go(p, "hash", [j EXCEPT !.entries[f] = j.cache[f].c])
       [] ~Hit(j, f) /\ On(disk, f) ->
            LET c == disk[f].c  recorded == j.policy # "ReadOnly" IN
            Go(p, "hash", [j EXCEPT !.entries[f] = c, !.reads = @ + 1, !.dirty = recorded,
                 !.cache[f] = IF recorded THEN [c |-> c, m |-> j.times[f]] ELSE @])
       [] OTHER -> Go(p, "error", Idle)
  /\ raced' = IF ~Hit(pass[p], f) /\ pass[p].policy # "ReadOnly" /\ On(disk, f)
                 /\ disk[f].m # pass[p].times[f] THEN raced \cup {f} ELSE raced
  /\ UNCHANGED <<world, stamp, cache, held, budget>>

Store(p) ==                            \* one's own view of the cache, pruned
  /\ pc[p] = "hash" /\ pass[p].left = {} /\ Go(p, "judge", [pass[p] EXCEPT !.dirty = FALSE])
  /\ LET j == pass[p]  kept == Pick(j.rows, j.cache) IN
     cache' = IF j.policy # "ReadOnly" /\ (j.dirty \/ kept # j.cache) THEN kept ELSE cache
  /\ UNCHANGED <<world, stamp, held, raced, budget>>

Judge(p) ==                            \* identity and index bytes
  /\ pc[p] = "judge"
  /\ LET j == pass[p]
         mine == Composed(j.entries, j.faces, j.topology)
         theirs == Composed(j.stamp.entries, j.stamp.faces, j.stamp.topology)
     IN Go(p, "delta", [j EXCEPT !.drift = mine # theirs \/ stamp.gen # j.stamp.gen])
  /\ UNCHANGED <<world, stamp, cache, held, raced, budget>>

TopologyMoved(j) == j.stamp.topology # None /\ j.topology # j.stamp.topology
\* Rows of the manifest that the pass has not: gone, or excluded by now.
Absent(j) == {f \in Files : j.stamp.entries[f] # None /\ j.entries[f] = None
                            /\ ~(FaceOf(f) = "rust-input" /\ TopologyMoved(j))}

\* Mutant: an excluded file is neither removed nor flagged.
NowExcludedSilently(f) == IF f \in Excluded(profile) /\ On(disk, f) THEN {} ELSE {}

NowExcluded(f) == IF f \in Excluded(profile) /\ On(disk, f) THEN {"profile"} ELSE {}

DeltaOf(j) ==
  [changed |-> {f \in Files : /\ j.stamp.entries[f] # None /\ j.entries[f] # None
                              /\ j.stamp.entries[f] # j.entries[f]},
   removed |-> {f \in Absent(j) : ~(f \in Excluded(profile) /\ On(disk, f))},
   added   |-> {f \in Files : /\ j.entries[f] # None /\ j.stamp.entries[f] = None
                              /\ InScope(f, j.stamp.faces)
                              /\ ~(FaceOf(f) = "rust-input" /\ TopologyMoved(j))},
   flags   |-> (IF TopologyMoved(j) THEN {"topology"} ELSE {})
               \cup (IF j.moved THEN {"js-ts-config"} ELSE {})
               \cup UNION {NowExcluded(f) : f \in Absent(j)},
   full    |-> j.reads = Cardinality({f \in Files : j.entries[f] # None})]

Delta(p) ==                            \* none, if the manifest is not the meta's
  /\ pc[p] = "delta"
  /\ LET j == pass[p] IN
     Go(p, "done", [Idle EXCEPT !.drift = j.drift, !.stamp = j.stamp, !.oos = j.oos,
          !.entries = j.entries, !.faces = j.faces,
          !.delta = IF stamp.gen = j.stamp.gen THEN DeltaOf(j) ELSE None])
  /\ UNCHANGED <<world, stamp, cache, held, raced, budget>>

Next ==
  \/ Stamp
  \/ \E f \in Files : Delete(f) \/ MoveBack(f) \/ \E c \in Contents : Write(f, c)
  \/ \E new \in Profiles : Exclude(new)
  \/ \E p \in Passes : Walk(p) \/ LoadStamp(p) \/ Store(p) \/ Judge(p) \/ Delta(p)
                       \/ \E f \in Files : Hash(p, f)

Spec == Init /\ [][Next]_vars

-----------------------------------------------------------------------------
(* A pass that finds no drift has seen the stamped source: each file of    *)
(* the manifest held the stamped content at some moment of the pass, and   *)
(* no other file of the scope was governed throughout; whatever was cached *)
(* by other passes, and edited in between (content_hash_of, IdentityCache). *)
(* Only a file whose hash was cached under the time of an earlier state is *)
(* excepted, and only once a move has brought that time back.              *)
RacedAndBack(f) == f \in raced /\ budget.moves < MaxMoves
FreshIsTrue ==
  \A p \in Passes : (pc[p] = "done" /\ ~pass[p].drift) =>
    \A f \in {g \in Files : ~RacedAndBack(g)} :
      LET was == pass[p].stamp.entries[f] IN
      IF was # None THEN \E s \in held[p][f] : s # None /\ s.c = was
      ELSE InScope(f, pass[p].faces) => None \in held[p][f]

(* A verdict and its delta agree: what drifted is listed, flagged, or      *)
(* counted as out of scope, and what is listed or flagged has drifted, but *)
(* for the exclusions of a repository with JavaScript or TypeScript, whose *)
(* move is flagged although no identity holds it: it alone drifts nothing  *)
(* (evaluate_staleness, delta_face).                                       *)
DriftExplained ==
  \A p \in Passes : (pc[p] = "done" /\ pass[p].delta # None) =>
    LET j == pass[p]  d == j.delta IN
    j.drift <=> \/ d.changed \cup d.added \cup d.removed # {} \/ d.flags \ {"js-ts-config"} # {}
                \/ j.stamp.selection = "auto" /\ j.oos > 0
=============================================================================
