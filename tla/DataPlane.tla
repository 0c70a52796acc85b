----------------------------- MODULE DataPlane -----------------------------
(***************************************************************************)
(* The published data plane of one repository (the files under             *)
(* .code-reality/): the index slot index.scip, its meta and base-manifest  *)
(* sidecars, the derived sqlite cache and graph.db, and every process that *)
(* writes them: full builds, head-sync stamps, stand-alone graph builds    *)
(* and queries that (re)build the sqlite cache.                            *)
(*                                                                         *)
(* Files are modelled by their provenance: what the bytes were made from.  *)
(* A content hash is injective on that, so the hash of the slot IS its     *)
(* rows.  The source of a language family is one of a few contents, and an *)
(* edit that reverts a file is an edit like any other (the ABA the code's  *)
(* comments concede).  Modification times are the ticks of one clock that  *)
(* advances at every write whose time is ever compared.                    *)
(***************************************************************************)
EXTENDS Naturals, FiniteSets

CONSTANTS
    Families,    \* language families present; numbered in ORDERED order
    Tolerant,    \* families whose leg may miss governed files with a WARN
    Contents,    \* possible contents of one family's governed files
    Selections,  \* what a build may be asked for: AutoSel or one family
    Builders,    \* processes running build_repo
    Stampers,    \* processes running stamp_meta_core (head-sync, manual)
    Graphers,    \* processes running a stand-alone graph build
    Queriers,    \* queries, and --build-cache, filling the sqlite cache
    AutoSel, None, Torn,
    MaxRuns,     \* bound: operations started by each process
    MaxEdits,    \* bound: source edits and profile changes
    MaxCommits,  \* bound: moves of the repository HEAD
    MaxCrashes   \* bound: process deaths

ASSUME FamiliesAssumption == Families \subseteq Nat /\ Families # {} /\ IsFiniteSet(Families)
ASSUME SelectionsAssumption == Selections \subseteq Families \cup {AutoSel}
ASSUME SentinelAssumption ==
    /\ None \notin Builders \cup Stampers \cup Graphers \cup Queriers
    /\ None \notin Contents \cup [of : Contents, full : BOOLEAN]
    /\ AutoSel \notin Families
\* A process is named by the operation it runs.
ASSUME RolesAssumption ==
    /\ Builders \cap (Stampers \cup Graphers \cup Queriers) = {}
    /\ Stampers \cap (Graphers \cup Queriers) = {}
    /\ Graphers \cap Queriers = {}
ASSUME BoundsAssumption ==
    {MaxRuns, MaxEdits, MaxCommits, MaxCrashes} \subseteq Nat

VARIABLES
    src,       \* family -> content now on disk
    excluded,  \* families the profile excludes from the governed corpus
    head,      \* the repository's HEAD
    ver,       \* history: family -> number of times it changed
    seen,      \* history: <<src, excluded>> pairs since the last publication
    budget,    \* [edits, crashes]: environment events so far (bounds only)
    slot,      \* index.scip: None or [rows, mtime, clean, overtaken]
    meta,      \* None, Torn (truncated by an unfinished write) or a stamp
    manifest,  \* base manifest: None or [ident, hash]
    cache,     \* index.scip.db: None or [rows, head, mtime]
    graph,     \* graph.db: None or [rows, input, mtime]
    clock,     \* time of the latest write
    lock,      \* holder of .writer.lock, or None
    pc,        \* process -> next step
    job,       \* process -> locals of the running operation
    runs       \* process -> operations started (bound only)

world == <<src, excluded, head, ver, budget>>
files == <<slot, meta, manifest, cache, graph>>
vars  == <<src, excluded, head, ver, seen, budget, slot, meta, manifest, cache,
           graph, clock, lock, pc, job, runs>>

Procs == Builders \cup Stampers \cup Graphers \cup Queriers

---------------------------------------------------------------------------
(* What the files say.                                                     *)

Leg     == [of : Contents, full : BOOLEAN]
Rows    == [Families -> Leg \cup {None}]
Ident   == [Families -> Contents \cup {None}]
Capture == [ident : Ident, policy : SUBSET Families]

NoRows    == [f \in Families |-> None]
NoCapture == [ident |-> NoRows, policy |-> {}]

\* Mutant: an unspecified producer is not expanded to every family.
ScopeUnexpanded(sel) == {sel}

Scope(sel) == IF sel = AutoSel THEN Families ELSE {sel}

\* ProductionIdentity::capture of the source s under the policy x.
CaptureOf(s, x, sel) ==
    [ident  |-> [f \in Families |-> IF f \in Scope(sel) \ x THEN s[f] ELSE None],
     policy |-> x]
CaptureNow(sel) == CaptureOf(src, excluded, sel)

\* Mutant: the stamp does not compare the index's documents with the capture's.
CertifiableAnyDocs(rows, a) == \E f \in Families : a.ident[f] # None

\* The stamp certifies only an index whose documents are exactly the
\* captured ones, over at least one language face.
Certifiable(rows, a) ==
    /\ \E f \in Families : a.ident[f] # None
    /\ \A f \in Families : /\ (rows[f] = None) = (a.ident[f] = None)
                           /\ rows[f] # None => rows[f].full

Certificate(rows, a, twice) == [ident |-> a.ident, hash |-> rows, twice |-> twice]

\* load_meta: a torn sidecar reads as an absent one.
Stamp == IF meta = Torn THEN None ELSE meta
StampedHead == IF Stamp = None THEN None ELSE Stamp.head
Cert == IF Stamp = None THEN None ELSE Stamp.cert
StampedSel == IF Stamp = None THEN AutoSel ELSE Stamp.sel

\* Mutant: keys survive whatever the bytes.
PreservedAnyBytes(rows) == Cert

\* stamp_meta_locked's preserve_prior_keys: keys survive for the same bytes.
Preserved(rows) == IF Cert # None /\ Cert.hash = rows THEN Cert ELSE None

\* stale_reason: the cache may be relayed only if not older than the slot
\* and stamped with the same head.
CacheStale == cache.mtime < slot.mtime \/ cache.head # StampedHead

\* evaluate_staleness on a certified slot, taken at one instant.
EvalScope == IF StampedSel = AutoSel THEN Families
             ELSE {f \in Families : Cert.ident[f] # None}
IdentityDrift ==
    \/ \E f \in Families :
          Cert.ident[f] # (IF f \in EvalScope \ excluded THEN src[f] ELSE None)
    \/ Cert.hash # slot.rows
\* Mutant: a graph that exists is never a torn plane.
GraphMissing == graph = None

GraphLags == graph = None \/ graph.mtime < slot.mtime
Certified == slot # None /\ Cert # None
NeedsRebuild == IdentityDrift \/ GraphLags

---------------------------------------------------------------------------
(* Processes.                                                              *)

BuildPC == {"staging", "waiting", "locked", "publish", "prune",
            "rm-cache", "rm-meta", "rm-manifest", "rm-slot", "rm-graph"}
StampPC == {"stamp", "manifest", "truncate", "write"}
GraphPC == {"graph", "replace"}
FacePC  == {"face", "check", "open", "load", "fill", "swap", "reopen"}
CachePC == {"bc-load", "bc-fill"}
PC == {"idle"} \cup BuildPC \cup StampPC \cup GraphPC \cup FacePC \cup CachePC

NoJob == [sel |-> AutoSel, a |-> NoCapture, todo |-> {}, legs |-> NoRows, time |-> 0,
          aver |-> [f \in Families |-> 0], twice |-> {},
          head |-> None, cert |-> None, pin |-> None, face |-> None]

\* A repository never built, or one whose last build of every family finished.
NeverBuilt == slot = None /\ meta = None /\ manifest = None /\ cache = None /\ graph = None
LastBuildFinished ==
    LET rows == [f \in Families |-> [of |-> src[f], full |-> TRUE]]
        a    == CaptureNow(AutoSel) IN
    /\ slot = [rows |-> rows, mtime |-> 0, clean |-> TRUE, overtaken |-> FALSE]
    /\ meta = [head |-> head, sel |-> AutoSel, cert |-> Certificate(rows, a, {})]
    /\ manifest = [ident |-> a.ident, hash |-> rows]
    /\ cache \in {None, [rows |-> rows, head |-> head, mtime |-> 0]}
    /\ graph = [rows |-> rows, input |-> rows, mtime |-> 0]

Init ==
    /\ src \in [Families -> Contents]
    /\ excluded = {} /\ head = 0
    /\ ver = [f \in Families |-> 0]
    /\ seen = {<<src, excluded>>}
    /\ budget = [edits |-> 0, crashes |-> 0]
    /\ NeverBuilt \/ LastBuildFinished
    /\ clock = 0 /\ lock = None
    /\ pc = [p \in Procs |-> "idle"]
    /\ job = [p \in Procs |-> NoJob]
    /\ runs = [p \in Procs |-> 0]

Goto(p, to) == pc' = [pc EXCEPT ![p] = to]
Set(p, j) == job' = [job EXCEPT ![p] = j]
Finish(p) == Goto(p, "idle") /\ Set(p, NoJob)
Release(p) == lock' = IF lock = p THEN None ELSE lock
Start(p) == pc[p] = "idle" /\ runs[p] < MaxRuns /\ runs' = [runs EXCEPT ![p] = @ + 1]

---------------------------------------------------------------------------
(* The world: editors, commits, and process deaths.                        *)

Edit(f) ==
    /\ budget.edits < MaxEdits
    /\ \E c \in Contents \ {src[f]} : src' = [src EXCEPT ![f] = c]
    /\ ver' = [ver EXCEPT ![f] = @ + 1]
    /\ budget' = [budget EXCEPT !.edits = @ + 1]
    /\ seen' = seen \cup {<<src', excluded>>}
    /\ UNCHANGED <<excluded, head, files, clock, lock, pc, job, runs>>

ProfileChange(f) ==
    /\ budget.edits < MaxEdits
    /\ excluded' = IF f \in excluded THEN excluded \ {f} ELSE excluded \cup {f}
    /\ ver' = [ver EXCEPT ![f] = @ + 1]
    /\ budget' = [budget EXCEPT !.edits = @ + 1]
    /\ seen' = seen \cup {<<src, excluded'>>}
    /\ UNCHANGED <<src, head, files, clock, lock, pc, job, runs>>

Commit ==
    /\ head < MaxCommits
    /\ head' = head + 1
    /\ UNCHANGED <<src, excluded, ver, seen, budget, files, clock, lock, pc, job, runs>>

\* A process dies anywhere: files stay as they are, the OS frees its flock.
Crash(p) ==
    /\ pc[p] # "idle" /\ budget.crashes < MaxCrashes
    /\ budget' = [budget EXCEPT !.crashes = @ + 1]
    /\ Finish(p) /\ Release(p)
    /\ UNCHANGED <<src, excluded, head, ver, seen, files, clock, runs>>

---------------------------------------------------------------------------
(* build_repo up to the publication lock.                                  *)

StartBuild(b) ==
    /\ Start(b)
    /\ \E sel \in Selections :
          Set(b, [NoJob EXCEPT !.sel = sel, !.a = CaptureNow(sel), !.todo = Scope(sel),
                               !.aver = ver])
    /\ Goto(b, "staging")
    /\ UNCHANGED <<world, seen, files, clock, lock>>

\* One producer leg: skipped when the profile empties its corpus, else staged
\* in a part of this attempt's own.
NextLeg(b, f) == f \in job[b].todo /\ \A g \in job[b].todo : f <= g

SkipLeg(b, f) ==
    /\ pc[b] = "staging" /\ NextLeg(b, f) /\ f \in excluded
    /\ Set(b, [job[b] EXCEPT !.todo = @ \ {f}])
    /\ UNCHANGED <<world, seen, files, clock, lock, pc, runs>>

StageLeg(b, f) ==
    /\ pc[b] = "staging" /\ NextLeg(b, f) /\ f \notin excluded
    /\ clock' = clock + 1
    /\ \E full \in {TRUE} \cup {f \notin Tolerant} :
          Set(b, [job[b] EXCEPT
                     !.todo = @ \ {f}, !.time = clock + 1,
                     !.legs = [@ EXCEPT ![f] = [of |-> src[f], full |-> full]]])
    /\ UNCHANGED <<world, seen, files, lock, pc, runs>>

\* A leg, the re-capture or a lock attempt fails: this attempt's parts are
\* removed and nothing else has been touched.
GiveUp(b) ==
    /\ pc[b] \in {"staging", "waiting"}
    /\ Finish(b)
    /\ UNCHANGED <<world, seen, files, clock, lock, runs>>

\* Mutant: the source is not captured again.
AnyCapture(b) == TRUE

SameCapture(b) == CaptureNow(job[b].sel) = job[b].a

Recheck(b) ==
    /\ pc[b] = "staging" /\ job[b].todo = {} /\ SameCapture(b)
    /\ Goto(b, "waiting")
    /\ UNCHANGED <<world, seen, files, clock, lock, job, runs>>

\* WriterGuard::acquire; giving up after the 5 s budget is GiveUp.
Acquire(b) ==
    /\ pc[b] = "waiting" /\ lock = None
    /\ lock' = b
    /\ Goto(b, "locked")
    /\ UNCHANGED <<world, seen, files, clock, job, runs>>

Abort(b) ==
    /\ Finish(b) /\ Release(b)
    /\ UNCHANGED <<world, seen, files, clock, runs>>

LockedPC(j) == IF j.legs # NoRows THEN "publish"
               ELSE IF j.sel = AutoSel THEN "rm-cache" ELSE "idle"

\* Mutant: no capture under the lock.
RecheckedBefore(b) ==
    /\ pc[b] = "locked" /\ LockedPC(job[b]) # "idle"
    /\ Goto(b, LockedPC(job[b]))
    /\ Set(b, [job[b] EXCEPT !.twice = {f \in Families : ver[f] >= job[b].aver[f] + 2}])
    /\ UNCHANGED <<world, seen, files, clock, lock, runs>>

\* The capture under the lock, then the route: publish, or converge to an empty
\* plane.
RecheckLocked(b) ==
    /\ pc[b] = "locked" /\ SameCapture(b) /\ LockedPC(job[b]) # "idle"
    /\ Goto(b, LockedPC(job[b]))
    /\ Set(b, [job[b] EXCEPT !.twice = {f \in Families : ver[f] >= job[b].aver[f] + 2}])
    /\ UNCHANGED <<world, seen, files, clock, lock, runs>>

\* The capture differs or fails, or the route is the failure of an empty face.
RejectLocked(b) == pc[b] = "locked" /\ Abort(b)

---------------------------------------------------------------------------
(* Publication under the lock.                                             *)

Staged(b) == {f \in Families : job[b].legs[f] # None}

\* merge_and_publish: a single part is renamed and keeps its own time; several
\* are concatenated in a sibling written now.  The slot's `overtaken` is history:
\* a graph was replaced between the staging of the single part and now.
Publish(b) ==
    /\ pc[b] = "publish"
    /\ IF Cardinality(Staged(b)) = 1
       THEN /\ slot' = [rows |-> job[b].legs, mtime |-> job[b].time, clean |-> FALSE,
                        overtaken |-> graph # None /\ graph.mtime >= job[b].time]
            /\ UNCHANGED clock
       ELSE /\ slot' = [rows |-> job[b].legs, mtime |-> clock + 1, clean |-> FALSE,
                        overtaken |-> FALSE]
            /\ clock' = clock + 1
    /\ seen' = {<<src, excluded>>}
    /\ Goto(b, "prune")
    /\ UNCHANGED <<world, meta, manifest, cache, graph, lock, job, runs>>

PublishFails(b) == pc[b] = "publish" /\ Abort(b)

\* Processes that have read an index and not yet put their db in place.  The
\* slot's `clean` is history: pruned while there was none.
Filling == {p \in Procs : pc[p] \in {"fill", "bc-fill", "swap"}}

\* Mutant: the superseded cache stays.
PruneNothing(b) ==
    /\ pc[b] = "prune"
    /\ slot' = [slot EXCEPT !.clean = (Filling = {})]
    /\ Goto(b, "stamp")
    /\ UNCHANGED <<world, seen, meta, manifest, cache, graph, clock, lock, job, runs>>

Prune(b) ==
    /\ pc[b] = "prune"
    /\ cache' = None
    /\ slot' = [slot EXCEPT !.clean = (Filling = {})]
    /\ Goto(b, "stamp")
    /\ UNCHANGED <<world, seen, meta, manifest, graph, clock, lock, job, runs>>

\* Empty convergence: the whole plane is removed, file by file.
RemoveStep(b, from, to) ==
    /\ pc[b] = from
    /\ Goto(b, to)
    /\ UNCHANGED <<world, seen, clock, lock, job, runs>>

RemoveCache(b) == RemoveStep(b, "rm-cache", "rm-meta") /\ cache' = None
                  /\ UNCHANGED <<slot, meta, manifest, graph>>
RemoveMeta(b) == RemoveStep(b, "rm-meta", "rm-manifest") /\ meta' = None
                 /\ UNCHANGED <<slot, manifest, cache, graph>>
RemoveManifest(b) == RemoveStep(b, "rm-manifest", "rm-slot") /\ manifest' = None
                     /\ UNCHANGED <<slot, meta, cache, graph>>
RemoveSlot(b) == RemoveStep(b, "rm-slot", "rm-graph") /\ slot' = None
                 /\ UNCHANGED <<meta, manifest, cache, graph>>
RemoveGraph(b) ==
    /\ pc[b] = "rm-graph"
    /\ graph' = None
    /\ Finish(b) /\ Release(b)
    /\ UNCHANGED <<world, seen, slot, meta, manifest, cache, clock, runs>>

---------------------------------------------------------------------------
(* stamp_meta_locked, by a build with its capture or by a head-sync.       *)

StartStamp(s) ==
    /\ Start(s) /\ lock = None
    /\ lock' = s
    /\ Goto(s, "stamp")
    /\ UNCHANGED <<world, seen, files, clock, job>>

\* HEAD, the prior stamp and the slot's hash are read; keys are decided.
StampKeys(p) ==
    IF p \notin Builders THEN Preserved(slot.rows)
    ELSE IF Certifiable(slot.rows, job[p].a)
         THEN Certificate(slot.rows, job[p].a, job[p].twice) ELSE None

BeginStamp(p) ==
    /\ pc[p] = "stamp" /\ slot # None
    /\ LET cert == StampKeys(p) IN
          /\ Set(p, [job[p] EXCEPT !.head = head, !.cert = cert,
                                   !.sel = IF p \in Builders THEN @ ELSE StampedSel])
          /\ Goto(p, IF p \in Builders /\ cert # None THEN "manifest" ELSE "truncate")
    /\ UNCHANGED <<world, seen, files, clock, lock, runs>>

WriteManifest(p) ==
    /\ pc[p] = "manifest"
    /\ manifest' = [ident |-> job[p].cert.ident, hash |-> job[p].cert.hash]
    /\ Goto(p, "truncate")
    /\ UNCHANGED <<world, seen, slot, meta, cache, graph, clock, lock, job, runs>>

\* fs::write truncates the sidecar, then writes it.
TruncateMeta(p) ==
    /\ pc[p] = "truncate"
    /\ meta' = Torn
    /\ Goto(p, "write")
    /\ UNCHANGED <<world, seen, slot, manifest, cache, graph, clock, lock, job, runs>>

WriteMeta(p) ==
    /\ pc[p] = "write"
    /\ meta' = [head |-> job[p].head, sel |-> job[p].sel, cert |-> job[p].cert]
    /\ IF p \in Builders THEN Goto(p, "graph") /\ UNCHANGED <<lock, job>>
                         ELSE Finish(p) /\ Release(p)
    /\ UNCHANGED <<world, seen, slot, manifest, cache, graph, clock, runs>>

\* git, the slot's hash or a write fails: a note for a build, which goes on to
\* the graph; the end of a head-sync.
StampFails(p) ==
    /\ pc[p] \in StampPC
    /\ IF p \in Builders THEN Goto(p, "graph") /\ UNCHANGED <<lock, job>>
                         ELSE Finish(p) /\ Release(p)
    /\ UNCHANGED <<world, seen, files, clock, runs>>

---------------------------------------------------------------------------
(* build_from_cache_locked.                                                *)

StartGraph(g) ==
    /\ Start(g) /\ lock = None
    /\ lock' = g
    /\ Goto(g, "graph")
    /\ UNCHANGED <<world, seen, files, clock, job>>

PinInput(p) ==
    /\ pc[p] = "graph" /\ slot # None
    /\ Set(p, [job[p] EXCEPT !.pin = slot.rows])
    /\ Goto(p, "face")
    /\ UNCHANGED <<world, seen, files, clock, lock, runs>>

\* stamp_publication_provenance re-hashes the slot: drift refuses publication.
ProvenanceHolds(p) == slot # None /\ slot.rows = job[p].pin

\* The finished db replaces the old one.
ReplaceGraph(p) ==
    /\ pc[p] = "replace" /\ ProvenanceHolds(p)
    /\ graph' = [rows |-> job[p].face, input |-> job[p].pin, mtime |-> clock + 1]
    /\ clock' = clock + 1
    /\ Finish(p) /\ Release(p)
    /\ UNCHANGED <<world, seen, slot, meta, manifest, cache, runs>>

\* Any step fails: the temporary db is dropped, the previous graph stays.
GraphFails(p) ==
    /\ pc[p] \in {"graph", "replace"}
    /\ Abort(p)

---------------------------------------------------------------------------
(* cache::open_face and --build-cache: no lock, several steps.             *)

\* Where the face leads: a graph build consumes it, a query answers from it.
GotFace(p, rows) ==
    IF p \in Queriers THEN Finish(p)
    ELSE Goto(p, "replace") /\ Set(p, [job[p] EXCEPT !.face = rows])

StartQuery(q) ==
    /\ Start(q)
    /\ Goto(q, "face")
    /\ UNCHANGED <<world, seen, files, clock, lock, job>>

\* --build-cache reads the stamped head first, then the index.
StartBuildCache(q) ==
    /\ Start(q)
    /\ Set(q, [NoJob EXCEPT !.head = StampedHead])
    /\ Goto(q, "bc-load")
    /\ UNCHANGED <<world, seen, files, clock, lock>>

BuildCacheLoad(q) ==
    /\ pc[q] = "bc-load" /\ slot # None
    /\ Set(q, [job[q] EXCEPT !.face = slot.rows])
    /\ Goto(q, "bc-fill")
    /\ UNCHANGED <<world, seen, files, clock, lock, runs>>

BuildCacheFill(q) ==
    /\ pc[q] = "bc-fill"
    /\ clock' = clock + 1
    /\ Set(q, [job[q] EXCEPT !.time = clock + 1])
    /\ Goto(q, "swap")
    /\ UNCHANGED <<world, seen, files, lock, runs>>

\* No db: parse the index, never build.
FaceParse(p) ==
    /\ pc[p] = "face" /\ slot # None /\ cache = None
    /\ GotFace(p, slot.rows)
    /\ UNCHANGED <<world, seen, files, clock, lock, runs>>

FaceFound(p) ==
    /\ pc[p] = "face" /\ cache # None
    /\ Goto(p, "check")
    /\ UNCHANGED <<world, seen, files, clock, lock, job, runs>>

\* stale_reason; a file removed since reads as stale.
FaceCheck(p) ==
    /\ pc[p] = "check"
    /\ Goto(p, IF cache = None \/ slot = None \/ CacheStale THEN "load" ELSE "open")
    /\ UNCHANGED <<world, seen, files, clock, lock, job, runs>>

\* The db judged fresh is opened; one removed since falls back to the index.
FaceOpen(p) ==
    /\ pc[p] = "open" /\ (cache = None => slot # None)
    /\ GotFace(p, IF cache # None THEN cache.rows ELSE slot.rows)
    /\ UNCHANGED <<world, seen, files, clock, lock, runs>>

FaceLoad(p) ==
    /\ pc[p] = "load" /\ slot # None
    /\ Set(p, [job[p] EXCEPT !.face = slot.rows])
    /\ Goto(p, "fill")
    /\ UNCHANGED <<world, seen, files, clock, lock, runs>>

\* build_db: the sidecar head is read, the temporary db filled and committed.
FaceFill(p) ==
    /\ pc[p] = "fill"
    /\ clock' = clock + 1
    /\ Set(p, [job[p] EXCEPT !.head = StampedHead, !.time = clock + 1])
    /\ Goto(p, "swap")
    /\ UNCHANGED <<world, seen, files, lock, runs>>

FaceSwap(p) ==
    /\ pc[p] = "swap"
    /\ cache' = [rows |-> job[p].face, head |-> job[p].head, mtime |-> job[p].time]
    /\ IF p \in Queriers THEN Finish(p) ELSE Goto(p, "reopen") /\ UNCHANGED job
    /\ UNCHANGED <<world, seen, slot, meta, manifest, graph, clock, lock, runs>>

FaceReopen(p) ==
    /\ pc[p] = "reopen"
    /\ GotFace(p, IF cache # None THEN cache.rows ELSE job[p].face)
    /\ UNCHANGED <<world, seen, files, clock, lock, runs>>

\* Mutant: a vanished slot is not an error.
FaceFailsOnFill(p) ==
    /\ pc[p] \in {"fill", "bc-fill", "swap"}
    /\ GotFace(p, job[p].face)
    /\ UNCHANGED <<world, seen, files, clock, lock, runs>>

\* A failed rebuild answers from the parsed index; a vanished slot is an error.
FaceFails(p) ==
    /\ pc[p] \in FacePC \cup CachePC
    /\ \/ /\ pc[p] \in {"fill", "bc-fill", "swap"}
          /\ GotFace(p, job[p].face) /\ UNCHANGED lock
       \/ /\ \/ pc[p] \in {"face", "open"} /\ cache = None
             \/ pc[p] \in {"load", "bc-load"}
          /\ slot = None
          /\ Finish(p) /\ Release(p)
    /\ UNCHANGED <<world, seen, files, clock, runs>>

---------------------------------------------------------------------------

BuildStep(b) ==
    \/ GiveUp(b) \/ Recheck(b) \/ Acquire(b) \/ RecheckLocked(b) \/ RejectLocked(b)
    \/ \E f \in Families : SkipLeg(b, f) \/ StageLeg(b, f)
    \/ Publish(b) \/ PublishFails(b) \/ Prune(b)
    \/ RemoveCache(b) \/ RemoveMeta(b) \/ RemoveManifest(b)
    \/ RemoveSlot(b) \/ RemoveGraph(b)

StampStep(p) ==
    BeginStamp(p) \/ WriteManifest(p) \/ TruncateMeta(p) \/ WriteMeta(p) \/ StampFails(p)

FaceStep(p) ==
    \/ FaceParse(p) \/ FaceFound(p) \/ FaceCheck(p) \/ FaceOpen(p) \/ FaceLoad(p)
    \/ FaceFill(p) \/ FaceSwap(p) \/ FaceReopen(p) \/ FaceFails(p)

GraphStep(p) == PinInput(p) \/ ReplaceGraph(p) \/ GraphFails(p) \/ FaceStep(p)

CacheStep(q) == BuildCacheLoad(q) \/ BuildCacheFill(q) \/ FaceStep(q)

\* The next step of an operation under way; and an operation's start.
Advance(p) ==
    \/ p \in Builders /\ (BuildStep(p) \/ StampStep(p) \/ GraphStep(p))
    \/ p \in Stampers /\ StampStep(p)
    \/ p \in Graphers /\ GraphStep(p)
    \/ p \in Queriers /\ CacheStep(p)

Begin(p) ==
    \/ p \in Builders /\ StartBuild(p)
    \/ p \in Stampers /\ StartStamp(p)
    \/ p \in Graphers /\ StartGraph(p)
    \/ p \in Queriers /\ (StartQuery(p) \/ StartBuildCache(p))

World ==
    \/ \E f \in Families : Edit(f) \/ ProfileChange(f)
    \/ Commit
    \/ \E p \in Procs : Crash(p)

Next == World \/ \E p \in Procs : Begin(p) \/ Advance(p)

Spec == Init /\ [][Next]_vars

\* A running process keeps running; nothing obliges anyone to start, edit,
\* commit or die.
FairSpec == Spec /\ \A p \in Procs : WF_vars(Advance(p))

---------------------------------------------------------------------------
(* Properties.                                                             *)

Certificates == [ident : Ident, hash : Rows, twice : SUBSET Families]

ProcJob == [sel : Families \cup {AutoSel}, a : Capture, todo : SUBSET Families, legs : Rows,
            time : Nat, aver : [Families -> Nat], twice : SUBSET Families,
            head : Nat \cup {None},
            cert : Certificates \cup {None},
            pin : Rows \cup {None}, face : Rows \cup {None}]

Slots == [rows : Rows, mtime : Nat, clean : BOOLEAN, overtaken : BOOLEAN]

Stamps == [head : Nat, sel : Families \cup {AutoSel},
           cert : Certificates \cup {None}]

\* A file that is absent or torn is not one that can be read.
ASSUME FilesAssumption ==
    \A x \in {None, Torn} :
        x \notin Rows /\ x \notin Slots /\ x \notin Stamps /\ x \notin Certificates

\* Every variable holds what the code can put in it.
TypeOK ==
    /\ src \in [Families -> Contents] /\ excluded \in SUBSET Families
    /\ head \in Nat /\ ver \in [Families -> Nat]
    /\ seen \subseteq [Families -> Contents] \X SUBSET Families
    /\ budget \in [edits : Nat, crashes : Nat]
    /\ slot \in Slots \cup {None}
    /\ meta \in Stamps \cup {None, Torn}
    /\ manifest \in [ident : Ident, hash : Rows] \cup {None}
    /\ cache \in [rows : Rows, head : Nat \cup {None}, mtime : Nat] \cup {None}
    /\ graph \in [rows : Rows, input : Rows, mtime : Nat] \cup {None}
    /\ clock \in Nat /\ lock \in Procs \cup {None}
    /\ pc \in [Procs -> PC] /\ job \in [Procs -> ProcJob] /\ runs \in [Procs -> Nat]

\* A certified slot that evaluate_staleness calls fresh serves exactly the
\* source on disk, whole, unless a family was edited away and back (twice or
\* more) while its producer ran: the ABA that build_repo's endpoint captures
\* are documented not to exclude.
FreshMeansCurrent ==
    Certified /\ ~NeedsRebuild =>
        \A f \in EvalScope \ excluded :
            /\ slot.rows[f] # None /\ slot.rows[f].full
            /\ slot.rows[f].of = src[f] \/ f \in Cert.twice

\* A build never replaces a published index by one of an older source: what it
\* publishes was on disk at some moment since the previous publication, or is
\* being published by the writer that last looked.
NoStaleOverwrite ==
    [][\A b \in Builders : Publish(b) =>
          \E s \in seen : job[b].a = CaptureOf(s[1], s[2], job[b].sel)]_vars

\* A graph put beside a slot whose prune met no fill under way holds the rows of
\* that slot, the ones its provenance names, through whatever cache they came.
GraphProvenance ==
    [][\A p \in Builders \cup Graphers :
          ReplaceGraph(p) /\ slot.clean => graph'.rows = graph'.input]_vars

\* A certified slot whose graph was not rebuilt from it is never called fresh,
\* unless another graph was finished while its single part waited.
TornPlaneDetected ==
    Certified /\ ~slot.overtaken /\ graph # None /\ graph.input # slot.rows => NeedsRebuild

\* When the prune met no fill under way, a cache that stale_reason calls fresh
\* holds the rows of the index it sits beside.
CacheTruthful ==
    slot # None /\ slot.clean /\ cache # None /\ ~CacheStale => cache.rows = slot.rows

\* Every operation ends, whatever the others remove, hold or replace meanwhile.
OperationsEnd == \A p \in Procs : pc[p] # "idle" ~> pc[p] = "idle"

=============================================================================
