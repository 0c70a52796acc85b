# A verification project for code-reality

code-reality builds a SCIP index of a repository (`.code-reality/index.scip`),
stamps it with what it was made from, derives a sqlite cache and a graph
database from it, and answers queries from those files after judging whether
they are still true of the source. Around it stand the tools that write code
tours and compare snapshots, a commit hook, and a second binary that bridges
LSP backends to MCP. The modules here model the parts whose correctness depends
on order (who writes which file when, what a judgement of freshness may
conclude, what a crash, an edit, a peer or a timeout in between does to it) and
the algorithms whose answers a reader takes for facts about the code.

Paths below are relative to `src/crates/`; `cr/` stands for
`code-reality/src/`, `lsp/` for `code-reality-lsp-bridge/src/`.

## 1. Inventory

| component | state it keeps | operations | interacts through | module |
|---|---|---|---|---|
| publication, `cr/build.rs` 945–1345 | staged parts of an attempt; the slot | `build_repo`, `merge_and_publish`, empty convergence | writer lock, every data-plane file | `DataPlane`, `CertifiedSlot` |
| writer lock, `cr/publication_writer.rs` | `flock` on `.writer.lock` | `WriterGuard::acquire`, drop | builds, stamps, graph builds | `DataPlane` |
| stamp and staleness, `cr/engine.rs` | meta sidecar, base manifest | `ProductionIdentity::capture`, `stamp_meta`, `load_meta`, `evaluate_staleness`, `delta_face` | slot, meta, manifest, source walk | `DataPlane`, `SourceIdentity` |
| sqlite cache, `cr/cache.rs` | `index.scip.db`, one shared `.tmp` | `open_face`, `build_db`, `stale_reason` | slot, meta; no lock | `DataPlane`, `Serving`, `QueryFaces` |
| graph database, `cr/graph_db.rs` | `graph.db` | `build_from_cache` | slot, cache, writer lock, source (CALLS marks) | `DataPlane`, `GraphDb`, `GraphChanges` |
| query heal, `cr/build.rs` 1424–1929 | `.heal.lock`, churn marker | `ensure_fresh_check`, `run_heal_locked`, `wait_peer_and_reevaluate` | queries, refreshes, builds | `QueryHeal` |
| refresh and hook, `cr/refresh.rs` | `refresh.pending`, `refresh.scheduled`, the hook | `refresh_run`, `hook_install`, `hook_remove`, the installed script | heal, stamp, git | `QueryHeal`, `RefreshHook` |
| freshness report, `cr/freshness.rs`, `cli.rs` | none (reads) | serving stamp, binding, stamp after load | every data-plane file | `Serving` |
| source identity, `cr/identity.rs`, `cr-freshness` | identity cache | stat gate, hashing, manifest, delta | source walk | `SourceIdentity` |
| query answers, `cr/engine.rs`, `callers.rs`, `scip_edges.rs`, `hub_refs.rs` | none | definitions, references, callers, closure, counts | index, cache, graph | `QueryFaces`, `HubRefs` |
| graph engine, `cr/graph_engine.rs` | none (reads `graph.db`) | hubs, bridges, impact, flows, communities, changes, contexts | queries | `GraphRank`, `GraphFlows`, `GraphCommunities`, `GraphChanges`, `Counting` |
| chain tour, symbol resolution, `cr/chain_tour.rs`, `symbol_resolve.rs` | tours of a document | path and symbol resolution, write and reconciliation | graph, `.tours/` | `TourAnchors`, `TourCorpus` |
| tours, `cr/tour*.rs`, `delta_tour.rs` | `.tours/`, its manifest | re-anchor, upgrade, scan, register, materialize, delta, clean-up | each other's files; no lock | `TourCorpus`, `Deltas` |
| boundaries, runtime edges, `cr/boundary*.rs`, `runtime_edges.rs` | boundary sidecar | scan, join, write, load; edges of a trace | source, git | `Boundary` |
| snapshots, transitions, `cr/snapshot.rs`, `transition.rs` | snapshot files | export, difference, warnings, claims | graph, git | `Deltas` |
| LSP documents, `lsp/session.rs`, `server.rs` | open documents, overlays, diagnostics cache | `sync_open`, `apply_edit`, `force_reopen`, `check_file`, `edit_file` | backend, MCP client | `LspDocs` |
| LSP session, `lsp/session.rs`, `transport.rs` | pending request, backend slot, two pump threads | `request`, `notify`, `shutdown`, termination | backend process | `LspSession` |
| corpus governance, `cr/profile.rs`, `project.rs`, `rust_projects.rs`, `js_ts_corpus.rs` | none | which files and project roots are indexed | builds, staleness | inputs; `module_of` in `Deltas` |
| MCP server and CLI, audits, tour validation, readers, pyrefly producer, packaging | none | routing, text, parsing | everything | not modelled |

What makes each hard part correct:

* **Data plane.** Builds, head-syncs, graph builds and cache fills are separate
  processes; only some take the writer lock; source, profile and HEAD move under
  all of them; any of them may die between two file operations. A stamp must
  certify only bytes it is true of; "fresh" must imply "is the source"; an older
  build must never overwrite a newer one; derived files must be what their
  provenance says; every operation must end.
* **Serving.** A query reads several files at different moments and prints one
  stamp for all. What it calls exact must be true of the source while it ran.
* **Source identity.** A cache spares reading unchanged files; a verdict of "no
  drift" must not come from a hash recorded beside the wrong stat data.
* **Query heal.** One healer at a time, no query waits past its budget, a
  waiter is told the truth about what its peer did.
* **Refresh hook.** Commits in a burst coalesce through two files without a
  lock; the last commit must be followed by a refresh.
* **LSP bridge.** Requests, edits, evictions, timeouts and the backend's death
  interleave over several mutexes and two threads. Every call must end, an
  answer must reach its asker, an edit must not be lost, a stopped session must
  leave nothing behind.
* **Tours.** Several tools rewrite one tree without a lock; a row of the
  manifest must have its file, whatever was interrupted.
* **Algorithms.** Correct against a declarative definition on every small
  input: no edge lost, no caller attributed twice, no identity guessed
  where the frame declares one, has no line, or impls of one type compete.

The hazards are in `PROJECT.json`, each at its line.

## 2. Modules

The modules of a component hold its state, actions and properties. A module
`MC…` makes an instance for TLC. `…_proof` holds proofs.

### DataPlane, CertifiedSlot, DataPlaneRefines

One repository's published files and every process that writes them.

* Source: `src` maps a language *family* to one of a few contents, `excluded`
  is the profile's policy, `head` the commit. `Edit`, `ProfileChange` and
  `Commit` may fall anywhere; an edit may restore an earlier content.
* Files: `slot`, `meta`, `manifest`, `cache` and `graph` record what their
  bytes were made from and, where the code compares times, when they were
  written. Hashes are injective on provenance, so a hash is the rows it was
  taken of. `meta` may be `Torn`: `fs::write` truncates first.
* A build (`build_repo`): capture, one leg per family in ORDERED order (skipped
  when the profile empties it, possibly incomplete when its producer is
  tolerant), the re-capture, the writer lock, the capture under the lock, then
  either publication (rename or merge, prune of the cache, stamp, graph) or the
  removal of the whole plane, file by file. A failed stamp is a note and the
  build goes on to its graph, as in the code.
* A head-sync (`stamp_meta_core`) preserves the previous certificate only for
  the same slot bytes. A graph build pins the slot's hash, takes a face through
  `open_face`, and replaces `graph.db` only if the slot still has that hash.
* A query's `open_face`: no db, parse; stale db, load the index, fill a db and
  rename it; fresh db, open it; one action per file access, no lock. And
  `--build-cache`, which reads the stamped head *before* the index.
* `Crash` ends a process at any step; files stay, the kernel frees the lock.

`evaluate_staleness` is the operator `NeedsRebuild` (`IdentityDrift`,
`GraphLags`) over a certified slot. History variables are read by properties only: `ver`, `seen`,
the `twice` of certificates, and of the slot `clean` (the prune met no fill under
way) and `overtaken` (another graph was finished while its single part waited).

The constants have named assumptions: families are a non-empty finite set of
numbers (ORDERED), the roles of processes are disjoint, and `None` and `Torn` are
no file, row or stamp (`SentinelAssumption`, `FilesAssumption`).

Abstractions: a leg reads its family at one instant (edits during a longer
read are edits before or after it, which the captures cannot tell apart
either); part files of an attempt are private to it; the fndefs sidecar and
identity cache are removed or kept with files that are modelled; removals of
empty convergence succeed; a stamp or stand-alone graph build that waits for the
lock has not begun; a query's fill has a db of its own (the shared temporary
name is `Serving`'s); CALLS marks are not part of the graph's rows; two writes
whose times are compared have different times.

`CertifiedSlot` is the promise to those who trust a certificate: a source that
moves, an index replaced by one publication at a time (`Publish`: rows made from
a capture of a source seen since the previous one), a certificate that is only
given to the bytes in place and to rows that are whole (`Vouch`), and may be
lost (`Withdraw`, `Settle`, `Remove`). `DataPlaneRefines` maps `DataPlane` to
it: processes, steps, lock, cache and graph are hidden; `pending` is the capture
of the one build between publication and stamp.

`DataPlaneInv` adds the inductive invariant, `MCDataPlane` the instances.

### Serving

A query from its freshness stamp to the tier it announces: the stats and hashes
of the staleness evaluation, the binding check and the budget, the look at the
db, its rebuild through the one temporary name (`ClearTemp`, `OpenTemp`,
`CreateTables`, `Commit`, `Rename`, each a step), definitions and rows read in
separate steps, the spans sidecar, the stamp after the load, the graph face.
Around it an edit, a publication step by step, rebuilds by peers. An index is
the version of the source it was made of, its hash is that version; versions
only grow. `races` names the overlaps the code does not exclude: two rebuilds of
one file, a rebuild around a prune, a last check between an index and its meta,
an index parsed again after it. `None` and `Empty` are no version, no query and
no name or record of the model (`ServingAssumption`, `ServingSentinelAssumption`).

### SourceIdentity

The walk, the per-file hash with its stat gate, the identity cache shared by
passes, the composed identity, the manifest of a stamp, the verdict and the
delta, with files written, deleted, moved back with their old time and excluded
between any two steps. A hash is its content. `held` is what a pass could have
seen of a file at some moment since it began, its absence included, and absence
too for the files its walk did not find. `raced` remembers the files whose
hash was cached under an earlier state's time. The four faces are constants, and
the proofs are for any files of them; TLC runs with one Rust and one TypeScript
file, a manifest and a lock file (Python differs from the latter face in nothing
but the fingerprint below, JavaScript in nothing).

`profile` is `.code-reality.toml`, reduced to its exclusions; an edit may name a
prefix that no governed file has (`Elsewhere`). A build with a JavaScript or
TypeScript face stamps a fingerprint of them, a pass that finds another flags
`js-ts-config` (`ProfileMoved`, `DeltaOf`) and the next query rebuilds. No
identity holds the fingerprint: an exclusion that matches nothing is flagged
and is no drift of the source. `DriftExplained` therefore speaks of the other
flags. Left out of a topology are the roots the resolver finds and the cargo
features of the profile: the absent markers stand for it. A build that finds no
face stamps no identity, and its slot is judged by times alone: not modelled
(`Stamped`).

### QueryHeal

The queries and post-commit refreshes that find the index stale, one action per
file access of `ensure_fresh_check`, `acquire_heal_lock`,
`wait_peer_and_reevaluate`, `run_heal_locked` and `refresh_run`.

* `lockFile` is `.heal.lock`: `CreateLock` is `create_new`, `CreateFails` and
  `LockExists` the failed create and the `exists()` after it, `LockAge` and
  `Steal` the reading of its age and its removal, `Drop` the removal by path.
  `Age` makes a lock older than `HEAL_LOCK_MAX_AGE`; `Crash` leaves it behind.
* `armed` is the churn marker: removed by every completed build (`Unmark`), by
  the converged heal (`Disarm`), armed by `ArmFailed` and `Arm`; `Expire` is the
  cooldown.
* `slot` is the index reduced to what the heal can tell of it: the version of
  the source it was made of, the stamped head, whether every governed document
  is in it, whether its graph was built. `Stale` and `HeadDrift` are
  `evaluate_staleness`, `DocSetDelta` the walk against the documents.
* `answer` is what the caller was told, and the index when it was told.

Abstractions: publication and stamp are one step (DataPlane has the files);
versions of the source do not come back (DataPlane has the ABA);
`evaluate_staleness` looks at one instant; the precise and the general reason of
a heal that did not converge arm and answer alike and are one branch; a cooldown
set to zero is `Expire` at once. `history` (a steal, a lock that outlived its
age under a live holder, a heal that did not converge) is read by properties
only.

### RefreshHook

Installation and removal of the hook, git config calls that fail included, and
the script it installs: every commit stamps `refresh.pending`, the first of a
burst leaves a runner that beats `refresh.scheduled`, waits for a quiet window
and launches the refresh. One process per commit, one action per command of the
script; a stamp is modelled by its age, up to the largest one anyone compares it
with, so time needs no bound. `Kill` is a logout or a reboot.

### LspDocs

One session of the LSP bridge that stays alive, with the calls of `check_file`
and `edit_file` that run on it concurrently. A hover is a `check` that meets its
deadline at once: it does the same to the documents.

* `openFiles` and `overlay` with the mutex of each in `lock`; `sync_open` is
  `TakeOpenFiles` … `Synced` under both, `apply_edit` is `ApplyEdit` under the
  second, `force_reopen` is `CloseAgain` … `InsertOverlay` under neither for
  longer than a read or an insert. The interaction mutex is a message's
  atomicity: `server` is what the server knows after every message sent.
* `wire` and `diags` are the pushes under way and the cache; `Analyze` pushes
  for a version at any later time or never, `ClosePushes` is what some backends
  push on close.
* `check_file`'s loop is `Converge`, `Deadline` and `Stalled`; a poll that
  decides nothing changes nothing. Quiescence and half the deadline are a matter
  of time, so their guards are left open.
* Instants are counted per file: a push is newer than a mutation when it arrived
  after it was made. `(mtime, size)` tells disk contents apart.

`past` and `history` are read by properties only. Files do not disappear from
disk; a session that dies is `LspSession`'s matter; a backend that drops a
change is one that does not push. As in the other modules, an assumption on the
constants says that `None` is no record and no number.

### LspSession

One session below the documents: callers with a request or a notification,
callers that shut down, the spawn with its handshake, the writer thread with
its bounded channel, the reader thread with its answers to the backend's own
requests, pipes of bounded size, and a backend that answers, asks, stalls or
exits as it likes. The interaction lock and the backend slot's lock are
variables; a deadline may pass at any moment of a wait. A frame is its kind, its
sender and its id.

### TourCorpus, TourAnchors

`TourCorpus`: the `.tours/` tree and the manifest under the generator
(`chain_tour.rs`), re-anchoring, upgrade, scan, register, materialize and the
delta commands, each a process that loads, writes tours in place, dumps the
manifest by one rename and deletes, any of which may be killed or fail; no lock
exists. `raced` marks four overlaps (section 4), the fourth of which, a deletion
of a tour that has a row again or is of a newer document, takes three tools.

`TourAnchors`: how a spelled path becomes a file (repository pool, module pool,
the frames before it) and a name a row of the graph: impl heads, qualified
selection, collisions, line ranges.

### The algorithms

`QueryFaces` (occurrences of the protobuf index and of the sqlite cache, spans,
attribution, callers, closure), `GraphDb` (nodes, edges, CALLS marks and the
counts of what is left out), `HubRefs` (resolution of a name, aggregation, the
hazard level), `GraphRank` (degrees, Brandes' betweenness, impact),
`GraphFlows`, `GraphCommunities`, `GraphChanges` (the graph engine), `Counting`
(the insertion-ordered counter), `Boundary` (PyO3 joins, sidecar, trace edges),
`Deltas` (snapshots, transitions, delta tours). They are operators over
sequences and sets, no RECURSIVE. A path is a sequence of names, a symbol a
model value or a number where only order and equality matter; what tree-sitter,
markdown or a regular expression reads is an input.

`Algorithms` is their one specification: a state is an algorithm with one of its
inputs. What is proved about (`TourAnchors`, `QueryFaces`, `Deltas`) states its
promise next to the algorithm and takes its inputs as constants under named
assumptions that say what an input is (`IsFrame`, `IsTree`, `IsIndex`, `IsHistory`,
`IsSpanned`, `IsChanges`); `MCAlgorithms` gives them bounded values. `MCAnswers`, `MCGraphs` and
`MCBoundary` enumerate the inputs of the others and state their reference
definitions. `Absence` holds the value that stands for none.

## 3. Runs

Deadlock checking is off where counters bound the number of operations, edits,
commits and crashes, so that every behaviour stops; `lspSession` checks it
(`Next` stutters only once every thread has returned). Where a cfg declares
symmetry, the specification treats the permuted values alike; the runs of
liveness properties declare none.

| run | instance | shows |
|---|---|---|
| `publish` | 2 builds of one family, a head-sync, a graph build, 2 edits, 1 commit, 1 crash | `CertificationInv`, `NoStaleOverwrite`; `CertifiedSlot` (refinement) |
| `planes` | a build, 2 families (1 tolerant), selection of one or all, a query filling the cache or `--build-cache`, 1 edit/exclusion, 1 crash; fair | `TypeOK`, `FreshMeansCurrent`, `TornPlaneDetected`, `CacheTruthful`, `GraphProvenance`, `OperationsEnd` |
| `healPeers` | 2 queries, 2 edits, 1 crash, 1 aged lock, 1 expiry; fair | `OneHealerUnlessStolen`, `LockNotLeaked`, `HealedSnapshotStands`, `PeerFixedIt`, `HealsEnd` |
| `healRefresh` | query, refresh, explicit build, edit, commit | `HealTypeOK`, `RefreshSyncsHead` |
| `serving` | a query of three faces, 1 edit, 1 publication, 1 rebuild by a peer, 1 fault | `ExactUnlessRaced`, `SettledIsExact` |
| `fakeEmpty` | 2 queries, nothing else moves | `RebuildIsAtomic` fails: the finding below |
| `identity` | 2 passes, a TypeScript and a Rust file, a manifest and a lock file, a prefix without files, 1 edit or exclusion, 1 move back, 1 build | `FreshIsTrue`, `DriftExplained` |
| `hook` | 3 commits, 1 kill, 1 install or removal, 1 failing git call; fair | `TailRefreshed` |
| `lspDocs` | 2 threads, 3 calls, 2 files of which 1 may stay open, 1 disk write, 2 re-openings by stalled checks | `DocsInv` (types, `MirrorsServer`), `StampVouches`, `EditsSurvive`, `CallsGoOn`, `CheckedIsRecent` |
| `lspSession` | a request, a notification, a shutdown, queue and pipes of 1, 1 backend request; fair | `SessionInv` (types, `AnswersMatch`, `HandshakeFirst`), `ShutdownReaps`, `NothingAfterShutdown`, `CallsEnd` |
| `tours` | 2 processes, 3 runs of 7 tools, 2 families, 2 scenarios, 2 arcs, 1 edit, 1 move, 1 kill, 1 failing deletion | `RowsHaveFiles`, `RegenerationReconciles` |
| `algorithms` | about 270 000 inputs of the algorithms | `FacesAgree`, `CallersAttributed`, `EngineExact`, `ChangesReported`, `AnchorsGrounded`, `ContextOnlySettles`, `BoundaryTrue`, `DeltaTrue` |

Why the bounds are enough. Two edits give the ABA, two builds the overwrite
race, one crash separates any two file operations, one commit separates a
cache's head from the stamp's; `publish` takes two of those moves of the world
(its constraint). Two queries are a healer and a waiter, and the
aged lock of the dead one makes the thief. One file too many makes the eviction,
the third call the re-opening of the evicted file; `lspDocs` follows a behaviour
until a reopen crosses another call or a disk write falls between a read and its
stamp (its constraint): what happens from there on is described below. A queue
and a pipe of one frame are full as soon as anybody waits. Three commits are one
in a runner's window, one at its end and one after; a quiet window of one tick
is enough because the script compares ages with one window and three. Two
passes are one that fills the cache and one that trusts it. Three tool runs are
one that leaves a mess, one that overlaps, one that cleans up. The algorithms'
inputs have up to four symbols or frames, enough for a cycle, a tie, a
duplicate and an unknown; the constants of the code (`IMPACT_SCORE_FLOOR`,
`RG_TRIGGER_PROD`, coupling thresholds, limits) are parameters with small values
where the code's would never bind. The strengthened invariants of the proofs were checked on these
instances before they were proved, and on some others: two shutdowns
(`LspSession`), three generators with two edits and four runs (`TourCorpus`),
three callers, and two calls without the constraint (`LspDocs`). The proofs need
no bounds.

Fairness. `DataPlane`, `QueryHeal` (`FairSpec`): a started process keeps taking
its steps (the operating system schedules it), and the wait for a peer is
bounded by its budget, so `WaitTimeout` is a step like any other; nothing
obliges anybody to begin, edit, commit or die. `RefreshHook`: time passes and a
running shell goes on. `LspSession` (`FairSpec`): every thread of the bridge goes
on, which includes the failing end of each wait once its deadline passes;
nothing is assumed of the backend. `LspDocs` assumes none: `CallsGoOn` says that
some running call can take its next step whatever the backend does.

## 4. What the runs found

**Finding** (`fakeEmpty`). Two rebuilds of the sqlite cache share one temporary
name and no lock. The second unlinks the first one's file and begins its own;
the first renames whatever bears the name, a db with tables and no rows, and
opens it for its own answer without judging it again. It reports no definitions
(`no-coverage`, not exhaustive) of a symbol the index defines, although
`cache.rs` 109-110 says that tmp and rename make the rebuild atomic. A query
after it is sent to rebuild: the file has no schema row.

**Overlaps the code does not exclude.** The properties state what holds without
them, by a history variable that only properties read:

* `DataPlane`, `clean`: the prune at publication does not reach a cache fill
  already under way; the fill's rename lands after it and the cache of the old
  corpus is relayed as fresh, to queries and to the build's own graph, whose
  provenance then names a slot its rows did not come from. So `CacheTruthful`
  and `GraphProvenance` ask for a prune that met no fill.
* `DataPlane`, `overtaken`: a single-leg publication keeps the part's time, so a
  graph of the previous slot, finished while the part waited, can be newer than
  the slot, and `graph_lags` misses a torn plane. `TornPlaneDetected` excepts it.
* `QueryHeal`, `stolen`: two queries steal the lock of a dead healer; the second
  removes the lock the first has just created, and both heal, although no lock
  outlived its age under a live holder.
* `QueryHeal`: staleness is judged before the heal lock and not again under it,
  so a query that waited a moment rebuilds what its peer has just healed; and a
  rebuild that fails while an explicit build succeeds reports Healed and leaves
  the churn marker armed.
* `LspDocs`, `crossed`, `raced`: an edit that falls into a reopen is acknowledged
  and lost; a write between a read and its stamp is vouched for.
* `LspDocs`: a check may take a push of an earlier opening for an answer when it
  comes late: the code's tests declare it a residual, and `CheckedIsRecent`
  excepts it.
* `Serving`, `races`: see above; without them an exact answer is true.
* `SourceIdentity`, `raced`: a hash recorded under the time of an earlier state,
  and a move that brings that time back, give a false "no drift".
* `TourCorpus`, `raced`: a dump over a manifest that changed since it was
  loaded, a row for a tour deleted since it was read or written, a tour written
  over a newer one, a deletion of a tour that has a row again or is of a newer
  document.
* `RefreshHook`, `excused`: commits made while a runner was killed, or less than
  three quiet windows after.
* Snapshots and the boundary sidecar: metadata read before the file it
  describes is opened may belong to another generation.

**Smaller disagreements** seen while modelling, without a run of their own:

* A crash between the manifest's rename and the meta's write leaves a mixed
  pair, which the code degrades (`cr/engine.rs` 1881). A lock dropped between
  the failed create and the `exists()` test reads as an environment failure
  (`cr/build.rs` 1518). A refresh that waited for a peer does not sync the head
  (`cr/refresh.rs` 118).
* `hook_install` whose config call fails leaves a rerun that reports the hook
  installed while `core.hooksPath` is unset (`cr/refresh.rs` 329–338);
  `hook_remove` unsets it even when the hook file is foreign.
* The manifest scan labels any `NN.tour` a chain tour, so a numbered tour
  written by hand is deleted by the next regeneration; upgrade turns rows of the
  generator into manual ones; the clean-up of expired deltas takes any
  date-named `.tour` in `.tours/delta`, materialized arcs included; materialize
  dumps the manifest it loaded before its git calls.
* Anchors with an explicit line match files by `LIKE '%/rel'`: a row of
  `x/src/lib.rs` can answer for `src/lib.rs`. A tie in the module pool takes the
  lexicographically first, one in the repository pool is refused.
* `impact_radius` cuts its hits by score, then sorts the list it answers with by
  scores looked up under qualified names in a map keyed by symbols
  (`cr/graph_engine.rs` 925, 990–1006). No lookup succeeds, and the list is
  alphabetical, where the doc (786–790) says by score. `EngineExact` checks what
  the code gives: the best nodes, their scores, listed by name.
* `detect_changes` with a base matches the hunks that overlap a node's lines,
  and a build gives a node one line, that of its definition (`cr/graph_db.rs`
  923–926): a hunk inside the body touches nothing. Without a base a file named
  twice has its functions reported twice. It matches files exactly where
  `impact_radius` accepts suffixes, and never reports classes, which are `Type`
  nodes; `map_changes` by `LIKE` has no `/` boundary.
* `hub_refs` answers a mistyped `::` name with an OK and zero references
  (`cr/hub_refs.rs` 81–112, 213–216).
* In `boundary_build.rs`, a renamed variant is never marked as renamed (the flag
  is read after `take()`), a variant's name hides a same-named `.pyi` method,
  and two same-named classes of one crate join wrongly (around 853).
* A module rule of depth 0 yields `base/` with an empty tail; the runtime
  aggregate merges same-named functions of different files.

## 5. Proofs

The theorems hold for every value of the constants that meets the named
assumptions of the module: any processes, files, contents and bounds. Each
component has one inductive invariant, a conjunction of named parts, every part
proved to hold initially and to survive every action; the properties follow from
it. `[]P` is an invariant, and a property of steps is proved of every step from
states that satisfy the invariant.

**DataPlane** (`DataPlane_proof`). `CertificationInv` is
`TypeOK` and nine parts.

* `FreshIsCurrent`: `FreshMeansCurrent` speaks of a stamp, and what makes a stamp
  true was decided several steps earlier. `StagingInv` says what a build may
  conclude from two equal captures: a leg that differs from the capture was
  changed at least twice since. `PublishInv` carries that across the lock to the
  stamp, with `LockInv` keeping every other writer of the slot out. `CertInv`
  says it of the certificate on disk and of those in a process's hands.
* `NoOverwrite`, from `SeenInv`: what a build is about to publish was the source
  since the last publication.
* `CacheIsTruthful`, `GraphsAreProven`: from `FillInv`, every fill under way
  after a clean prune is of the slot's rows, and from `GraphInv`, so is the face
  a graph build has taken.
* `TornIsDetected`: also from `GraphInv`, a graph of other rows than the slot's is
  older than the slot unless the slot is `overtaken`.
* `Certification` and `TypeCorrect`. `LocalsInv` says a process has what its next
  step reads; `StampInv` that whoever stamps, stamps the slot in place.

**CertifiedSlot** (`DataPlane_proof`). `Refinement`: `DataPlane` implements
`CertifiedSlot`. The initial states map to initial states, and every step maps to
one of the promise or to none, from `CertificationInv`: the lock leaves at most one build
between publication and stamp, so its capture is the promise's pending one;
`Publish` is justified by `SeenInv`, `Vouch` by `CertInv` and `StampInv`, and all
other steps by what they leave alone.

**QueryHeal** (`QueryHeal_proof`).

* `SingleHealer`, `NoLeak`: `HealLockInv` adds to the types of the lock that its
  file is its creator's while that one heals or an orphan (`LockNotLeaked`) and
  that a healer owns it until one is stolen (`Owned`). Two healers would both own
  the one file.
* `HealTyped`: `HealTypeInv`, which is `HealTypeOK` and that a build between its
  publication and its end has the writer lock, so the index it builds the graph
  for is there.
* `PeerBelieved`: after a heal that did not converge the marker is there or its
  healer is about to put it (`MarkerInv`), so a waiter who finds no marker may
  believe its peer.
* `RefreshLeavesHead`: from a refresh's own publication on, or from its start
  when it saw no drift, the stamp's head is not behind the one it began with
  (`HeadInv`): heads only grow and whoever stamps writes the current one.
* `LentSnapshotStands`: from the second look to the dropped lock nobody else can
  replace the index, so the verdict under way is of the index that is there
  (`JudgedInv`). It needs that no lock was stolen and that there is no explicit
  build, as the property says.

**SourceIdentity** (`SourceIdentity_proof`).

* `VerdictsExplained`: `VerdictInv` follows the verdict and the delta through the
  pass; what the manifest and the composed identity leave out is either flagged
  or counted. The converse leaves out the `js-ts-config` flag, which can stand
  over a source that has not drifted.
* `FreshMeansSeen`: the argument of the stat gate. A time names one state of a
  file, and the latest one as long as no move has brought an earlier state back
  (`PastInv`). A cached hash is that of the state under whose time it stands, or
  of a later one (`CacheInv`). So every entry a pass composes was in front of it
  at some moment (`SeenInv`), whichever pass put it in the cache.

**LspSession** (`LspSession_proof`).

* `SessionHolds`: an answer is in the hands of its asker, from `MatchInv` (the
  pending slot names a thread that is about a frame to be answered, or has just
  given up) and `LockInv` (who is inside a call holds the interaction lock); and
  nothing precedes the handshake, from `GreetInv` (in a session not greeted the
  one caller inside is about the handshake's frames) and `FrameInv`.
* `ShutdownLeavesNothing`: what runs is in the slot or in the hands of the one
  thread that starts or stops it (`ReapInv`).
* `SilentAfterShutdown`: a returned shutdown has set `dead` (`ReapInv`), and every
  step by which a call reports success looks at it.

**TourCorpus** (`TourCorpus_proof`).

* `RowsStand`: `RowInv` needs `DeltaInv`, that an arc about to be recorded as
  materialized has its tour.
* `FamilyAsWritten`: a tour of the present document stands at the number of its
  scenario, wherever it is (`BodyInv`); a generator plans exactly the numbers of
  the live scenarios and deletes none of them (`GenInv`); and what it planned is
  still to be written or is there (`MadeInv`). `RankFacts` says that the live
  scenarios are numbered from 1 without a gap, from `Least`: a non-empty set of
  numbers has a least one, which the library's well-founded induction gives
  without an operator parameter.

**LspDocs** (`LspDocs_proof`). Every action is first classified by what it does
to the bridge's state (`Kind`: a document is opened, changed, evicted, closed,
reopened, inserted again, or nothing of it changes, or the server, the wire or
the disk moves), and `Overlays`, `Hold` and `Documents` say what each kind does to an
overlay, to a call under way and to a document. Above the types, `LocksInv` (the
two mutexes), `ReadyInv` (what a call's next step reads is there) and `KnownInv`:

* `BridgeMirrors`: `AgreeInv` says of a file nobody reopens that bridge and
  server agree, and of a file under reopening that one call holds it and sends in
  the end the overlay of before. Any action of another call on that file sets
  `crossed`.
* `StampsVouch`, `EditsStand`: `StampInv` and `SurviveInv`, also of the stamp that
  a reopening carries: what the disk holds was sent only if it is what the stamp
  vouches for. Disk writes and edits make contents that were never there
  (`MadeInv`), so a replaced one could only come back from a stale copy.
* `ChecksAreRecent`: opened instants and versions strictly grow, so a push under
  the current version is of the current content (`PushInv`), and what a check
  finds under its version is of a content the file had since the check began
  (`CheckInv`).

**Serving** (`Serving_proof`). Every step of a query is first classified by what
it does to the query's locals and to the files (`Kind`: it begins, evaluates,
climbs the ladder, ends at a connection, at spans or at an index, rebuilds,
reads, checks again, takes the graph, ends), so that the invariants are argued
over twelve kinds and the world's six actions.

* `ExactStands`: `JudgedInv` says what the stamp knows: the source it walked is
  one the query saw, its hash is not newer than the index, and a bound stamp
  whose hash is still the index's certifies it. `FilesInv`, as long as `races` is
  empty: each file has one filler, its inode is at the temporary name, and a file
  at its name is of the present index or is about to be pruned by a publication
  that has not stamped yet. So a query with a bound stamp, over the index it
  hashed, finds no file of an earlier one, and everything it has read is of its
  hash (`RightInv`); the check after the load, outside the window between index
  and meta, gives that back for all it read before. Without `races` each of the
  three would fail where the code lets it: `fakeEmpty` shows the first.
* `SettledStands`: `QuietInv` follows the undisturbed query: the stamp it took is
  the plane's, the file it opens is full, and so its definitions are not empty.

**Algorithms** (`Algorithms_proof`). A state is an input and the algorithms are
functions of it, so no invariant is needed: each theorem is a lemma on every input
that meets the assumptions, carried over the two kinds of states.

* `AnchorsAreGrounded`: `EveryFrameGrounded` goes down the ladder of a frame (refused
  by its shape, by an impl head, by the line, by the file, by the chain) and shows
  at each rung that what is answered is the only candidate; for a declared
  identity, however the lines drift. The last rung, a frame with a line, no
  declared identity and no rival impls, guesses, as the code does (`cr/chain_tour.rs`
  1025–1040, 1160–1175): there only that no row of the name is nearer is shown
  (`NearestInside`). Rows of nested paths are excepted (section 4).
* `ContextsOnlySettle`: a resolution looks at the frames before it only to settle
  a choice among several files of the pool (`ContextSettles`).
* `FacesAlwaysAgree`: a row the cache leaves out is of a symbol no query and no
  target asks for, whatever the language of its document, and selecting twice is
  selecting once (`FacesAnswerAlike`, `TargetsAgree`). It needs that a class is of
  one language (`IsIndex`): the gate of the cache is per document, the matching of
  a query per row.
* `CallersAlwaysAttributed`: among the spans around a line there is one narrowest
  and first seen, whatever their number (`InnermostIs`, from `LeastNumber` twice);
  so the owner of a row is one symbol, and selecting the rows of each owner parts
  the rows (`EachAttributed`). The grouping by callee loses nothing, so an edge
  counts what it stands for, and the cache keeps every row of a function
  (`EdgesAreCounted`). It needs that lines are numbers and that no span is the value
  for none (`IsSpanned`).
* `DifferencesTrue`: two snapshots between which no warning stands are of one
  generation, and so of one graph; two that are not stale are of the graphs of
  their commits, whose edges they differ in (`DifferenceExplained`). Of a range of
  commits, reading the printed fields gives back every change in its kind, in
  whatever order renames and copies stand among the others, since an entry's first
  field says where it ends; a step is shown for each that is not noise, and a tag
  for those the plan leaves out only if the plan names others (`StepsCover`).

What the operators compute on a sequence is a fold, and the library's induction
takes an operator as a parameter. `LeastNumber` (from well-founded induction on the
numbers) gives induction as a statement on sets: `EveryNumber`, `EverySequence`. A
fold of a step that is a *function* is then proved to be the iteration of that
function (`FoldIsThere`, `FoldedBy`, `FoldGoes`), and the fold of each concrete
step equal to one of those (`KeptIn`, `SeenIn`, `ReadSet`, `TakeIn`, `PrintIn`).

Only model-checked:

* Liveness (`OperationsEnd`, `HealsEnd`, `TailRefreshed`, `CallsEnd`) and
  `CallsGoOn` (`ENABLED`), which the prover does not reach.
* `EngineExact`, `ChangesReported`, `BoundaryTrue`: sums over sets, stable sorts and
  walks by library operators whose parameters are operators, of which the prover
  has no induction. The sum of a derivation's sites and the closure are among them.

## 6. Not modelled

`PROJECT.json` lists every component with what is left of it. A build's producer
selection, argument building, coverage gates and collision scan; discovery of
projects and roots, loading of the profile; the tree-sitter readers and the
external producers (a build sees their output as a leg); audits and tour
validation (they read and report); LSP hover, routing and the ABI manifest;
argument parsing, MCP routing, wording and output formats; packaging.

The parameters are CONSTANTS with named assumptions; one action per operation
step; invariants are conjunctions of named parts; no module with a theorem, and
none it uses, declares a RECURSIVE operator.
