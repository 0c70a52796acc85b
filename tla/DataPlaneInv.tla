---------------------------- MODULE DataPlaneInv ----------------------------
(***************************************************************************)
(* The inductive invariant behind DataPlane's certification properties:    *)
(* what a build under way knows about the source, from its first capture   *)
(* to the stamp, and who may touch the files meanwhile.                    *)
(***************************************************************************)
EXTENDS DataPlane

\* A step of process p, or its death; every other step is the world's.
Step(p) == Begin(p) \/ Advance(p) \/ Crash(p)

\* Steps taken while holding .writer.lock.
LockedPCs == {"locked", "publish", "prune", "rm-cache", "rm-meta", "rm-manifest",
              "rm-slot", "rm-graph"} \cup StampPC \cup GraphPC
Critical(p) == \/ pc[p] \in LockedPCs
               \/ pc[p] \in FacePC \cup CachePC /\ p \notin Queriers

\* Only the holder of the lock is at a step that needs it.
LockInv == \A p \in Procs : Critical(p) => lock = p

\* Until its last capture, a build can tell from the source whether family f
\* changed once since its first one; only two changes can hide.
Unchanged(b, f) == CaptureNow(job[b].sel).ident[f] = job[b].a.ident[f]

CaptureAge(b, f) ==
    /\ ver[f] >= job[b].aver[f]
    /\ ver[f] = job[b].aver[f] => Unchanged(b, f)

LegAge(b, f) ==
    job[b].legs[f] # None /\ job[b].legs[f].of # job[b].a.ident[f] =>
        \/ ver[f] >= job[b].aver[f] + 2
        \/ ver[f] = job[b].aver[f] + 1 /\ ~Unchanged(b, f)

StagingOK(b) ==
    pc[b] \in {"staging", "waiting", "locked"} =>
        /\ job[b].todo \subseteq Scope(job[b].sel)
        /\ \A f \in Families : CaptureAge(b, f) /\ LegAge(b, f)

StagingInv == \A b \in Builders : StagingOK(b)

\* From the last capture to the stamp, a leg that differs from the capture was
\* edited at least twice; the slot is then the legs.
LegsOK(b) ==
    \A f \in Families : job[b].legs[f] # None =>
        job[b].legs[f].of = job[b].a.ident[f] \/ f \in job[b].twice

PublishOK(b) ==
    /\ pc[b] \in {"publish", "prune", "stamp"} => LegsOK(b)
    /\ pc[b] \in {"prune", "stamp"} => slot \in Slots /\ slot.rows = job[b].legs

PublishInv == \A b \in Builders : PublishOK(b)

\* What a certificate says of the index bytes it is bound to.
CertOK(c) ==
    \A f \in Families :
        /\ (c.hash[f] = None) = (c.ident[f] = None)
        /\ c.hash[f] # None => /\ c.hash[f].full
                               /\ c.hash[f].of = c.ident[f] \/ f \in c.twice

CertInv ==
    /\ Cert # None => CertOK(Cert)
    /\ \A p \in Procs : job[p].cert # None => CertOK(job[p].cert)

\* The source now is among the sources since the last publication, and so is
\* what a build about to publish captured.
CapturedSince(b) ==
    \E s \in seen : job[b].a = CaptureOf(s[1], s[2], job[b].sel)

SeenInv ==
    /\ <<src, excluded>> \in seen
    /\ \A b \in Builders : pc[b] = "publish" => CapturedSince(b)

\* What a process carries from one step to a later one is there when used.
Carried(p) ==
    /\ pc[p] \in {"fill", "bc-fill", "swap", "reopen", "replace"} => job[p].face \in Rows
    /\ pc[p] = "manifest" => job[p].cert \in Certificates
    /\ pc[p] \in {"manifest", "truncate", "write"} => job[p].head \in Nat

LocalsInv == \A p \in Procs : Carried(p)

\* Since a prune that met no fill under way, the cache and every fill are of
\* the slot's rows.
FillInv ==
    slot # None /\ slot.clean =>
        /\ cache # None => cache.rows = slot.rows
        /\ \A p \in Filling : job[p].face = slot.rows

\* Whoever stamps, stamps the slot in place: a build with its own capture, and
\* over a sidecar it has torn.
StampOK(p) ==
    /\ pc[p] \in {"manifest", "truncate", "write"} /\ job[p].cert # None =>
          /\ slot \in Slots /\ job[p].cert.hash = slot.rows
          /\ p \in Builders => /\ job[p].cert.ident = job[p].a.ident
                               /\ job[p].cert.twice = job[p].twice
    /\ pc[p] = "write" => meta = Torn

StampInv == \A p \in Procs : StampOK(p)

\* A graph build that has its face has the rows of a clean slot, and a graph of
\* other rows than the slot's is older than it.
FaceOK(p) ==
    pc[p] \in {"reopen", "replace"} /\ slot # None /\ slot.clean =>
        job[p].face = slot.rows

GraphInv ==
    /\ \A p \in Procs \ Queriers : FaceOK(p)
    /\ graph # None => graph.mtime <= clock
    /\ slot # None /\ graph # None /\ ~slot.overtaken =>
          graph.input = slot.rows \/ graph.mtime < slot.mtime

\* The inductive invariant: no step of any process, edit or crash breaks it.
CertificationInv ==
    /\ TypeOK /\ LockInv /\ StagingInv /\ PublishInv /\ CertInv /\ SeenInv
    /\ LocalsInv /\ FillInv /\ StampInv /\ GraphInv

=============================================================================
