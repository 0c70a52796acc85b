--------------------------- MODULE DataPlane_proof ---------------------------
(***************************************************************************)
(* DataPlane's invariants, for every set of families, contents, processes  *)
(* and every value of the bounds: CertificationInv is inductive, what the  *)
(* published plane promises follows from it, and it implements the promise *)
(* of CertifiedSlot.                                                       *)
(***************************************************************************)
EXTENDS DataPlaneRefines, TLAPS

---------------------------------------------------------------------------
(* Every step keeps the types, given what the inductive invariant says of  *)
(* the values a process carries between its steps.                         *)

\* Storing a well-typed job, or moving the program counter, keeps the types.
LEMMA JobType ==
    ASSUME job \in [Procs -> ProcJob], NEW p \in Procs, NEW j \in ProcJob, Set(p, j)
    PROVE  job' \in [Procs -> ProcJob]
  BY DEF Set

LEMMA PcType ==
    ASSUME pc \in [Procs -> PC], NEW p, NEW to \in PC, Goto(p, to)
    PROVE  pc' \in [Procs -> PC]
  BY DEF Goto

LEMMA CaptureType ==
    ASSUME src \in [Families -> Contents], excluded \in SUBSET Families, NEW sel
    PROVE  CaptureNow(sel) \in Capture
  BY DEF CaptureNow, CaptureOf, Capture, Ident

LEMMA NoJobType == NoJob \in ProcJob
  BY DEF NoJob, ProcJob, NoCapture, NoRows, Capture, Ident, Rows

LEMMA FinishType ==
    ASSUME TypeOK, NEW p \in Procs, Finish(p)
    PROVE  job' \in [Procs -> ProcJob] /\ pc' \in [Procs -> PC]
  BY NoJobType, JobType, PcType DEF Finish, TypeOK, PC

LEMMA ReleaseType ==
    ASSUME TypeOK, NEW p \in Procs, Release(p)
    PROVE  lock' \in Procs \cup {None}
  BY DEF Release, TypeOK

\* The initial states are well typed.
LEMMA TypeInit == Init => TypeOK
<1> SUFFICES ASSUME Init PROVE TypeOK  OBVIOUS
<1>1. job \in [Procs -> ProcJob] /\ pc \in [Procs -> PC] /\ runs \in [Procs -> Nat]
  BY NoJobType DEF Init, PC
<1>2. src \in [Families -> Contents] /\ excluded \in SUBSET Families /\ head \in Nat
      /\ ver \in [Families -> Nat] /\ budget \in [edits : Nat, crashes : Nat]
      /\ clock \in Nat /\ lock \in Procs \cup {None}
      /\ seen \subseteq [Families -> Contents] \X SUBSET Families
  BY DEF Init
<1>3. CASE NeverBuilt
  BY <1>1, <1>2, <1>3 DEF NeverBuilt, TypeOK
<1>4. CASE LastBuildFinished
  <2> DEFINE rows == [f \in Families |-> [of |-> src[f], full |-> TRUE]]
             a == CaptureNow(AutoSel)
  <2>1. rows \in Rows
    BY <1>2 DEF Rows, Leg
  <2>2. a \in Capture
    BY <1>2, CaptureType
  <2>3. Certificate(rows, a, {}) \in Certificates
    BY <2>1, <2>2 DEF Certificate, Certificates, Capture
  <2> HIDE DEF rows, a
  <2>4. /\ slot = [rows |-> rows, mtime |-> 0, clean |-> TRUE, overtaken |-> FALSE]
        /\ meta = [head |-> head, sel |-> AutoSel, cert |-> Certificate(rows, a, {})]
        /\ manifest = [ident |-> a.ident, hash |-> rows]
        /\ cache \in {None, [rows |-> rows, head |-> head, mtime |-> 0]}
        /\ graph = [rows |-> rows, input |-> rows, mtime |-> 0]
    BY <1>4 DEF LastBuildFinished, rows, a
  <2>5. slot \in Slots
    BY <2>1, <2>4 DEF Slots
  <2>6. meta \in Stamps
    BY <1>2, <2>3, <2>4 DEF Stamps
  <2>7. manifest \in [ident : Ident, hash : Rows]
    BY <2>1, <2>2, <2>4 DEF Capture
  <2>8. cache \in [rows : Rows, head : Nat \cup {None}, mtime : Nat] \cup {None}
    BY <1>2, <2>1, <2>4
  <2>9. graph \in [rows : Rows, input : Rows, mtime : Nat]
    BY <2>1, <2>4 DEF Slots
  <2>10. QED
    BY <1>1, <1>2, <2>5, <2>6, <2>7, <2>8, <2>9 DEF TypeOK
<1>5. QED
  BY <1>3, <1>4 DEF Init

\* What publication puts in place: the legs, at the part's time or now.
LEMMA PublishedSlot ==
    ASSUME NEW p, Publish(p)
    PROVE  \E time \in {job[p].time, clock + 1}, late \in BOOLEAN :
             /\ slot' = [rows |-> job[p].legs, mtime |-> time, clean |-> FALSE,
                         overtaken |-> late]
             /\ clock' \in {clock, clock + 1}
<1>1. CASE Cardinality(Staged(p)) = 1
  <2> DEFINE late == graph # None /\ graph.mtime >= job[p].time
  <2>1. late \in BOOLEAN
    OBVIOUS
  <2>2. /\ slot' = [rows |-> job[p].legs, mtime |-> job[p].time, clean |-> FALSE,
                    overtaken |-> late]
        /\ clock' = clock
    BY <1>1 DEF Publish
  <2> HIDE DEF late
  <2>3. QED
    BY <2>1, <2>2
<1>2. CASE Cardinality(Staged(p)) # 1
  <2>1. /\ slot' = [rows |-> job[p].legs, mtime |-> clock + 1, clean |-> FALSE,
                    overtaken |-> FALSE]
        /\ clock' = clock + 1
    BY <1>2 DEF Publish
  <2>2. QED
    BY <2>1
<1>3. QED
  BY <1>1, <1>2

\* What the stamp would certify is well typed.
LEMMA StampTypes ==
    ASSUME TypeOK
    PROVE  /\ Cert \in Certificates \cup {None}
           /\ StampedHead \in Nat \cup {None}
           /\ StampedSel \in Families \cup {AutoSel}
  BY DEF TypeOK, Cert, StampedHead, StampedSel, Stamp, Stamps

LEMMA StampKeysType ==
    ASSUME TypeOK, slot # None, NEW p \in Procs
    PROVE  StampKeys(p) \in Certificates \cup {None}
<1>1. slot.rows \in Rows
  BY DEF TypeOK, Slots
<1>2. job[p].a \in Capture /\ job[p].twice \in SUBSET Families
  BY DEF TypeOK, ProcJob
<1>3. Certificate(slot.rows, job[p].a, job[p].twice) \in Certificates
  BY <1>1, <1>2 DEF Certificate, Certificates, Capture
<1>4. QED
  BY <1>3, StampTypes DEF StampKeys, Preserved

LEMMA WorldTypes == TypeOK /\ World => TypeOK'
<1> SUFFICES ASSUME TypeOK, World PROVE TypeOK'  OBVIOUS
<1>1. ASSUME NEW f \in Families, Edit(f) PROVE TypeOK'
  BY <1>1 DEF Edit, TypeOK, files
<1>2. ASSUME NEW f \in Families, ProfileChange(f) PROVE TypeOK'
  BY <1>2 DEF ProfileChange, TypeOK, files
<1>3. CASE Commit
  BY <1>3 DEF Commit, TypeOK, files
<1>4. ASSUME NEW p \in Procs, Crash(p) PROVE TypeOK'
  <2>1. budget' \in [edits : Nat, crashes : Nat]
    BY <1>4 DEF Crash, TypeOK
  <2>2. job' \in [Procs -> ProcJob] /\ pc' \in [Procs -> PC]
        /\ lock' \in Procs \cup {None}
    BY <1>4, FinishType, ReleaseType DEF Crash
  <2>3. QED
    BY <1>4, <2>1, <2>2 DEF Crash, TypeOK, files
<1>5. QED
  BY <1>1, <1>2, <1>3, <1>4 DEF World

\* A step that leaves the source, its history and the files alone keeps their
\* types whatever it does to the processes.
LEMMA QuietTypes ==
    ASSUME TypeOK, UNCHANGED <<world, seen, files>>, clock' \in Nat,
           lock' \in Procs \cup {None}, pc' \in [Procs -> PC],
           job' \in [Procs -> ProcJob], runs' \in [Procs -> Nat]
    PROVE  TypeOK'
  BY DEF TypeOK, world, files

LEMMA StartType ==
    ASSUME TypeOK, NEW p \in Procs, Start(p)
    PROVE  runs' \in [Procs -> Nat]
  BY DEF Start, TypeOK

LEMMA AbortTypes ==
    ASSUME TypeOK, NEW p \in Procs, Abort(p)
    PROVE  TypeOK'
  BY FinishType, ReleaseType, QuietTypes DEF Abort, TypeOK

LEMMA BeginTypes ==
    ASSUME TypeOK, NEW p \in Procs, Begin(p)
    PROVE  TypeOK'
<1> USE DEF TypeOK, Slots
<1>1. CASE StartBuild(p)
  <2>1. PICK sel \in Selections :
           Set(p, [NoJob EXCEPT !.sel = sel, !.a = CaptureNow(sel), !.todo = Scope(sel),
                                !.aver = ver])
    BY <1>1 DEF StartBuild
  <2>2. sel \in Families \cup {AutoSel}
    BY SelectionsAssumption
  <2>3. [NoJob EXCEPT !.sel = sel, !.a = CaptureNow(sel), !.todo = Scope(sel),
                      !.aver = ver] \in ProcJob
    BY <2>2, NoJobType, CaptureType DEF ProcJob, Scope
  <2>4. job' \in [Procs -> ProcJob]
    BY <2>1, <2>3, JobType
  <2>5. QED
    BY <1>1, <2>4, PcType, StartType, QuietTypes DEF StartBuild, PC, BuildPC
<1>2. CASE StartStamp(p)
  BY <1>2, PcType, StartType, QuietTypes DEF StartStamp, PC, StampPC
<1>3. CASE StartGraph(p)
  BY <1>3, PcType, StartType, QuietTypes DEF StartGraph, PC, GraphPC
<1>4. CASE StartQuery(p)
  BY <1>4, PcType, StartType, QuietTypes DEF StartQuery, PC, FacePC
<1>5. CASE StartBuildCache(p)
  <2>1. [NoJob EXCEPT !.head = StampedHead] \in ProcJob
    BY NoJobType, StampTypes DEF ProcJob
  <2>2. QED
    BY <1>5, <2>1, JobType, PcType, StartType, QuietTypes DEF StartBuildCache, PC, CachePC
<1>6. QED
  BY <1>1, <1>2, <1>3, <1>4, <1>5 DEF Begin

LEMMA BuildTypes ==
    ASSUME TypeOK, PublishInv, NEW p \in Builders, BuildStep(p)
    PROVE  TypeOK'
<1> USE DEF TypeOK, Slots
<1> p \in Procs
  BY DEF Procs
<1>0. job[p] \in ProcJob
  OBVIOUS
<1>1. CASE GiveUp(p)
  BY <1>1, FinishType, QuietTypes DEF GiveUp
<1>2. CASE Recheck(p) \/ Acquire(p)
  BY <1>2, PcType, QuietTypes DEF Recheck, Acquire, PC, BuildPC
<1>3. CASE RecheckLocked(p)
  <2>1. LockedPC(job[p]) \in PC
    BY DEF LockedPC, PC, BuildPC
  <2>2. [job[p] EXCEPT !.twice = {f \in Families : ver[f] >= job[p].aver[f] + 2}] \in ProcJob
    BY <1>0 DEF ProcJob
  <2>3. QED
    BY <1>3, <2>1, <2>2, PcType, JobType, QuietTypes DEF RecheckLocked
<1>4. CASE RejectLocked(p) \/ PublishFails(p)
  BY <1>4, AbortTypes DEF RejectLocked, PublishFails
<1>5. ASSUME NEW f \in Families, SkipLeg(p, f) PROVE TypeOK'
  <2>1. [job[p] EXCEPT !.todo = @ \ {f}] \in ProcJob
    BY <1>0 DEF ProcJob
  <2>2. QED
    BY <1>5, <2>1, JobType, QuietTypes DEF SkipLeg
<1>6. ASSUME NEW f \in Families, StageLeg(p, f) PROVE TypeOK'
  <2>1. PICK full \in BOOLEAN :
           Set(p, [job[p] EXCEPT !.todo = @ \ {f}, !.time = clock + 1,
                                 !.legs = [@ EXCEPT ![f] = [of |-> src[f], full |-> full]]])
    BY <1>6 DEF StageLeg
  <2> DEFINE legs == [job[p].legs EXCEPT ![f] = [of |-> src[f], full |-> full]]
  <2>2. legs \in Rows
    BY <1>0 DEF ProcJob, Rows, Leg
  <2>3. Set(p, [job[p] EXCEPT !.todo = @ \ {f}, !.time = clock + 1, !.legs = legs])
    BY <2>1
  <2> HIDE DEF legs
  <2>4. [job[p] EXCEPT !.todo = @ \ {f}, !.time = clock + 1, !.legs = legs] \in ProcJob
    <3>1. clock + 1 \in Nat
      OBVIOUS
    <3>2. QED
      BY <1>0, <2>2, <3>1 DEF ProcJob
  <2>5. job' \in [Procs -> ProcJob]
    BY <2>3, <2>4, JobType
  <2>6. QED
    BY <1>6, <2>5, QuietTypes DEF StageLeg
<1>7. CASE Publish(p)
  <2>1. job[p].legs \in Rows /\ job[p].time \in Nat
    BY <1>0 DEF ProcJob
  <2>2. slot' \in Slots /\ clock' \in Nat
    <3>1. PICK time \in {job[p].time, clock + 1}, late \in BOOLEAN :
             /\ slot' = [rows |-> job[p].legs, mtime |-> time, clean |-> FALSE,
                         overtaken |-> late]
             /\ clock' \in {clock, clock + 1}
      BY <1>7, PublishedSlot
    <3>2. QED
      BY <2>1, <3>1
  <2>3. seen' \subseteq [Families -> Contents] \X SUBSET Families
    BY <1>7 DEF Publish
  <2>4. pc' \in [Procs -> PC]
    BY <1>7, PcType DEF Publish, PC, StampPC, BuildPC
  <2>5. QED
    BY <1>7, <2>2, <2>3, <2>4 DEF Publish, world
<1>8. CASE Prune(p)
  <2>1. slot' \in Slots \cup {None}
    <3>2. PICK t \in BOOLEAN : slot' = [slot EXCEPT !.clean = t]
      BY <1>8 DEF Prune
    <3>3. slot \in Slots
      BY <1>8 DEF Prune, PublishInv, PublishOK
    <3>4. QED
      BY <3>2, <3>3
  <2>2. pc' \in [Procs -> PC]
    BY <1>8, PcType DEF Prune, PC, StampPC
  <2>3. QED
    BY <1>8, <2>1, <2>2 DEF Prune, world
<1>9. CASE RemoveCache(p)
  BY <1>9, PcType DEF RemoveCache, RemoveStep, PC, BuildPC, world
<1>10. CASE RemoveMeta(p)
  BY <1>10, PcType DEF RemoveMeta, RemoveStep, PC, BuildPC, world
<1>11. CASE RemoveManifest(p)
  BY <1>11, PcType DEF RemoveManifest, RemoveStep, PC, BuildPC, world
<1>12. CASE RemoveSlot(p)
  BY <1>12, PcType DEF RemoveSlot, RemoveStep, PC, BuildPC, world
<1>13. CASE RemoveGraph(p)
  BY <1>13, FinishType, ReleaseType DEF RemoveGraph, world
<1>14. QED
  BY <1>1, <1>2, <1>3, <1>4, <1>5, <1>6, <1>7, <1>8, <1>9, <1>10, <1>11, <1>12, <1>13
  DEF BuildStep

LEMMA StampStepTypes ==
    ASSUME TypeOK, LocalsInv, NEW p \in Procs, StampStep(p)
    PROVE  TypeOK'
<1> USE DEF TypeOK, Slots
<1>0. job[p] \in ProcJob
  OBVIOUS
<1>1. CASE BeginStamp(p)
  <2> DEFINE cert == StampKeys(p)
             sel == IF p \in Builders THEN job[p].sel ELSE StampedSel
  <2>1. cert \in Certificates \cup {None}
    BY <1>1, StampKeysType DEF BeginStamp
  <2>2. sel \in Families \cup {AutoSel}
    BY <1>0, StampTypes DEF ProcJob
  <2>3. /\ Set(p, [job[p] EXCEPT !.head = head, !.cert = cert, !.sel = sel])
        /\ \E to \in PC : Goto(p, to)
    BY <1>1 DEF BeginStamp, PC, StampPC
  <2> HIDE DEF cert, sel
  <2>4. [job[p] EXCEPT !.head = head, !.cert = cert, !.sel = sel] \in ProcJob
    BY <1>0, <2>1, <2>2 DEF ProcJob
  <2>5. QED
    BY <1>1, <2>3, <2>4, JobType, PcType, QuietTypes DEF BeginStamp
<1>2. CASE WriteManifest(p)
  <2>1. job[p].cert \in Certificates
    BY <1>2 DEF WriteManifest, LocalsInv, Carried
  <2>2. manifest' \in [ident : Ident, hash : Rows]
    BY <1>2, <2>1 DEF WriteManifest, Certificates
  <2>3. QED
    BY <1>2, <2>2, PcType DEF WriteManifest, PC, StampPC, world
<1>3. CASE TruncateMeta(p)
  BY <1>3, PcType DEF TruncateMeta, PC, StampPC, world
<1>4. CASE WriteMeta(p)
  <2>1. meta' \in Stamps
    BY <1>0, <1>4 DEF WriteMeta, LocalsInv, Carried, ProcJob, Stamps
  <2>2. job' \in [Procs -> ProcJob] /\ pc' \in [Procs -> PC]
        /\ lock' \in Procs \cup {None}
    BY <1>4, PcType, FinishType, ReleaseType DEF WriteMeta, PC, GraphPC
  <2>3. QED
    BY <1>4, <2>1, <2>2 DEF WriteMeta, world
<1>5. CASE StampFails(p)
  BY <1>5, PcType, FinishType, ReleaseType, QuietTypes DEF StampFails, PC, GraphPC
<1>6. QED
  BY <1>1, <1>2, <1>3, <1>4, <1>5 DEF StampStep

LEMMA GotFaceTypes ==
    ASSUME TypeOK, NEW p \in Procs, NEW rows \in Rows, GotFace(p, rows)
    PROVE  job' \in [Procs -> ProcJob] /\ pc' \in [Procs -> PC]
<1>1. [job[p] EXCEPT !.face = rows] \in ProcJob
  BY DEF TypeOK, ProcJob
<1>2. QED
  BY <1>1, JobType, PcType, FinishType DEF GotFace, TypeOK, PC, GraphPC

LEMMA FaceStepTypes ==
    ASSUME TypeOK, LocalsInv, NEW p \in Procs, FaceStep(p)
    PROVE  TypeOK'
<1> USE DEF TypeOK, Slots
<1>0. job[p] \in ProcJob
  OBVIOUS
<1>1. CASE FaceParse(p)
  <2>1. slot.rows \in Rows
    BY <1>1 DEF FaceParse
  <2>2. QED
    BY <1>1, <2>1, GotFaceTypes, QuietTypes DEF FaceParse
<1>2. CASE FaceFound(p) \/ FaceCheck(p)
  <2>1. pc' \in [Procs -> PC]
    BY <1>2, PcType DEF FaceFound, FaceCheck, PC, FacePC
  <2>2. QED
    BY <1>2, <2>1, QuietTypes DEF FaceFound, FaceCheck
<1>3. CASE FaceOpen(p)
  <2>1. (IF cache # None THEN cache.rows ELSE slot.rows) \in Rows
    BY <1>3 DEF FaceOpen
  <2>2. QED
    BY <1>3, <2>1, GotFaceTypes, QuietTypes DEF FaceOpen
<1>4. CASE FaceLoad(p)
  <2>1. [job[p] EXCEPT !.face = slot.rows] \in ProcJob
    BY <1>0, <1>4 DEF FaceLoad, ProcJob
  <2>2. QED
    BY <1>4, <2>1, JobType, PcType, QuietTypes DEF FaceLoad, PC, FacePC
<1>5. CASE FaceFill(p)
  <2>1. [job[p] EXCEPT !.head = StampedHead, !.time = clock + 1] \in ProcJob
    <3>1. clock + 1 \in Nat
      OBVIOUS
    <3>2. StampedHead \in Nat \cup {None}
      BY StampTypes
    <3>3. QED
      BY <1>0, <3>1, <3>2 DEF ProcJob
  <2>2. QED
    BY <1>5, <2>1, JobType, PcType, QuietTypes DEF FaceFill, PC, FacePC
<1>6. CASE FaceSwap(p)
  <2>1. job[p].face \in Rows
    BY <1>6 DEF FaceSwap, LocalsInv, Carried
  <2>2. cache' \in [rows : Rows, head : Nat \cup {None}, mtime : Nat]
    BY <1>0, <1>6, <2>1 DEF FaceSwap, ProcJob
  <2>3. job' \in [Procs -> ProcJob] /\ pc' \in [Procs -> PC]
    BY <1>6, PcType, FinishType DEF FaceSwap, PC, FacePC
  <2>4. QED
    BY <1>6, <2>2, <2>3 DEF FaceSwap, world
<1>7. CASE FaceReopen(p)
  <2>1. (IF cache # None THEN cache.rows ELSE job[p].face) \in Rows
    BY <1>7 DEF FaceReopen, LocalsInv, Carried
  <2>2. QED
    BY <1>7, <2>1, GotFaceTypes, QuietTypes DEF FaceReopen
<1>8. CASE FaceFails(p)
  <2>1. CASE pc[p] \in {"fill", "bc-fill", "swap"} /\ GotFace(p, job[p].face)
             /\ UNCHANGED lock
    <3>1. job[p].face \in Rows
      BY <2>1 DEF LocalsInv, Carried
    <3>2. QED
      BY <1>8, <2>1, <3>1, GotFaceTypes, QuietTypes DEF FaceFails
  <2>2. CASE Finish(p) /\ Release(p)
    BY <1>8, <2>2, FinishType, ReleaseType, QuietTypes DEF FaceFails
  <2>3. QED
    BY <1>8, <2>1, <2>2 DEF FaceFails
<1>9. QED
  BY <1>1, <1>2, <1>3, <1>4, <1>5, <1>6, <1>7, <1>8 DEF FaceStep

LEMMA GraphStepTypes ==
    ASSUME TypeOK, LocalsInv, NEW p \in Procs, GraphStep(p)
    PROVE  TypeOK'
<1> USE DEF TypeOK, Slots
<1>0. job[p] \in ProcJob
  OBVIOUS
<1>1. CASE PinInput(p)
  <2>1. [job[p] EXCEPT !.pin = slot.rows] \in ProcJob
    BY <1>0, <1>1 DEF PinInput, ProcJob
  <2>2. QED
    BY <1>1, <2>1, JobType, PcType, QuietTypes DEF PinInput, PC, FacePC
<1>2. CASE ReplaceGraph(p)
  <2>1. job[p].face \in Rows /\ job[p].pin \in Rows
    BY <1>2 DEF ReplaceGraph, ProvenanceHolds, LocalsInv, Carried
  <2>2. graph' \in [rows : Rows, input : Rows, mtime : Nat]
    BY <1>2, <2>1 DEF ReplaceGraph
  <2>3. QED
    BY <1>2, <2>2, FinishType, ReleaseType DEF ReplaceGraph, world
<1>3. CASE GraphFails(p)
  BY <1>3, AbortTypes DEF GraphFails
<1>4. QED
  BY <1>1, <1>2, <1>3, FaceStepTypes DEF GraphStep

LEMMA CacheStepTypes ==
    ASSUME TypeOK, LocalsInv, NEW p \in Procs, CacheStep(p)
    PROVE  TypeOK'
<1> USE DEF TypeOK, Slots
<1>0. job[p] \in ProcJob
  OBVIOUS
<1>1. CASE BuildCacheLoad(p)
  <2>1. [job[p] EXCEPT !.face = slot.rows] \in ProcJob
    BY <1>0, <1>1 DEF BuildCacheLoad, ProcJob
  <2>2. QED
    BY <1>1, <2>1, JobType, PcType, QuietTypes DEF BuildCacheLoad, PC, CachePC
<1>2. CASE BuildCacheFill(p)
  <2>1. [job[p] EXCEPT !.time = clock + 1] \in ProcJob
    <3>1. clock + 1 \in Nat
      OBVIOUS
    <3>2. QED
      BY <1>0, <3>1 DEF ProcJob
  <2>2. QED
    BY <1>2, <2>1, JobType, PcType, QuietTypes DEF BuildCacheFill, PC, FacePC
<1>3. QED
  BY <1>1, <1>2, FaceStepTypes DEF CacheStep

\* Every step keeps the types, when the values carried between steps are there.
LEMMA NextTypes ==
    ASSUME TypeOK, PublishInv, LocalsInv, Next
    PROVE  TypeOK'
<1>1. CASE World
  BY <1>1, WorldTypes
<1>2. ASSUME NEW p \in Procs, Begin(p) PROVE TypeOK'
  BY <1>2, BeginTypes
<1>3. ASSUME NEW p \in Procs, Advance(p) PROVE TypeOK'
  BY <1>3, BuildTypes, StampStepTypes, GraphStepTypes, CacheStepTypes DEF Advance
<1>4. QED
  BY <1>1, <1>2, <1>3 DEF Next

---------------------------------------------------------------------------
(* What a step of process p leaves alone.                                  *)

\* Steps of p as one of its actions.
LEMMA StepCases ==
    ASSUME NEW p \in Procs, Step(p)
    PROVE  \/ p \in Builders /\ (StartBuild(p) \/ BuildStep(p))
           \/ p \in Stampers /\ StartStamp(p)
           \/ p \in Graphers /\ StartGraph(p)
           \/ p \in Queriers /\ (StartQuery(p) \/ StartBuildCache(p) \/ BuildCacheLoad(p)
                                 \/ BuildCacheFill(p))
           \/ p \notin Queriers /\ (StampStep(p) \/ PinInput(p) \/ ReplaceGraph(p)
                                    \/ GraphFails(p))
           \/ FaceStep(p)
           \/ Crash(p)
  BY RolesAssumption DEF Step, Begin, Advance, GraphStep, CacheStep, Procs

\* No step of p moves another process or breaks its hold of the lock, and each
\* shared file is touched by few steps only.
Frame(p) ==
    /\ \A q \in Procs \ {p} : pc'[q] = pc[q] /\ job'[q] = job[q]
    /\ lock' = lock \/ (lock = None /\ lock' = p) \/ (lock = p /\ lock' = None)
    /\ src' = src /\ excluded' = excluded /\ ver' = ver
    /\ seen' = seen \/ (p \in Builders /\ Publish(p))
    /\ slot' = slot \/ (p \in Builders /\ (Publish(p) \/ Prune(p) \/ RemoveSlot(p)))
    /\ cache' = cache \/ Prune(p) \/ RemoveCache(p) \/ FaceSwap(p)
    /\ meta' = meta \/ RemoveMeta(p) \/ TruncateMeta(p) \/ WriteMeta(p)
    /\ graph' = graph \/ RemoveGraph(p) \/ ReplaceGraph(p)
    /\ clock' = clock \/ clock' = clock + 1

LEMMA StepFrame ==
    ASSUME TypeOK, NEW p \in Procs, Step(p)
    PROVE  Frame(p)
<1> USE DEF TypeOK, Frame, world, files, Goto, Set, Finish, Release
<1>1. CASE StartBuild(p)
  BY <1>1 DEF StartBuild
<1>2. CASE p \in Builders /\ BuildStep(p)
  <2>1. CASE GiveUp(p) \/ Recheck(p) \/ Acquire(p) \/ RecheckLocked(p) \/ RejectLocked(p)
    BY <1>2, <2>1 DEF GiveUp, Recheck, Acquire, RecheckLocked, RejectLocked, Abort
  <2>2. ASSUME NEW f \in Families, SkipLeg(p, f) \/ StageLeg(p, f) PROVE Frame(p)
    BY <2>2 DEF SkipLeg, StageLeg
  <2>3. CASE Publish(p) \/ PublishFails(p) \/ Prune(p)
    BY <1>2, <2>3 DEF Publish, PublishFails, Prune, Abort
  <2>4. CASE RemoveCache(p) \/ RemoveMeta(p) \/ RemoveManifest(p) \/ RemoveSlot(p)
             \/ RemoveGraph(p)
    BY <1>2, <2>4 DEF RemoveCache, RemoveMeta, RemoveManifest, RemoveSlot, RemoveGraph, RemoveStep
  <2>5. QED
    BY <1>2, <2>1, <2>2, <2>3, <2>4 DEF BuildStep
<1>3. CASE StartStamp(p) \/ StartGraph(p) \/ StartQuery(p) \/ StartBuildCache(p)
           \/ BuildCacheLoad(p) \/ BuildCacheFill(p)
  BY <1>3 DEF StartStamp, StartGraph, StartQuery, StartBuildCache, BuildCacheLoad,
              BuildCacheFill
<1>4. CASE StampStep(p)
  BY <1>4 DEF StampStep, BeginStamp, WriteManifest, TruncateMeta, WriteMeta, StampFails
<1>5. CASE PinInput(p) \/ ReplaceGraph(p) \/ GraphFails(p)
  BY <1>5 DEF PinInput, ReplaceGraph, GraphFails, Abort
<1>6. CASE FaceStep(p)
  BY <1>6 DEF FaceStep, FaceParse, FaceFound, FaceCheck, FaceOpen, FaceLoad, FaceFill, FaceSwap,
              FaceReopen, FaceFails, GotFace
<1>7. CASE Crash(p)
  BY <1>7 DEF Crash
<1>8. QED
  BY StepCases, <1>1, <1>2, <1>3, <1>4, <1>5, <1>6, <1>7

---------------------------------------------------------------------------
(* The writer lock.                                                        *)

\* A step of p that leads to a locked step holds the lock.
LEMMA CriticalStep ==
    ASSUME TypeOK, LockInv, NEW p \in Procs, Step(p), Critical(p)'
    PROVE  lock' = p
<1> USE DEF TypeOK, LockInv, Critical, LockedPCs, StampPC, GraphPC, FacePC, CachePC,
            Goto, Finish
<1>1. CASE p \in Builders /\ StartBuild(p)
  BY <1>1 DEF StartBuild
<1>2. CASE p \in Builders /\ BuildStep(p)
  <2>1. CASE GiveUp(p) \/ Recheck(p) \/ Acquire(p) \/ RecheckLocked(p) \/ RejectLocked(p)
    BY <2>1, <1>2, RolesAssumption DEF GiveUp, Recheck, Acquire, RecheckLocked,
                                       RejectLocked, Abort, Procs
  <2>2. ASSUME NEW f \in Families, SkipLeg(p, f) \/ StageLeg(p, f) PROVE lock' = p
    BY <2>2, <1>2, RolesAssumption DEF SkipLeg, StageLeg, Procs
  <2>3. CASE Publish(p) \/ PublishFails(p) \/ Prune(p)
    BY <2>3 DEF Publish, PublishFails, Prune, Abort
  <2>4. CASE RemoveCache(p) \/ RemoveMeta(p) \/ RemoveManifest(p) \/ RemoveSlot(p)
             \/ RemoveGraph(p)
    BY <2>4 DEF RemoveCache, RemoveMeta, RemoveManifest, RemoveSlot, RemoveGraph, RemoveStep
  <2>5. QED
    BY <1>2, <2>1, <2>2, <2>3, <2>4 DEF BuildStep
<1>3. CASE StartStamp(p) \/ StartGraph(p)
  BY <1>3 DEF StartStamp, StartGraph
<1>4. CASE p \in Queriers /\ (StartQuery(p) \/ StartBuildCache(p) \/ BuildCacheLoad(p)
                                \/ BuildCacheFill(p))
  BY <1>4 DEF StartQuery, StartBuildCache, BuildCacheLoad, BuildCacheFill
<1>5. CASE StampStep(p)
  BY <1>5 DEF StampStep, BeginStamp, WriteManifest, TruncateMeta, WriteMeta, StampFails
<1>6. CASE p \notin Queriers /\ (PinInput(p) \/ ReplaceGraph(p) \/ GraphFails(p))
  BY <1>6 DEF PinInput, ReplaceGraph, GraphFails, Abort
<1>7. CASE FaceStep(p)
  BY <1>7 DEF FaceStep, FaceParse, FaceFound, FaceCheck, FaceOpen, FaceLoad, FaceFill, FaceSwap,
              FaceReopen, FaceFails, GotFace
<1>8. CASE Crash(p)
  BY <1>8 DEF Crash
<1>9. QED
  BY StepCases, <1>1, <1>2, <1>3, <1>4, <1>5, <1>6, <1>7, <1>8

\* The world leaves the processes, the lock and the files alone.
LEMMA WorldFrame ==
    ASSUME World
    PROVE  \/ \E p \in Procs : Crash(p)
           \/ UNCHANGED <<pc, job, lock, slot, meta, cache, graph, clock>>
  BY DEF World, Edit, ProfileChange, Commit, files

LEMMA LockPreserved ==
    ASSUME TypeOK, LockInv, NEW p \in Procs, Step(p)
    PROVE  LockInv'
<1>1. Frame(p)
  BY StepFrame
<1>2. ASSUME NEW q \in Procs, q # p, Critical(q)' PROVE lock' = q
  <2>1. Critical(q)
    BY <1>1, <1>2 DEF Frame, Critical
  <2>2. lock = q /\ q # None
    BY <2>1, SentinelAssumption DEF LockInv, Procs
  <2>3. QED
    BY <1>1, <1>2, <2>2 DEF Frame
<1>3. QED
  BY <1>2, CriticalStep DEF LockInv

---------------------------------------------------------------------------
(* What a process carries between its steps.                               *)

LEMMA CarriedStep ==
    ASSUME TypeOK, PublishInv, LocalsInv, NEW p \in Procs, Step(p)
    PROVE  Carried(p)'
<1> USE DEF TypeOK, Carried, Goto, Set, Finish
<1>0. job[p] \in ProcJob /\ Carried(p)
  BY DEF LocalsInv
<1>1. CASE p \in Builders /\ StartBuild(p)
  BY <1>1 DEF StartBuild
<1>2. CASE p \in Builders /\ BuildStep(p)
  <2>1. CASE GiveUp(p) \/ Recheck(p) \/ Acquire(p) \/ RecheckLocked(p) \/ RejectLocked(p)
    BY <2>1 DEF GiveUp, Recheck, Acquire, RecheckLocked, RejectLocked, Abort, LockedPC
  <2>2. ASSUME NEW f \in Families, SkipLeg(p, f) \/ StageLeg(p, f) PROVE Carried(p)'
    BY <2>2 DEF SkipLeg, StageLeg
  <2>3. CASE Publish(p) \/ PublishFails(p) \/ Prune(p)
    BY <2>3 DEF Publish, PublishFails, Prune, Abort
  <2>4. CASE RemoveCache(p) \/ RemoveMeta(p) \/ RemoveManifest(p) \/ RemoveSlot(p)
             \/ RemoveGraph(p)
    BY <2>4 DEF RemoveCache, RemoveMeta, RemoveManifest, RemoveSlot, RemoveGraph, RemoveStep
  <2>5. QED
    BY <1>2, <2>1, <2>2, <2>3, <2>4 DEF BuildStep
<1>3. CASE StartStamp(p) \/ StartGraph(p) \/ StartQuery(p) \/ StartBuildCache(p)
           \/ BuildCacheFill(p)
  BY <1>3, <1>0 DEF StartStamp, StartGraph, StartQuery, StartBuildCache, BuildCacheFill,
              ProcJob
<1>4. CASE BuildCacheLoad(p)
  <2>1. slot.rows \in Rows
    BY <1>4 DEF BuildCacheLoad, Slots
  <2>2. QED
    BY <1>4, <1>0, <2>1 DEF BuildCacheLoad, ProcJob
<1>5. CASE StampStep(p)
  <2>1. CASE BeginStamp(p)
    <3> DEFINE cert == StampKeys(p)
               sel == IF p \in Builders THEN job[p].sel ELSE StampedSel
    <3>1. cert \in Certificates \cup {None}
      BY <2>1, StampKeysType DEF BeginStamp
    <3>2. /\ Set(p, [job[p] EXCEPT !.head = head, !.cert = cert, !.sel = sel])
          /\ Goto(p, IF p \in Builders /\ cert # None THEN "manifest" ELSE "truncate")
      BY <2>1 DEF BeginStamp
    <3> HIDE DEF cert, sel
    <3>3. QED
      BY <1>0, <3>1, <3>2 DEF ProcJob
  <2>2. CASE WriteManifest(p) \/ TruncateMeta(p)
    BY <2>2, <1>0 DEF WriteManifest, TruncateMeta
  <2>3. CASE WriteMeta(p) \/ StampFails(p)
    <3>1. pc'[p] \in {"graph", "idle"}
      BY <2>3 DEF WriteMeta, StampFails
    <3>2. QED
      BY <3>1
  <2>4. QED
    BY <1>5, <2>1, <2>2, <2>3 DEF StampStep
<1>6. CASE PinInput(p) \/ ReplaceGraph(p) \/ GraphFails(p)
  BY <1>6 DEF PinInput, ReplaceGraph, GraphFails, Abort
<1>7. CASE FaceStep(p)
  <2>1. ASSUME NEW rows \in Rows, GotFace(p, rows) PROVE Carried(p)'
    BY <2>1, <1>0 DEF GotFace, ProcJob
  <2>2. CASE FaceParse(p)
    BY <2>1, <2>2 DEF FaceParse, Slots
  <2>3. CASE FaceFound(p) \/ FaceCheck(p)
    BY <2>3 DEF FaceFound, FaceCheck
  <2>4. CASE FaceOpen(p)
    <3>1. (IF cache # None THEN cache.rows ELSE slot.rows) \in Rows
      BY <2>4 DEF FaceOpen, Slots
    <3>2. QED
      BY <2>1, <2>4, <3>1 DEF FaceOpen
  <2>5. CASE FaceLoad(p)
    <3>1. slot.rows \in Rows
      BY <2>5 DEF FaceLoad, Slots
    <3>2. QED
      BY <1>0, <2>5, <3>1 DEF FaceLoad, ProcJob
  <2>6. CASE FaceFill(p)
    <3>1. pc'[p] = "swap" /\ job'[p].face = job[p].face
      BY <1>0, <2>6 DEF FaceFill, ProcJob
    <3>2. QED
      BY <1>0, <2>6, <3>1 DEF FaceFill
  <2>9. CASE FaceSwap(p)
    BY <1>0, <2>9 DEF FaceSwap
  <2>7. CASE FaceReopen(p)
    <3>1. (IF cache # None THEN cache.rows ELSE job[p].face) \in Rows
      BY <1>0, <2>7 DEF FaceReopen
    <3>2. QED
      BY <2>1, <2>7, <3>1 DEF FaceReopen
  <2>8. CASE FaceFails(p)
    BY <1>0, <2>1, <2>8 DEF FaceFails
  <2>10. QED
    BY <1>7, <2>2, <2>3, <2>4, <2>5, <2>6, <2>7, <2>8, <2>9 DEF FaceStep
<1>8. CASE Crash(p)
  BY <1>8 DEF Crash
<1>9. QED
  BY StepCases, <1>1, <1>2, <1>3, <1>4, <1>5, <1>6, <1>7, <1>8

LEMMA LocalsPreserved ==
    ASSUME TypeOK, PublishInv, LocalsInv, NEW p \in Procs, Step(p)
    PROVE  LocalsInv'
<1>1. Frame(p)
  BY StepFrame
<1>2. ASSUME NEW q \in Procs, q # p PROVE Carried(q)'
  BY <1>1, <1>2 DEF Frame, LocalsInv, Carried
<1>3. QED
  BY <1>2, CarriedStep DEF LocalsInv

---------------------------------------------------------------------------
(* From the first capture to the last one.                                 *)

LEMMA CaptureIdent ==
    ASSUME NEW sel, NEW f \in Families
    PROVE  CaptureNow(sel).ident[f] = IF f \in Scope(sel) \ excluded THEN src[f] ELSE None
  BY DEF CaptureNow, CaptureOf

\* A change of family f, or of what the profile makes of it, ages its captures
\* and legs by one and leaves the other families alone.
LEMMA ChangeAges ==
    ASSUME TypeOK, NEW b \in Builders, StagingOK(b), NEW f \in Families,
           Edit(f) \/ ProfileChange(f)
    PROVE  StagingOK(b)'
<1> SUFFICES ASSUME pc[b] \in {"staging", "waiting", "locked"}, NEW g \in Families
             PROVE  CaptureAge(b, g)' /\ LegAge(b, g)'
  BY DEF StagingOK, Edit, ProfileChange
<1>0. /\ job' = job /\ CaptureAge(b, g) /\ LegAge(b, g)
      /\ ver' = [ver EXCEPT ![f] = @ + 1]
  BY DEF StagingOK, Edit, ProfileChange
<1>1. ver \in [Families -> Nat] /\ ver[g] \in Nat /\ job[b].aver[g] \in Nat
  BY DEF TypeOK, ProcJob, Procs
<1>2. CASE g = f
  <2>1. ver'[g] = ver[g] + 1
    BY <1>0, <1>1, <1>2
  <2>2. CaptureAge(b, g)'
    BY <1>0, <1>1, <2>1 DEF CaptureAge
  <2>3. LegAge(b, g)'
    BY <1>0, <1>1, <2>1 DEF LegAge
  <2>4. QED
    BY <2>2, <2>3
<1>3. CASE g # f
  <2>1. ver'[g] = ver[g]
    BY <1>0, <1>1, <1>3
  <2>2. src'[g] = src[g] /\ (g \in excluded' <=> g \in excluded)
    BY <1>3 DEF Edit, ProfileChange, TypeOK
  <2>3. CaptureNow(job[b].sel)'.ident[g] = CaptureNow(job[b].sel).ident[g]
    BY <1>0, <2>2 DEF CaptureNow, CaptureOf
  <2>4. Unchanged(b, g)' <=> Unchanged(b, g)
    BY <1>0, <2>3 DEF Unchanged
  <2>5. CaptureAge(b, g)'
    BY <1>0, <2>1, <2>4 DEF CaptureAge
  <2>6. LegAge(b, g)'
    BY <1>0, <1>1, <2>1, <2>4 DEF LegAge
  <2>7. QED
    BY <2>5, <2>6
<1>4. QED
  BY <1>2, <1>3

\* A leg is staged from the source as it is now: it differs from the capture
\* only if the family has changed since.
LEMMA StageLegAge ==
    ASSUME TypeOK, NEW b \in Builders, StagingOK(b), NEW f \in Families, StageLeg(b, f)
    PROVE  StagingOK(b)'
<1>0. job[b] \in ProcJob /\ b \in Procs /\ ver \in [Families -> Nat]
  BY DEF TypeOK, Procs
<1>1. PICK full \in BOOLEAN :
         Set(b, [job[b] EXCEPT !.todo = @ \ {f}, !.time = clock + 1,
                               !.legs = [@ EXCEPT ![f] = [of |-> src[f], full |-> full]]])
  BY DEF StageLeg
<1>2. /\ job'[b].sel = job[b].sel /\ job'[b].a = job[b].a /\ job'[b].aver = job[b].aver
      /\ job'[b].todo = job[b].todo \ {f}
      /\ job'[b].legs = [job[b].legs EXCEPT ![f] = [of |-> src[f], full |-> full]]
  BY <1>0, <1>1 DEF Set, TypeOK, ProcJob
<1>3. /\ f \in job[b].todo /\ f \notin excluded /\ pc[b] = "staging" /\ UNCHANGED <<pc, ver>>
      /\ src' = src /\ excluded' = excluded
  BY DEF StageLeg, NextLeg, world
<1>4. /\ job[b].todo \subseteq Scope(job[b].sel)
      /\ \A g \in Families : CaptureAge(b, g) /\ LegAge(b, g)
  BY <1>3 DEF StagingOK
<1>5. CaptureNow(job[b].sel).ident[f] = src[f]
  BY <1>3, <1>4, CaptureIdent
<1>6. CaptureNow(job[b].sel)' = CaptureNow(job[b].sel)
  BY <1>2, <1>3 DEF CaptureNow, CaptureOf, Scope
<1>7. ASSUME NEW g \in Families PROVE CaptureAge(b, g)' /\ LegAge(b, g)'
  <2>1. Unchanged(b, g)' <=> Unchanged(b, g)
    BY <1>2, <1>6 DEF Unchanged
  <2>2. CaptureAge(b, g)'
    BY <1>2, <1>3, <1>4, <2>1 DEF CaptureAge
  <2>3. CASE g = f
    <3>1. job'[b].legs[g].of = src[f]
      BY <1>0, <1>2, <2>3 DEF ProcJob, Rows
    <3>2. job'[b].legs[g].of # job'[b].a.ident[g] => ~Unchanged(b, g)'
      BY <1>2, <1>5, <2>1, <2>3, <3>1 DEF Unchanged
    <3>3. ver[g] \in Nat /\ job[b].aver[g] \in Nat
      BY <1>0 DEF ProcJob
    <3>4. ~Unchanged(b, g) => ver[g] >= job[b].aver[g] + 1
      BY <1>4, <3>3 DEF CaptureAge
    <3>5. QED
      BY <1>2, <1>3, <2>1, <2>2, <3>2, <3>3, <3>4 DEF LegAge
  <2>4. CASE g # f
    <3>1. job'[b].legs[g] = job[b].legs[g]
      BY <1>0, <1>2, <2>4 DEF ProcJob, Rows
    <3>2. QED
      BY <1>2, <1>3, <1>4, <2>1, <2>2, <3>1 DEF LegAge
  <2>5. QED
    BY <2>2, <2>3, <2>4
<1>8. job'[b].todo \subseteq Scope(job'[b].sel)
  BY <1>2, <1>4
<1>9. QED
  BY <1>7, <1>8 DEF StagingOK

\* What a build knows of the source depends on its own locals only.
LEMMA StagingFrame ==
    ASSUME NEW b \in Builders, StagingOK(b), src' = src, excluded' = excluded, ver' = ver,
           pc'[b] = pc[b], job'[b] = job[b]
    PROVE  StagingOK(b)'
<1>1. CaptureNow(job[b].sel)' = CaptureNow(job[b].sel)
  BY DEF CaptureNow, CaptureOf, Scope
<1>2. ASSUME NEW f \in Families
      PROVE  (CaptureAge(b, f)' <=> CaptureAge(b, f)) /\ (LegAge(b, f)' <=> LegAge(b, f))
  BY <1>1 DEF CaptureAge, LegAge, Unchanged
<1>3. QED
  BY <1>2 DEF StagingOK, Scope

LEMMA StagingStep ==
    ASSUME TypeOK, NEW p \in Builders, StagingOK(p), Step(p)
    PROVE  StagingOK(p)'
<1> p \in Procs /\ p \notin Queriers /\ p \notin Stampers /\ p \notin Graphers
  BY RolesAssumption DEF Procs
<1>0. job[p] \in ProcJob /\ pc \in [Procs -> PC] /\ job \in [Procs -> ProcJob]
  BY DEF TypeOK
<1>1. CASE StartBuild(p)
  <2>1. PICK sel \in Selections :
           Set(p, [NoJob EXCEPT !.sel = sel, !.a = CaptureNow(sel), !.todo = Scope(sel),
                                !.aver = ver])
    BY <1>1 DEF StartBuild
  <2>2. /\ job'[p].sel = sel /\ job'[p].a = CaptureNow(sel) /\ job'[p].todo = Scope(sel)
        /\ job'[p].aver = ver /\ job'[p].legs = NoRows
    BY <1>0, <2>1 DEF Set, NoJob
  <2>3. CaptureNow(sel)' = CaptureNow(sel) /\ ver' = ver
    BY <1>1 DEF StartBuild, world, CaptureNow, CaptureOf, Scope
  <2>4. \A f \in Families : CaptureAge(p, f)' /\ LegAge(p, f)'
    <3> TAKE f \in Families
    <3>1. Unchanged(p, f)'
      BY <2>2, <2>3 DEF Unchanged
    <3>2. ver[f] \in Nat
      BY DEF TypeOK
    <3>3. CaptureAge(p, f)'
      BY <2>2, <2>3, <3>1, <3>2 DEF CaptureAge
    <3>4. LegAge(p, f)'
      BY <2>2, <2>3 DEF LegAge, NoRows
    <3>5. QED
      BY <3>3, <3>4
  <2>5. QED
    BY <2>2, <2>4 DEF StagingOK, Scope
<1>2. CASE BuildStep(p)
  <2>1. CASE Recheck(p) \/ Acquire(p)
    <3>1. /\ src' = src /\ excluded' = excluded /\ ver' = ver /\ job' = job
          /\ pc[p] \in {"staging", "waiting"}
      BY <2>1 DEF Recheck, Acquire, world
    <3>2. CaptureNow(job[p].sel)' = CaptureNow(job[p].sel)
      BY <3>1 DEF CaptureNow, CaptureOf, Scope
    <3>3. ASSUME NEW f \in Families
          PROVE  (CaptureAge(p, f)' <=> CaptureAge(p, f)) /\ (LegAge(p, f)' <=> LegAge(p, f))
      BY <3>1, <3>2 DEF CaptureAge, LegAge, Unchanged
    <3>4. QED
      BY <3>1, <3>3 DEF StagingOK, Scope
  <2>2. ASSUME NEW f \in Families, SkipLeg(p, f) PROVE StagingOK(p)'
    <3>1. /\ src' = src /\ excluded' = excluded /\ ver' = ver
          /\ pc[p] = "staging" /\ pc' = pc
          /\ job'[p] = [job[p] EXCEPT !.todo = @ \ {f}]
      BY <1>0, <2>2 DEF SkipLeg, world, Set
    <3>2. /\ job'[p].sel = job[p].sel /\ job'[p].a = job[p].a /\ job'[p].aver = job[p].aver
          /\ job'[p].legs = job[p].legs /\ job'[p].todo = job[p].todo \ {f}
      BY <1>0, <3>1 DEF ProcJob
    <3>3. CaptureNow(job[p].sel)' = CaptureNow(job[p].sel)
      BY <3>1, <3>2 DEF CaptureNow, CaptureOf, Scope
    <3>4. ASSUME NEW g \in Families
          PROVE  (CaptureAge(p, g)' <=> CaptureAge(p, g)) /\ (LegAge(p, g)' <=> LegAge(p, g))
      BY <3>1, <3>2, <3>3 DEF CaptureAge, LegAge, Unchanged
    <3>5. QED
      BY <3>1, <3>2, <3>4 DEF StagingOK, Scope
  <2>3. ASSUME NEW f \in Families, StageLeg(p, f) PROVE StagingOK(p)'
    BY <2>3, StageLegAge
  <2>4. CASE GiveUp(p) \/ RecheckLocked(p) \/ RejectLocked(p)
    BY <1>0, <2>4 DEF GiveUp, RecheckLocked, RejectLocked, Abort, LockedPC, Goto, Finish,
                      StagingOK
  <2>5. CASE Publish(p) \/ PublishFails(p) \/ Prune(p)
    BY <1>0, <2>5 DEF Publish, PublishFails, Prune, Abort, Goto, Finish, StagingOK
  <2>6. CASE RemoveCache(p) \/ RemoveMeta(p) \/ RemoveManifest(p) \/ RemoveSlot(p)
             \/ RemoveGraph(p)
    BY <1>0, <2>6 DEF RemoveCache, RemoveMeta, RemoveManifest, RemoveSlot, RemoveGraph,
                      RemoveStep, Goto, Finish, StagingOK
  <2>7. QED
    BY <1>2, <2>1, <2>2, <2>3, <2>4, <2>5, <2>6 DEF BuildStep
<1>3. CASE StampStep(p)
  BY <1>0, <1>3 DEF StampStep, BeginStamp, WriteManifest, TruncateMeta, WriteMeta, StampFails,
                    Goto, Finish, StagingOK
<1>4. CASE PinInput(p) \/ ReplaceGraph(p) \/ GraphFails(p)
  BY <1>0, <1>4 DEF PinInput, ReplaceGraph, GraphFails, Abort, Goto, Finish, StagingOK
<1>5. CASE FaceStep(p)
  BY <1>0, <1>5 DEF FaceStep, FaceParse, FaceFound, FaceCheck, FaceOpen, FaceLoad, FaceFill, FaceSwap,
                    FaceReopen, FaceFails, GotFace, Goto, Finish, StagingOK
<1>6. CASE Crash(p)
  BY <1>0, <1>6 DEF Crash, Finish, Goto, StagingOK
<1>7. QED
  BY StepCases, <1>1, <1>2, <1>3, <1>4, <1>5, <1>6

LEMMA StagingPreserved ==
    ASSUME TypeOK, StagingInv, NEW p \in Procs, Step(p)
    PROVE  StagingInv'
<1>1. Frame(p)
  BY StepFrame
<1>2. ASSUME NEW b \in Builders, b # p PROVE StagingOK(b)'
  BY <1>1, <1>2, StagingFrame DEF Frame, StagingInv, Procs
<1>3. QED
  BY <1>2, StagingStep DEF StagingInv

---------------------------------------------------------------------------
(* From the last capture to the stamp.                                     *)

\* A capture that is as it was the first time says that a leg which differs
\* from it was changed at least twice.
LEMMA SameCaptureLegs ==
    ASSUME TypeOK, NEW b \in Builders, StagingOK(b), RecheckLocked(b)
    PROVE  LegsOK(b)'
<1>0. job[b] \in ProcJob /\ pc[b] = "locked" /\ CaptureNow(job[b].sel) = job[b].a
  BY DEF TypeOK, Procs, RecheckLocked, SameCapture
<1>1. /\ job'[b].a = job[b].a /\ job'[b].legs = job[b].legs
      /\ job'[b].twice = {f \in Families : ver[f] >= job[b].aver[f] + 2}
  BY <1>0 DEF RecheckLocked, Set, TypeOK, ProcJob, Procs
<1>2. ASSUME NEW f \in Families, job[b].legs[f] # None,
             job[b].legs[f].of # job[b].a.ident[f]
      PROVE  ver[f] >= job[b].aver[f] + 2
  BY <1>0, <1>2 DEF StagingOK, LegAge, Unchanged
<1>3. QED
  BY <1>1, <1>2 DEF LegsOK

\* The steps that lead a build into publish, prune and stamp, one after the other.
LEMMA PublishPath ==
    ASSUME TypeOK, NEW p \in Builders, Step(p), pc'[p] \in {"publish", "prune", "stamp"}
    PROVE  \/ RecheckLocked(p) /\ pc'[p] = "publish"
           \/ Publish(p) /\ pc'[p] = "prune"
           \/ Prune(p) /\ pc'[p] = "stamp"
<1> p \in Procs /\ p \notin Queriers /\ p \notin Stampers /\ p \notin Graphers
  BY RolesAssumption DEF Procs
<1>0. pc \in [Procs -> PC]
  BY DEF TypeOK
<1>1. CASE StartBuild(p)
  BY <1>0, <1>1 DEF StartBuild, Goto
<1>2. CASE BuildStep(p)
  <2>1. CASE GiveUp(p) \/ Recheck(p) \/ Acquire(p) \/ RecheckLocked(p) \/ RejectLocked(p)
    BY <1>0, <2>1 DEF GiveUp, Recheck, Acquire, RecheckLocked, RejectLocked, Abort,
                      LockedPC, Goto, Finish
  <2>2. ASSUME NEW f \in Families, SkipLeg(p, f) \/ StageLeg(p, f) PROVE FALSE
    BY <1>0, <2>2 DEF SkipLeg, StageLeg
  <2>3. CASE Publish(p) \/ PublishFails(p) \/ Prune(p)
    BY <1>0, <2>3 DEF Publish, PublishFails, Prune, Abort, Goto, Finish
  <2>4. CASE RemoveCache(p) \/ RemoveMeta(p) \/ RemoveManifest(p) \/ RemoveSlot(p)
             \/ RemoveGraph(p)
    BY <1>0, <2>4 DEF RemoveCache, RemoveMeta, RemoveManifest, RemoveSlot, RemoveGraph,
                      RemoveStep, Goto, Finish
  <2>5. QED
    BY <1>2, <2>1, <2>2, <2>3, <2>4 DEF BuildStep
<1>3. CASE StampStep(p)
  BY <1>0, <1>3 DEF StampStep, BeginStamp, WriteManifest, TruncateMeta, WriteMeta, StampFails,
                    Goto, Finish
<1>4. CASE PinInput(p) \/ ReplaceGraph(p) \/ GraphFails(p)
  BY <1>0, <1>4 DEF PinInput, ReplaceGraph, GraphFails, Abort, Goto, Finish
<1>5. CASE FaceStep(p)
  BY <1>0, <1>5 DEF FaceStep, FaceParse, FaceFound, FaceCheck, FaceOpen, FaceLoad, FaceFill, FaceSwap,
                    FaceReopen, FaceFails, GotFace, Goto, Finish
<1>6. CASE Crash(p)
  BY <1>0, <1>6 DEF Crash, Finish, Goto
<1>7. QED
  BY StepCases, <1>1, <1>2, <1>3, <1>4, <1>5, <1>6

\* The steps on the published files hold the lock, so no two processes take them.
LEMMA WriterHoldsLock ==
    ASSUME LockInv, NEW p \in Procs,
           \/ Publish(p) \/ Prune(p) \/ RemoveSlot(p)
           \/ RemoveMeta(p) \/ TruncateMeta(p) \/ WriteMeta(p)
    PROVE  lock = p
  BY DEF LockInv, Critical, LockedPCs, StampPC, Publish, Prune, RemoveSlot, RemoveStep,
         RemoveMeta, TruncateMeta, WriteMeta

LEMMA PublishPreserved ==
    ASSUME TypeOK, LockInv, StagingInv, PublishInv, NEW p \in Procs, Step(p)
    PROVE  PublishInv'
<1>1. Frame(p)
  BY StepFrame
<1>2. ASSUME NEW b \in Builders, b # p PROVE PublishOK(b)'
  <2>1. pc'[b] = pc[b] /\ job'[b] = job[b] /\ b \in Procs
    BY <1>1, <1>2 DEF Frame, Procs
  <2>2. (LegsOK(b) => LegsOK(b)') /\ PublishOK(b)
    BY <2>1 DEF LegsOK, PublishInv
  <2>3. pc[b] \in {"prune", "stamp"} => slot' = slot
    <3>1. pc[b] \in {"prune", "stamp"} => lock = b
      BY <2>1 DEF LockInv, Critical, LockedPCs, StampPC
    <3>2. QED
      BY <1>1, <1>2, <3>1, WriterHoldsLock DEF Frame
  <2>4. QED
    BY <2>1, <2>2, <2>3 DEF PublishOK
<1>3. ASSUME p \in Builders PROVE PublishOK(p)'
  <2>0. PublishOK(p) /\ StagingOK(p) /\ job[p] \in ProcJob
    BY <1>3 DEF PublishInv, StagingInv, TypeOK
  <2>1. CASE pc'[p] \notin {"publish", "prune", "stamp"}
    BY <2>1 DEF PublishOK
  <2>2. CASE RecheckLocked(p) /\ pc'[p] = "publish"
    BY <1>3, <2>0, <2>2, SameCaptureLegs DEF PublishOK
  <2>3. CASE Publish(p) /\ pc'[p] = "prune"
    <3>1. pc[p] = "publish" /\ job' = job /\ LegsOK(p)
      BY <2>0, <2>3 DEF Publish, PublishOK
    <3>2. slot'.rows = job[p].legs
      BY <2>3 DEF Publish
    <3>3. slot' \in Slots
      <4>1. job[p].legs \in Rows /\ job[p].time \in Nat /\ clock + 1 \in Nat
        BY <2>0 DEF ProcJob, TypeOK
      <4>2. PICK time \in {job[p].time, clock + 1}, late \in BOOLEAN :
               slot' = [rows |-> job[p].legs, mtime |-> time, clean |-> FALSE,
                        overtaken |-> late]
        BY <2>3, PublishedSlot
      <4>3. QED
        BY <4>1, <4>2 DEF Slots
    <3>4. LegsOK(p)'
      BY <3>1 DEF LegsOK
    <3>5. QED
      BY <3>1, <3>2, <3>3, <3>4 DEF PublishOK
  <2>4. CASE Prune(p) /\ pc'[p] = "stamp"
    <3>1. pc[p] = "prune" /\ job' = job /\ LegsOK(p) /\ slot \in Slots
          /\ slot.rows = job[p].legs
      BY <2>0, <2>4 DEF Prune, PublishOK
    <3>2. PICK t \in BOOLEAN : slot' = [slot EXCEPT !.clean = t]
      BY <2>4 DEF Prune
    <3>3. slot' \in Slots /\ slot'.rows = slot.rows
      BY <3>1, <3>2 DEF Slots
    <3>4. LegsOK(p)'
      BY <3>1 DEF LegsOK
    <3>5. QED
      BY <3>1, <3>3, <3>4 DEF PublishOK
  <2>5. QED
    BY <1>3, <2>1, <2>2, <2>3, <2>4, PublishPath
<1>4. QED
  BY <1>2, <1>3 DEF PublishInv

---------------------------------------------------------------------------
(* The certificate.                                                        *)

\* Only BeginStamp decides on a certificate; the rest carry it or drop it.
LEMMA CertFrame ==
    ASSUME TypeOK, NEW p \in Procs, Step(p)
    PROVE  BeginStamp(p) \/ job'[p].cert \in {job[p].cert, None}
<1>0. job \in [Procs -> ProcJob] /\ job[p] \in ProcJob /\ NoJob.cert = None
  BY DEF TypeOK, NoJob
<1> USE <1>0 DEF Set, Finish
<1>1. CASE StartBuild(p) \/ StartStamp(p) \/ StartGraph(p) \/ StartQuery(p)
           \/ StartBuildCache(p)
  BY <1>1 DEF StartBuild, StartStamp, StartGraph, StartQuery, StartBuildCache, NoJob
<1>2. CASE BuildStep(p)
  <2>1. CASE GiveUp(p) \/ Recheck(p) \/ Acquire(p) \/ RecheckLocked(p) \/ RejectLocked(p)
    BY <2>1 DEF GiveUp, Recheck, Acquire, RecheckLocked, RejectLocked, Abort, ProcJob
  <2>2. ASSUME NEW f \in Families, SkipLeg(p, f) \/ StageLeg(p, f)
        PROVE  job'[p].cert \in {job[p].cert, None}
    <3>1. CASE SkipLeg(p, f)
      BY <3>1 DEF SkipLeg, ProcJob
    <3>2. CASE StageLeg(p, f)
      <4>1. PICK full \in BOOLEAN :
               Set(p, [job[p] EXCEPT
                          !.todo = @ \ {f}, !.time = clock + 1,
                          !.legs = [@ EXCEPT ![f] = [of |-> src[f], full |-> full]]])
        BY <3>2 DEF StageLeg
      <4> DEFINE legs == [job[p].legs EXCEPT ![f] = [of |-> src[f], full |-> full]]
      <4>2. Set(p, [job[p] EXCEPT !.todo = @ \ {f}, !.time = clock + 1, !.legs = legs])
        BY <4>1
      <4> HIDE DEF legs
      <4>3. QED
        BY <4>2 DEF ProcJob
    <3>3. QED
      BY <2>2, <3>1, <3>2
  <2>3. CASE Publish(p) \/ PublishFails(p) \/ Prune(p)
    BY <2>3 DEF Publish, PublishFails, Prune, Abort
  <2>4. CASE RemoveCache(p) \/ RemoveMeta(p) \/ RemoveManifest(p) \/ RemoveSlot(p)
             \/ RemoveGraph(p)
    BY <2>4 DEF RemoveCache, RemoveMeta, RemoveManifest, RemoveSlot, RemoveGraph, RemoveStep
  <2>5. QED
    BY <1>2, <2>1, <2>2, <2>3, <2>4 DEF BuildStep
<1>3. CASE BuildCacheLoad(p) \/ BuildCacheFill(p)
  BY <1>3 DEF BuildCacheLoad, BuildCacheFill, ProcJob
<1>4. CASE StampStep(p)
  BY <1>4 DEF StampStep, WriteManifest, TruncateMeta, WriteMeta, StampFails
<1>5. CASE PinInput(p) \/ ReplaceGraph(p) \/ GraphFails(p)
  BY <1>5 DEF PinInput, ReplaceGraph, GraphFails, Abort, ProcJob
<1>6. CASE FaceStep(p)
  <2>1. ASSUME NEW rows, GotFace(p, rows) PROVE job'[p].cert \in {job[p].cert, None}
    BY <2>1 DEF GotFace, ProcJob
  <2>2. CASE FaceParse(p) \/ FaceOpen(p) \/ FaceReopen(p) \/ FaceFails(p)
    BY <2>1, <2>2 DEF FaceParse, FaceOpen, FaceReopen, FaceFails
  <2>3. CASE FaceFound(p) \/ FaceCheck(p) \/ FaceSwap(p)
    BY <2>3 DEF FaceFound, FaceCheck, FaceSwap
  <2>4. CASE FaceLoad(p)
    BY <2>4 DEF FaceLoad, ProcJob
  <2>5. CASE FaceFill(p)
    BY <2>5 DEF FaceFill, ProcJob
  <2>6. QED
    BY <1>6, <2>2, <2>3, <2>4, <2>5 DEF FaceStep
<1>7. CASE Crash(p)
  BY <1>7 DEF Crash
<1>8. QED
  BY StepCases, <1>1, <1>2, <1>3, <1>4, <1>5, <1>6, <1>7

\* A build certifies its own published legs; a head-sync what was certified.
LEMMA StampKeysOK ==
    ASSUME TypeOK, PublishInv, CertInv, NEW p \in Procs, BeginStamp(p), StampKeys(p) # None
    PROVE  CertOK(StampKeys(p))
<1>1. CASE p \notin Builders
  BY <1>1 DEF StampKeys, Preserved, CertInv
<1>2. CASE p \in Builders
  <2>1. /\ Certifiable(slot.rows, job[p].a)
        /\ StampKeys(p) = Certificate(slot.rows, job[p].a, job[p].twice)
    BY <1>2 DEF StampKeys
  <2>2. LegsOK(p) /\ slot.rows = job[p].legs
    BY <1>2 DEF BeginStamp, PublishInv, PublishOK
  <2>3. QED
    BY <2>1, <2>2 DEF CertOK, Certifiable, Certificate, LegsOK
<1>3. QED
  BY <1>1, <1>2

LEMMA CertPreserved ==
    ASSUME TypeOK, PublishInv, CertInv, NEW p \in Procs, Step(p)
    PROVE  CertInv'
<1>1. Frame(p)
  BY StepFrame
<1>2. ASSUME NEW q \in Procs, job'[q].cert # None PROVE CertOK(job'[q].cert)
  <2>1. CASE q # p
    BY <1>1, <1>2, <2>1 DEF Frame, CertInv
  <2>2. CASE q = p /\ BeginStamp(p)
    <3>1. job'[p].cert = StampKeys(p)
      BY <2>2 DEF BeginStamp, Set, TypeOK, ProcJob
    <3>2. QED
      BY <1>2, <2>2, <3>1, StampKeysOK
  <2>3. CASE q = p /\ ~BeginStamp(p)
    BY <1>2, <2>3, CertFrame DEF CertInv
  <2>4. QED
    BY <2>1, <2>2, <2>3
<1>3. ASSUME Cert' # None PROVE CertOK(Cert')
  <2>1. CASE meta' = meta
    BY <1>3, <2>1 DEF Cert, Stamp, CertInv
  <2>2. CASE RemoveMeta(p) \/ TruncateMeta(p)
    BY <1>3, <2>2 DEF RemoveMeta, TruncateMeta, Cert, Stamp
  <2>3. CASE WriteMeta(p)
    <3>1. Cert' = job[p].cert
      BY <1>3, <2>3 DEF WriteMeta, Cert, Stamp
    <3>2. QED
      BY <1>3, <3>1 DEF CertInv
  <2>4. QED
    BY <1>1, <2>1, <2>2, <2>3 DEF Frame
<1>4. QED
  BY <1>2, <1>3 DEF CertInv

---------------------------------------------------------------------------
(* The sources since the last publication, and the cache.                  *)

LEMMA SeenPreserved ==
    ASSUME TypeOK, LockInv, SeenInv, NEW p \in Procs, Step(p)
    PROVE  SeenInv'
<1>1. Frame(p)
  BY StepFrame
<1>2. <<src, excluded>>' \in seen'
  BY <1>1 DEF Frame, SeenInv, Publish
<1>3. ASSUME NEW b \in Builders, pc'[b] = "publish" PROVE CapturedSince(b)'
  <2>1. CASE b = p
    <3>1. RecheckLocked(p) /\ p \in Builders
      BY <1>3, <2>1, PublishPath
    <3>2. job'[p].a = job[p].a /\ job'[p].sel = job[p].sel
      BY <3>1 DEF RecheckLocked, Set, TypeOK, ProcJob
    <3>3. job[p].a = CaptureOf(src, excluded, job[p].sel) /\ seen' = seen
      BY <3>1 DEF RecheckLocked, SameCapture, CaptureNow
    <3>4. QED
      BY <2>1, <3>2, <3>3 DEF CapturedSince, CaptureOf, Scope, SeenInv
  <2>2. CASE b # p
    <3>1. pc[b] = "publish" /\ job'[b] = job[b] /\ b \in Procs
      BY <1>1, <1>3, <2>2 DEF Frame, Procs
    <3>2. seen' = seen
      <4>1. lock = b
        BY <3>1 DEF LockInv, Critical, LockedPCs
      <4>2. QED
        BY <1>1, <2>2, <4>1, WriterHoldsLock DEF Frame
    <3>3. QED
      BY <1>3, <3>1, <3>2 DEF SeenInv, CapturedSince, CaptureOf, Scope
  <2>3. QED
    BY <2>1, <2>2
<1>4. QED
  BY <1>2, <1>3 DEF SeenInv

FillPC == {"fill", "bc-fill", "swap"}

\* A fill reads the slot as it is, and keeps what it read.
LEMMA FillPath ==
    ASSUME TypeOK, NEW p \in Procs, Step(p), pc'[p] \in FillPC
    PROVE  \/ pc[p] \in FillPC /\ job'[p].face = job[p].face
           \/ job'[p].face = slot.rows
<1>0. pc \in [Procs -> PC] /\ job \in [Procs -> ProcJob] /\ job[p] \in ProcJob
  BY DEF TypeOK
<1> USE <1>0 DEF Goto, Finish, Set, FillPC
<1>1. CASE StartBuild(p) \/ StartStamp(p) \/ StartGraph(p) \/ StartQuery(p)
           \/ StartBuildCache(p)
  BY <1>1 DEF StartBuild, StartStamp, StartGraph, StartQuery, StartBuildCache
<1>2. CASE BuildStep(p)
  <2>1. CASE GiveUp(p) \/ Recheck(p) \/ Acquire(p) \/ RecheckLocked(p) \/ RejectLocked(p)
    BY <2>1 DEF GiveUp, Recheck, Acquire, RecheckLocked, RejectLocked, Abort, LockedPC
  <2>2. ASSUME NEW f \in Families, SkipLeg(p, f) \/ StageLeg(p, f) PROVE FALSE
    BY <2>2 DEF SkipLeg, StageLeg
  <2>3. CASE Publish(p) \/ PublishFails(p) \/ Prune(p)
    BY <2>3 DEF Publish, PublishFails, Prune, Abort
  <2>4. CASE RemoveCache(p) \/ RemoveMeta(p) \/ RemoveManifest(p) \/ RemoveSlot(p)
             \/ RemoveGraph(p)
    BY <2>4 DEF RemoveCache, RemoveMeta, RemoveManifest, RemoveSlot, RemoveGraph, RemoveStep
  <2>5. QED
    BY <1>2, <2>1, <2>2, <2>3, <2>4 DEF BuildStep
<1>3. CASE BuildCacheLoad(p)
  BY <1>3 DEF BuildCacheLoad, ProcJob
<1>4. CASE BuildCacheFill(p)
  BY <1>4 DEF BuildCacheFill, ProcJob
<1>5. CASE StampStep(p)
  BY <1>5 DEF StampStep, BeginStamp, WriteManifest, TruncateMeta, WriteMeta, StampFails
<1>6. CASE PinInput(p) \/ ReplaceGraph(p) \/ GraphFails(p)
  BY <1>6 DEF PinInput, ReplaceGraph, GraphFails, Abort
<1>7. CASE FaceStep(p)
  <2>1. ASSUME NEW rows, GotFace(p, rows) PROVE FALSE
    BY <2>1 DEF GotFace
  <2>2. CASE FaceParse(p) \/ FaceOpen(p) \/ FaceReopen(p) \/ FaceFails(p)
    BY <2>1, <2>2 DEF FaceParse, FaceOpen, FaceReopen, FaceFails
  <2>3. CASE FaceFound(p) \/ FaceCheck(p) \/ FaceSwap(p)
    BY <2>3 DEF FaceFound, FaceCheck, FaceSwap
  <2>4. CASE FaceLoad(p)
    BY <2>4 DEF FaceLoad, ProcJob
  <2>5. CASE FaceFill(p)
    BY <2>5 DEF FaceFill, ProcJob
  <2>6. QED
    BY <1>7, <2>2, <2>3, <2>4, <2>5 DEF FaceStep
<1>8. CASE Crash(p)
  BY <1>8 DEF Crash
<1>9. QED
  BY StepCases, <1>1, <1>2, <1>3, <1>4, <1>5, <1>6, <1>7, <1>8

LEMMA FillPreserved ==
    ASSUME TypeOK, PublishInv, FillInv, NEW p \in Procs, Step(p)
    PROVE  FillInv'
<1> SUFFICES ASSUME slot' # None, slot'.clean
             PROVE  /\ cache' # None => cache'.rows = slot'.rows
                    /\ \A q \in Filling' : job'[q].face = slot'.rows
  BY DEF FillInv
<1>1. Frame(p)
  BY StepFrame
<1>2. CASE Publish(p)
  BY <1>2 DEF Publish
<1>3. CASE RemoveSlot(p)
  BY <1>3 DEF RemoveSlot
<1>4. CASE p \in Builders /\ Prune(p)
  <2>1. PICK t \in BOOLEAN : t = (Filling = {}) /\ slot' = [slot EXCEPT !.clean = t]
    BY <1>4 DEF Prune
  <2>2. slot \in Slots
    BY <1>4 DEF Prune, PublishInv, PublishOK
  <2>3. slot'.clean = t
    BY <2>1, <2>2 DEF Slots
  <2>4. Filling' = {}
    BY <1>4, <2>1, <2>3 DEF Prune, Goto, Filling, TypeOK
  <2>5. QED
    BY <1>4, <2>4 DEF Prune
<1>5. CASE slot' = slot
  <2>1. /\ cache # None => cache.rows = slot.rows
        /\ \A q \in Filling : job[q].face = slot.rows
    BY <1>5 DEF FillInv
  <2>2. cache' # None => cache'.rows = slot.rows
    <3>1. CASE cache' = cache
      BY <2>1, <3>1
    <3>2. CASE Prune(p) \/ RemoveCache(p)
      BY <3>2 DEF Prune, RemoveCache
    <3>3. CASE FaceSwap(p)
      BY <2>1, <3>3 DEF FaceSwap, Filling
    <3>4. QED
      BY <1>1, <3>1, <3>2, <3>3 DEF Frame
  <2>3. ASSUME NEW q \in Filling' PROVE job'[q].face = slot.rows
    <3>1. q \in Procs /\ pc'[q] \in FillPC
      BY <2>3 DEF Filling, FillPC, Procs
    <3>2. CASE q = p
      BY <2>1, <3>1, <3>2, FillPath DEF Filling, FillPC
    <3>3. CASE q # p
      BY <1>1, <2>1, <3>1, <3>3 DEF Frame, Filling, FillPC
    <3>4. QED
      BY <3>2, <3>3
  <2>4. QED
    BY <1>5, <2>2, <2>3
<1>6. QED
  BY <1>1, <1>2, <1>3, <1>4, <1>5 DEF Frame

---------------------------------------------------------------------------
(* The stamp under way, and the graph.                                     *)

StampingPC == {"manifest", "truncate", "write"}

\* A stamp decides its keys, then writes: nothing else leads there.
LEMMA StampPath ==
    ASSUME TypeOK, NEW p \in Procs, Step(p), pc'[p] \in StampingPC
    PROVE  \/ BeginStamp(p) /\ pc'[p] # "write"
           \/ WriteManifest(p) /\ pc'[p] = "truncate"
           \/ TruncateMeta(p)
<1>0. pc \in [Procs -> PC]
  BY DEF TypeOK
<1> USE <1>0 DEF Goto, Finish, StampingPC
<1>1. CASE StartBuild(p) \/ StartStamp(p) \/ StartGraph(p) \/ StartQuery(p)
           \/ StartBuildCache(p) \/ BuildCacheLoad(p) \/ BuildCacheFill(p)
  BY <1>1 DEF StartBuild, StartStamp, StartGraph, StartQuery, StartBuildCache,
              BuildCacheLoad, BuildCacheFill
<1>2. CASE BuildStep(p)
  <2>1. CASE GiveUp(p) \/ Recheck(p) \/ Acquire(p) \/ RecheckLocked(p) \/ RejectLocked(p)
    BY <2>1 DEF GiveUp, Recheck, Acquire, RecheckLocked, RejectLocked, Abort, LockedPC
  <2>2. ASSUME NEW f \in Families, SkipLeg(p, f) \/ StageLeg(p, f) PROVE FALSE
    BY <2>2 DEF SkipLeg, StageLeg
  <2>3. CASE Publish(p) \/ PublishFails(p) \/ Prune(p)
    BY <2>3 DEF Publish, PublishFails, Prune, Abort
  <2>4. CASE RemoveCache(p) \/ RemoveMeta(p) \/ RemoveManifest(p) \/ RemoveSlot(p)
             \/ RemoveGraph(p)
    BY <2>4 DEF RemoveCache, RemoveMeta, RemoveManifest, RemoveSlot, RemoveGraph, RemoveStep
  <2>5. QED
    BY <1>2, <2>1, <2>2, <2>3, <2>4 DEF BuildStep
<1>3. CASE StampStep(p)
  BY <1>3 DEF StampStep, BeginStamp, WriteManifest, TruncateMeta, WriteMeta, StampFails
<1>4. CASE PinInput(p) \/ ReplaceGraph(p) \/ GraphFails(p)
  BY <1>4 DEF PinInput, ReplaceGraph, GraphFails, Abort
<1>5. CASE FaceStep(p)
  BY <1>5 DEF FaceStep, FaceParse, FaceFound, FaceCheck, FaceOpen, FaceLoad, FaceFill,
              FaceSwap, FaceReopen, FaceFails, GotFace
<1>6. CASE Crash(p)
  BY <1>6 DEF Crash
<1>7. QED
  BY StepCases, <1>1, <1>2, <1>3, <1>4, <1>5, <1>6

\* The keys decided are of the slot in place, a build's from its own capture.
LEMMA StampKeysBound ==
    ASSUME TypeOK, NEW p \in Procs, BeginStamp(p), StampKeys(p) # None
    PROVE  /\ StampKeys(p).hash = slot.rows
           /\ p \in Builders => /\ StampKeys(p).ident = job[p].a.ident
                                /\ StampKeys(p).twice = job[p].twice
  BY DEF StampKeys, Preserved, Certificate

LEMMA StampPreserved ==
    ASSUME TypeOK, LockInv, StampInv, NEW p \in Procs, Step(p)
    PROVE  StampInv'
<1>1. Frame(p)
  BY StepFrame
<1>2. ASSUME NEW q \in Procs, q # p PROVE StampOK(q)'
  <2>1. pc'[q] = pc[q] /\ job'[q] = job[q] /\ StampOK(q)
    BY <1>1, <1>2 DEF Frame, StampInv
  <2>2. CASE pc[q] \in StampingPC
    <3>1. lock = q
      BY <2>2 DEF LockInv, Critical, LockedPCs, StampPC, StampingPC
    <3>2. slot' = slot /\ meta' = meta
      BY <1>1, <1>2, <3>1, WriterHoldsLock DEF Frame
    <3>3. QED
      BY <2>1, <3>2 DEF StampOK
  <2>3. CASE pc[q] \notin StampingPC
    BY <2>1, <2>3 DEF StampOK, StampingPC
  <2>4. QED
    BY <2>2, <2>3
<1>3. StampOK(p)'
  <2>0. job \in [Procs -> ProcJob] /\ StampOK(p)
    BY DEF TypeOK, StampInv
  <2>1. CASE BeginStamp(p) /\ pc'[p] # "write"
    <3>1. /\ job'[p].cert = StampKeys(p) /\ job'[p].a = job[p].a
          /\ job'[p].twice = job[p].twice /\ slot' = slot /\ slot \in Slots
      BY <2>0, <2>1 DEF BeginStamp, Set, ProcJob, files, TypeOK
    <3>2. QED
      BY <2>1, <3>1, StampKeysBound DEF StampOK
  <2>2. CASE WriteManifest(p) /\ pc'[p] = "truncate"
    BY <2>0, <2>2 DEF WriteManifest, StampOK
  <2>3. CASE TruncateMeta(p)
    BY <2>0, <2>3 DEF TruncateMeta, StampOK
  <2>4. CASE pc'[p] \notin StampingPC
    BY <2>4 DEF StampOK, StampingPC
  <2>5. QED
    BY <2>1, <2>2, <2>3, <2>4, StampPath
<1>4. QED
  BY <1>2, <1>3 DEF StampInv

\* Where the face of a graph build comes from: the slot, the cache, or the rows
\* it loaded before.
FaceFrom(p) ==
    \/ slot # None /\ job'[p].face = slot.rows
    \/ cache # None /\ job'[p].face = cache.rows
    \/ pc[p] \in FillPC \cup {"reopen"} /\ job'[p].face = job[p].face

LEMMA FacePath ==
    ASSUME TypeOK, NEW p \in Procs, p \notin Queriers, Step(p),
           pc'[p] \in {"reopen", "replace"}
    PROVE  FaceFrom(p) /\ slot' = slot
<1>0. pc \in [Procs -> PC] /\ job \in [Procs -> ProcJob] /\ job[p] \in ProcJob
  BY DEF TypeOK
<1> USE <1>0 DEF Goto, Finish, Set
<1>1. CASE StartBuild(p) \/ StartStamp(p) \/ StartGraph(p) \/ StartQuery(p)
           \/ StartBuildCache(p)
  BY <1>1 DEF StartBuild, StartStamp, StartGraph, StartQuery, StartBuildCache
<1>2. CASE BuildStep(p)
  <2>1. CASE GiveUp(p) \/ Recheck(p) \/ Acquire(p) \/ RecheckLocked(p) \/ RejectLocked(p)
    BY <2>1 DEF GiveUp, Recheck, Acquire, RecheckLocked, RejectLocked, Abort, LockedPC
  <2>2. ASSUME NEW f \in Families, SkipLeg(p, f) \/ StageLeg(p, f) PROVE FALSE
    BY <2>2 DEF SkipLeg, StageLeg
  <2>3. CASE Publish(p) \/ PublishFails(p) \/ Prune(p)
    BY <2>3 DEF Publish, PublishFails, Prune, Abort
  <2>4. CASE RemoveCache(p) \/ RemoveMeta(p) \/ RemoveManifest(p) \/ RemoveSlot(p)
             \/ RemoveGraph(p)
    BY <2>4 DEF RemoveCache, RemoveMeta, RemoveManifest, RemoveSlot, RemoveGraph, RemoveStep
  <2>5. QED
    BY <1>2, <2>1, <2>2, <2>3, <2>4 DEF BuildStep
<1>3. CASE StampStep(p)
  BY <1>3 DEF StampStep, BeginStamp, WriteManifest, TruncateMeta, WriteMeta, StampFails
<1>4. CASE PinInput(p) \/ ReplaceGraph(p) \/ GraphFails(p)
  BY <1>4 DEF PinInput, ReplaceGraph, GraphFails, Abort
<1>5. CASE FaceStep(p)
  <2>1. ASSUME NEW rows, GotFace(p, rows) PROVE job'[p].face = rows
    BY <2>1 DEF GotFace, ProcJob
  <2>2. CASE FaceParse(p)
    BY <2>1, <2>2 DEF FaceParse, FaceFrom, files
  <2>7. CASE FaceOpen(p)
    <3>1. job'[p].face = IF cache # None THEN cache.rows ELSE slot.rows
      BY <2>1, <2>7 DEF FaceOpen
    <3>2. QED
      BY <2>7, <3>1 DEF FaceOpen, FaceFrom, files
  <2>8. CASE FaceReopen(p)
    <3>1. job'[p].face = IF cache # None THEN cache.rows ELSE job[p].face
      BY <2>1, <2>8 DEF FaceReopen
    <3>2. QED
      BY <2>8, <3>1 DEF FaceReopen, FaceFrom, files
  <2>3. CASE FaceFails(p)
    BY <2>1, <2>3 DEF FaceFails, FaceFrom, FillPC, files
  <2>4. CASE FaceFound(p) \/ FaceCheck(p) \/ FaceLoad(p) \/ FaceFill(p)
    BY <2>4 DEF FaceFound, FaceCheck, FaceLoad, FaceFill
  <2>5. CASE FaceSwap(p)
    BY <2>5 DEF FaceSwap, FaceFrom, FillPC
  <2>6. QED
    BY <1>5, <2>2, <2>3, <2>4, <2>5, <2>7, <2>8 DEF FaceStep
<1>6. CASE Crash(p)
  BY <1>6 DEF Crash
<1>7. QED
  BY StepCases, <1>1, <1>2, <1>3, <1>4, <1>5, <1>6

\* A graph build holds the lock from its pin on: no publication takes the slot
\* from under the rows it has read.
LEMMA FacePreserved ==
    ASSUME TypeOK, LockInv, FillInv, GraphInv, NEW p \in Procs, Step(p),
           NEW q \in Procs \ Queriers
    PROVE  FaceOK(q)'
<1>1. Frame(p) /\ FaceOK(q)
  BY StepFrame DEF GraphInv
<1> SUFFICES ASSUME pc'[q] \in {"reopen", "replace"}, slot' # None, slot'.clean
             PROVE  job'[q].face = slot'.rows
  BY DEF FaceOK
<1>2. CASE q # p
  <2>1. pc'[q] = pc[q] /\ job'[q] = job[q]
    BY <1>1, <1>2 DEF Frame
  <2>2. lock = q
    BY <2>1 DEF LockInv, Critical, LockedPCs, GraphPC, FacePC
  <2>3. slot' = slot
    BY <1>1, <1>2, <2>2, WriterHoldsLock DEF Frame
  <2>4. QED
    BY <1>1, <2>1, <2>3 DEF FaceOK
<1>3. CASE q = p
  <2>1. FaceFrom(p) /\ slot' = slot
    BY <1>3, FacePath
  <2>2. /\ cache # None => cache.rows = slot.rows
        /\ pc[p] \in FillPC => job[p].face = slot.rows
    BY <2>1 DEF FillInv, Filling, FillPC
  <2>3. QED
    BY <1>1, <1>3, <2>1, <2>2 DEF FaceFrom, FaceOK
<1>4. QED
  BY <1>2, <1>3

LEMMA GraphPreserved ==
    ASSUME TypeOK, LockInv, PublishInv, FillInv, GraphInv, NEW p \in Procs, Step(p)
    PROVE  GraphInv'
<1>1. Frame(p) /\ clock \in Nat
  BY StepFrame DEF TypeOK
<1>2. ASSUME NEW q \in Procs \ Queriers PROVE FaceOK(q)'
  BY <1>2, FacePreserved
<1>3. graph' # None => graph'.mtime <= clock'
  <2>1. CASE ReplaceGraph(p)
    BY <1>1, <2>1 DEF ReplaceGraph
  <2>2. CASE RemoveGraph(p)
    BY <2>2 DEF RemoveGraph
  <2>3. CASE graph' = graph
    <3>1. graph # None => graph.mtime \in Nat /\ graph.mtime <= clock
      BY DEF GraphInv, TypeOK
    <3>2. QED
      BY <1>1, <2>3, <3>1 DEF Frame
  <2>4. QED
    BY <1>1, <2>1, <2>2, <2>3 DEF Frame
<1>4. ASSUME slot' # None, graph' # None, ~slot'.overtaken
      PROVE  graph'.input = slot'.rows \/ graph'.mtime < slot'.mtime
  <2>1. CASE Publish(p)
    <3>1. graph' = graph /\ graph.mtime <= clock /\ graph.mtime \in Nat
      BY <1>4, <2>1 DEF Publish, GraphInv, TypeOK
    <3>2. CASE Cardinality(Staged(p)) = 1
      <4> DEFINE late == graph # None /\ graph.mtime >= job[p].time
      <4>1. slot' = [rows |-> job[p].legs, mtime |-> job[p].time, clean |-> FALSE,
                     overtaken |-> late]
        BY <2>1, <3>2 DEF Publish
      <4>2. slot'.overtaken = late /\ slot'.mtime = job[p].time
        <5> HIDE DEF late
        <5> QED BY <4>1
      <4>3. job[p].time \in Nat
        BY DEF TypeOK, ProcJob
      <4>4. ~ (graph.mtime >= job[p].time)
        BY <1>4, <3>1, <4>2
      <4>5. QED
        BY <3>1, <4>2, <4>3, <4>4
    <3>3. CASE Cardinality(Staged(p)) # 1
      <4>1. slot' = [rows |-> job[p].legs, mtime |-> clock + 1, clean |-> FALSE,
                     overtaken |-> FALSE]
        BY <2>1, <3>3 DEF Publish
      <4>2. QED
        BY <1>1, <3>1, <4>1
    <3>4. QED
      BY <3>2, <3>3
  <2>2. CASE p \in Builders /\ Prune(p)
    <3>1. PICK t \in BOOLEAN : slot' = [slot EXCEPT !.clean = t]
      BY <2>2 DEF Prune
    <3>2. slot \in Slots /\ slot # None
      BY <2>2, FilesAssumption DEF Prune, PublishInv, PublishOK
    <3>3. slot'.rows = slot.rows /\ slot'.mtime = slot.mtime
          /\ slot'.overtaken = slot.overtaken
      BY <3>1, <3>2 DEF Slots
    <3>4. QED
      BY <1>4, <2>2, <3>2, <3>3 DEF Prune, GraphInv
  <2>3. CASE RemoveSlot(p) \/ RemoveGraph(p)
    BY <1>4, <2>3 DEF RemoveSlot, RemoveGraph
  <2>4. CASE ReplaceGraph(p)
    BY <2>4 DEF ReplaceGraph, ProvenanceHolds
  <2>5. CASE slot' = slot /\ graph' = graph
    BY <1>4, <2>5 DEF GraphInv
  <2>6. QED
    BY <1>1, <2>1, <2>2, <2>3, <2>4, <2>5 DEF Frame, Publish, Prune
<1>5. QED
  BY <1>2, <1>3, <1>4 DEF GraphInv

---------------------------------------------------------------------------
(* The theorems.                                                           *)

LEMMA InitCertification == Init => CertificationInv
<1> SUFFICES ASSUME Init PROVE CertificationInv  OBVIOUS
<1>1. TypeOK
  BY TypeInit
<1>2. /\ pc = [p \in Procs |-> "idle"] /\ job = [p \in Procs |-> NoJob]
      /\ seen = {<<src, excluded>>} /\ src \in [Families -> Contents] /\ excluded = {}
      /\ NeverBuilt \/ LastBuildFinished
  BY DEF Init
<1>3. LockInv
  BY <1>2 DEF LockInv, Critical, LockedPCs, StampPC, GraphPC, FacePC, CachePC
<1>4. StagingInv /\ PublishInv
  BY <1>2 DEF StagingInv, StagingOK, PublishInv, PublishOK, Procs
<1>5. \A p \in Procs : job[p].cert = None
  BY <1>2 DEF NoJob
<1>6. Cert # None => CertOK(Cert)
  <2>1. CASE NeverBuilt
    BY <2>1 DEF NeverBuilt, Cert, Stamp
  <2>2. CASE LastBuildFinished
    <3> DEFINE rows == [f \in Families |-> [of |-> src[f], full |-> TRUE]]
               cert == Certificate(rows, CaptureNow(AutoSel), {})
    <3>1. Cert \in {cert, None}
      BY <2>2 DEF LastBuildFinished, Cert, Stamp
    <3>2. ASSUME NEW f \in Families
          PROVE  /\ cert.hash[f] = [of |-> src[f], full |-> TRUE]
                 /\ cert.ident[f] = src[f]
      BY <1>2, CaptureIdent DEF Certificate, Scope
    <3> HIDE DEF cert
    <3>3. ASSUME NEW f \in Families
          PROVE  /\ cert.hash[f] # None /\ cert.ident[f] # None
                 /\ cert.hash[f].full /\ cert.hash[f].of = cert.ident[f]
      <4>1. src[f] \in Contents
        BY <1>2
      <4>2. [of |-> src[f], full |-> TRUE] \in [of : Contents, full : BOOLEAN]
        BY <4>1
      <4>3. [of |-> src[f], full |-> TRUE] # None /\ src[f] # None
        BY <4>1, <4>2, SentinelAssumption
      <4>4. cert.hash[f] = [of |-> src[f], full |-> TRUE] /\ cert.ident[f] = src[f]
        BY <3>2
      <4>5. cert.hash[f].full /\ cert.hash[f].of = src[f]
        BY <4>4
      <4>6. QED
        BY <4>3, <4>4, <4>5
    <3>4. CertOK(cert)
      BY <3>3 DEF CertOK
    <3>5. QED
      BY <3>1, <3>4
  <2>3. QED
    BY <1>2, <2>1, <2>2
<1>7. SeenInv
  BY <1>2 DEF SeenInv, Procs
<1>8. LocalsInv
  BY <1>2 DEF LocalsInv, Carried
<1>9. FillInv
  <2>1. Filling = {}
    BY <1>2 DEF Filling
  <2>2. slot # None /\ cache # None => cache.rows = slot.rows
    <3>1. CASE NeverBuilt
      BY <3>1 DEF NeverBuilt
    <3>2. CASE LastBuildFinished
      <4>1. PICK rows :
              /\ slot = [rows |-> rows, mtime |-> 0, clean |-> TRUE, overtaken |-> FALSE]
              /\ cache \in {None, [rows |-> rows, head |-> head, mtime |-> 0]}
        BY <3>2 DEF LastBuildFinished
      <4>2. QED
        BY <4>1
    <3>3. QED
      BY <1>2, <3>1, <3>2
  <2>3. QED
    BY <2>1, <2>2 DEF FillInv
<1>10. StampInv
  BY <1>2 DEF StampInv, StampOK
<1>11. GraphInv
  <2>1. \A p \in Procs \ Queriers : FaceOK(p)
    BY <1>2 DEF FaceOK
  <2>2. CASE NeverBuilt
    BY <2>1, <2>2 DEF NeverBuilt, GraphInv
  <2>3. CASE LastBuildFinished
    <3>1. PICK rows :
            /\ slot = [rows |-> rows, mtime |-> 0, clean |-> TRUE, overtaken |-> FALSE]
            /\ graph = [rows |-> rows, input |-> rows, mtime |-> 0]
      BY <2>3 DEF LastBuildFinished
    <3>2. clock = 0
      BY DEF Init
    <3>3. QED
      BY <2>1, <3>1, <3>2 DEF GraphInv
  <2>4. QED
    BY <1>2, <2>2, <2>3
<1>12. QED
  BY <1>1, <1>3, <1>4, <1>5, <1>6, <1>7, <1>8, <1>9, <1>10, <1>11
  DEF CertificationInv, CertInv

\* Edits, profile changes and commits age what builds know and touch no file.
LEMMA WorldCertification ==
    ASSUME CertificationInv, World
    PROVE  CertificationInv' \/ \E p \in Procs : Crash(p)
<1> SUFFICES ASSUME ~ \E p \in Procs : Crash(p) PROVE CertificationInv'
  OBVIOUS
<1> USE DEF CertificationInv
<1>1. TypeOK'
  BY WorldTypes
<1>2. UNCHANGED <<pc, job, lock, slot, meta, cache, graph, clock>>
  BY WorldFrame
<1>3. LockInv' /\ LocalsInv' /\ FillInv' /\ CertInv' /\ StampInv' /\ GraphInv'
  BY <1>2 DEF LockInv, Critical, LocalsInv, Carried, FillInv, Filling, CertInv, Cert, Stamp,
              StampInv, StampOK, GraphInv, FaceOK
<1>4. PublishInv'
  BY <1>2 DEF PublishInv, PublishOK, LegsOK
<1>5. StagingInv'
  <2>1. CASE \E f \in Families : Edit(f) \/ ProfileChange(f)
    BY <2>1, ChangeAges DEF StagingInv
  <2>2. CASE Commit
    BY <2>2, StagingFrame DEF Commit, StagingInv
  <2>3. QED
    BY <2>1, <2>2 DEF World
<1>6. SeenInv'
  <2>1. <<src, excluded>>' \in seen' /\ seen \subseteq seen'
    BY DEF World, Edit, ProfileChange, Commit, SeenInv
  <2>2. ASSUME NEW b \in Builders, pc'[b] = "publish" PROVE CapturedSince(b)'
    BY <1>2, <2>1, <2>2 DEF SeenInv, CapturedSince, CaptureOf, Scope
  <2>3. QED
    BY <2>1, <2>2 DEF SeenInv
<1>7. QED
  BY <1>1, <1>3, <1>4, <1>5, <1>6

LEMMA StepCertification ==
    ASSUME CertificationInv, Next
    PROVE  CertificationInv'
<1> USE DEF CertificationInv
<1>1. ASSUME NEW p \in Procs, Step(p) PROVE CertificationInv'
  <2>1. TypeOK'
    BY <1>1, NextTypes DEF Step, Next, World
  <2>2. QED
    BY <1>1, <2>1, LockPreserved, StagingPreserved, PublishPreserved, CertPreserved,
       SeenPreserved, LocalsPreserved, FillPreserved, StampPreserved, GraphPreserved
<1>2. QED
  BY <1>1, WorldCertification DEF Next, Step

\* Whatever is edited, committed or killed, and however builds, stamps, graph
\* builds and queries interleave: the inductive invariant.
THEOREM Certification == Spec => []CertificationInv
<1>1. Init => CertificationInv
  BY InitCertification
<1>2. CertificationInv /\ [Next]_vars => CertificationInv'
  <2> SUFFICES ASSUME CertificationInv, [Next]_vars PROVE CertificationInv'
    OBVIOUS
  <2>1. CASE Next
    BY <2>1, StepCertification
  <2>2. CASE UNCHANGED vars
    <3>1. TypeOK' /\ LockInv' /\ PublishInv'
      BY <2>2 DEF vars, CertificationInv, TypeOK, LockInv, Critical, PublishInv, PublishOK,
                  LegsOK
    <3>2. StagingInv'
      BY <2>2, StagingFrame DEF vars, CertificationInv, StagingInv
    <3>3. CertInv' /\ LocalsInv' /\ FillInv' /\ StampInv' /\ GraphInv'
      BY <2>2 DEF vars, CertificationInv, CertInv, Cert, Stamp, LocalsInv, Carried, FillInv,
                  Filling, StampInv, StampOK, GraphInv, FaceOK
    <3>4. SeenInv'
      BY <2>2 DEF vars, CertificationInv, SeenInv, CapturedSince, CaptureOf, Scope
    <3>5. QED
      BY <3>1, <3>2, <3>3, <3>4 DEF CertificationInv
  <2>3. QED
    BY <2>1, <2>2
<1>3. QED
  BY <1>1, <1>2, PTL DEF Spec

\* Every variable keeps its type.
THEOREM TypeCorrect == Spec => []TypeOK
  BY Certification, PTL DEF CertificationInv

\* What freshness promises on any number of families, processes and edits: a
\* certified slot judged fresh serves the source on disk, whole, but for the
\* families edited away and back while their producer ran.
THEOREM FreshIsCurrent == Spec => []FreshMeansCurrent
<1>1. CertificationInv => FreshMeansCurrent
  <2> SUFFICES ASSUME CertificationInv, Certified, ~NeedsRebuild,
                      NEW f \in EvalScope \ excluded
               PROVE  /\ slot.rows[f] # None /\ slot.rows[f].full
                      /\ slot.rows[f].of = src[f] \/ f \in Cert.twice
    BY DEF FreshMeansCurrent
  <2>1. f \in Families
    BY DEF EvalScope
  <2>2. Cert.ident[f] = src[f] /\ Cert.hash = slot.rows
    BY <2>1 DEF NeedsRebuild, IdentityDrift
  <2>3. src[f] # None
    BY <2>1, SentinelAssumption DEF CertificationInv, TypeOK
  <2>4. CertOK(Cert)
    BY DEF Certified, CertificationInv, CertInv
  <2>5. QED
    BY <2>1, <2>2, <2>3, <2>4 DEF CertOK
<1>2. QED
  BY <1>1, Certification, PTL

\* Every publication is of a source that was on disk since the previous one.
THEOREM NoOverwrite == Spec => NoStaleOverwrite
<1>1. CertificationInv /\ [Next]_vars =>
        [\A b \in Builders : Publish(b) =>
            \E s \in seen : job[b].a = CaptureOf(s[1], s[2], job[b].sel)]_vars
  BY DEF CertificationInv, SeenInv, CapturedSince, Publish
<1>2. QED
  BY <1>1, Certification, PTL DEF Spec, NoStaleOverwrite

\* The cache beside a slot pruned with no fill under way holds that slot's rows.
THEOREM CacheIsTruthful == Spec => []CacheTruthful
<1>1. CertificationInv => CacheTruthful
  BY DEF CertificationInv, FillInv, CacheTruthful
<1>2. QED
  BY <1>1, Certification, PTL

\* A graph put beside a slot whose prune met no fill holds that slot's rows,
\* whichever way its face was opened and whatever died or was edited meanwhile.
THEOREM GraphsAreProven == Spec => GraphProvenance
<1>1. ASSUME CertificationInv, NEW p \in Builders \cup Graphers, ReplaceGraph(p), slot.clean
      PROVE  graph'.rows = graph'.input
  <2>1. p \in Procs \ Queriers
    BY RolesAssumption DEF Procs
  <2>2. FaceOK(p) /\ pc[p] = "replace" /\ slot # None /\ slot.rows = job[p].pin
    BY <1>1, <2>1 DEF CertificationInv, GraphInv, ReplaceGraph, ProvenanceHolds
  <2>3. QED
    BY <1>1, <2>2 DEF FaceOK, ReplaceGraph
<1>2. CertificationInv =>
        [\A p \in Builders \cup Graphers :
            ReplaceGraph(p) /\ slot.clean => graph'.rows = graph'.input]_vars
  BY <1>1
<1>3. QED
  BY <1>2, Certification, PTL DEF GraphProvenance

\* A graph left behind by a build that died or failed is seen to lag, unless
\* another graph was finished while the single part of the slot waited.
THEOREM TornIsDetected == Spec => []TornPlaneDetected
<1>1. CertificationInv => TornPlaneDetected
  BY DEF CertificationInv, GraphInv, TornPlaneDetected, NeedsRebuild, GraphLags, Certified
<1>2. QED
  BY <1>1, Certification, PTL

---------------------------------------------------------------------------
(* DataPlane implements CertifiedSlot for every set of families, contents  *)
(* and processes: the initial states map to initial states, and every step *)
(* of a process or of the world maps to a step of the promise or to none.  *)

\* What the promise sees of the index.
Index == IF slot = None THEN None ELSE slot.rows
Recent == {Governed(s) : s \in seen}

---------------------------------------------------------------------------
(* The capture of the one build between its publication and its stamp.     *)

\* The lock leaves at most one such build.
LEMMA OneUnstamped ==
    ASSUME LockInv, NEW b \in Builders, b \in Unstamped
    PROVE  /\ Unstamped = {b}
           /\ Pending = [ident |-> job[b].a.ident, twice |-> job[b].twice]
<1>1. ASSUME NEW c \in Unstamped PROVE lock = c
  BY DEF Unstamped, LockInv, Critical, LockedPCs, StampPC, Procs
<1>2. Unstamped = {b}
  BY <1>1
<1>3. (CHOOSE c \in Unstamped : TRUE) = b
  BY <1>2
<1>4. QED
  BY <1>2, <1>3 DEF Pending

\* Whoever else holds the lock, no publication is pending.
LEMMA NonePending ==
    ASSUME LockInv, NEW p \in Procs, lock = p, p \notin Unstamped
    PROVE  Unstamped = {} /\ Pending = None
<1>1. Unstamped = {}
  BY DEF Unstamped, LockInv, Critical, LockedPCs, StampPC, Procs
<1>2. QED
  BY <1>1 DEF Pending

\* A step that leaves the builds at their side of the stamp keeps the capture.
LEMMA PendingKept ==
    ASSUME NEW p \in Procs, Frame(p), (p \in Unstamped)' <=> p \in Unstamped,
           p \in Unstamped => job'[p].a = job[p].a /\ job'[p].twice = job[p].twice
    PROVE  Pending' = Pending
<1>1. Unstamped' = Unstamped
  BY DEF Unstamped, Frame, Procs
<1>2. CASE Unstamped = {}
  BY <1>1, <1>2 DEF Pending
<1>3. CASE Unstamped # {}
  <2>1. PICK b : b = CHOOSE c \in Unstamped : TRUE
    OBVIOUS
  <2>2. b \in Unstamped /\ b \in Procs
    BY <1>3, <2>1 DEF Unstamped, Procs
  <2>3. job'[b].a = job[b].a /\ job'[b].twice = job[b].twice
    BY <2>2 DEF Frame
  <2>4. /\ Pending = [ident |-> job[b].a.ident, twice |-> job[b].twice]
        /\ Pending' = [ident |-> job'[b].a.ident, twice |-> job'[b].twice]
    BY <1>1, <1>3, <2>1 DEF Pending
  <2>5. QED
    BY <2>3, <2>4
<1>4. QED
  BY <1>2, <1>3

\* Steps in or out of it: a publication, the end of a stamp, a death.
KeepsPending(p) ==
    /\ (p \in Unstamped)' <=> p \in Unstamped
    /\ p \in Unstamped => job'[p].a = job[p].a /\ job'[p].twice = job[p].twice

LEMMA UnstampedPath ==
    ASSUME TypeOK, NEW p \in Procs, Step(p),
           ~ (p \in Builders /\ Publish(p)), ~ WriteMeta(p), ~ StampFails(p), ~ Crash(p)
    PROVE  KeepsPending(p)
<1>0. pc \in [Procs -> PC] /\ job \in [Procs -> ProcJob] /\ job[p] \in ProcJob
  BY DEF TypeOK
<1> USE <1>0 DEF Goto, Finish, Set, KeepsPending, Unstamped, StampPC
<1>1. CASE StartBuild(p) \/ StartQuery(p) \/ StartBuildCache(p)
  BY <1>1 DEF StartBuild, StartQuery, StartBuildCache, Start
<1>2. CASE (p \in Stampers /\ StartStamp(p)) \/ (p \in Graphers /\ StartGraph(p))
  BY <1>2, RolesAssumption DEF StartStamp, StartGraph, Start
<1>3. CASE p \in Builders /\ BuildStep(p)
  <2>1. CASE GiveUp(p) \/ Recheck(p) \/ Acquire(p) \/ RecheckLocked(p) \/ RejectLocked(p)
    BY <2>1 DEF GiveUp, Recheck, Acquire, RecheckLocked, RejectLocked, Abort, LockedPC
  <2>2. ASSUME NEW f \in Families, SkipLeg(p, f) \/ StageLeg(p, f) PROVE KeepsPending(p)
    BY <2>2 DEF SkipLeg, StageLeg
  <2>3. CASE PublishFails(p) \/ Prune(p)
    BY <2>3 DEF PublishFails, Prune, Abort
  <2>4. CASE RemoveCache(p) \/ RemoveMeta(p) \/ RemoveManifest(p) \/ RemoveSlot(p)
             \/ RemoveGraph(p)
    BY <2>4 DEF RemoveCache, RemoveMeta, RemoveManifest, RemoveSlot, RemoveGraph, RemoveStep
  <2>5. QED
    BY <1>3, <2>1, <2>2, <2>3, <2>4 DEF BuildStep
<1>4. CASE BuildCacheLoad(p) \/ BuildCacheFill(p)
  BY <1>4 DEF BuildCacheLoad, BuildCacheFill
<1>5. CASE BeginStamp(p)
  BY <1>5 DEF BeginStamp, ProcJob
<1>6. CASE WriteManifest(p) \/ TruncateMeta(p)
  BY <1>6 DEF WriteManifest, TruncateMeta
<1>7. CASE PinInput(p) \/ ReplaceGraph(p) \/ GraphFails(p)
  BY <1>7 DEF PinInput, ReplaceGraph, GraphFails, Abort
<1>8. CASE FaceStep(p)
  BY <1>8 DEF FaceStep, FaceParse, FaceFound, FaceCheck, FaceOpen, FaceLoad, FaceFill,
              FaceSwap, FaceReopen, FaceFails, GotFace
<1>9. QED
  BY StepCases, <1>1, <1>2, <1>3, <1>4, <1>5, <1>6, <1>7, <1>8 DEF StampStep

---------------------------------------------------------------------------
(* Every step is a step of the promise, or none.                           *)

\* What a step that publishes nothing leaves of the promise's state.
LEMMA QuietFrame ==
    ASSUME NEW p \in Procs, Frame(p), ~ (p \in Builders /\ Publish(p))
    PROVE  Governed(<<src, excluded>>)' = Governed(<<src, excluded>>) /\ Recent' = Recent
  BY DEF Frame, Governed, Recent

\* The certificate a stamp is about to write is true of the index in place.
LEMMA StampTrue ==
    ASSUME CertificationInv, NEW p \in Procs, WriteMeta(p), job[p].cert # None
    PROVE  /\ Index # None /\ job[p].cert \in Certificates
           /\ Promise!True(job[p].cert)
<1>1. /\ slot \in Slots /\ job[p].cert.hash = slot.rows /\ CertOK(job[p].cert)
      /\ job[p].cert \in Certificates
  BY DEF CertificationInv, StampInv, StampOK, WriteMeta, CertInv, TypeOK, ProcJob
<1>2. slot # None /\ slot.rows \in Rows /\ slot.rows # None
  BY <1>1, FilesAssumption DEF Slots
<1>3. Index = slot.rows
  BY <1>2 DEF Index
<1>4. QED
  BY <1>1, <1>2, <1>3 DEF CertOK, Promise!True, Promise!MadeFrom, Promise!Whole, Index

\* Publication: rows of the legs, made from the capture that is now pending.
LEMMA PublishRefines ==
    ASSUME CertificationInv, CertificationInv', NEW p \in Builders, Publish(p)
    PROVE  Promise!Publish
<1> USE DEF CertificationInv
<1>0. p \in Procs /\ job[p] \in ProcJob /\ pc[p] = "publish" /\ job' = job
  BY DEF Procs, TypeOK, Publish
<1>1. Pending = None
  BY <1>0, NonePending DEF Unstamped, StampPC, LockInv, Critical, LockedPCs
<1>2. p \in Unstamped'
  BY DEF Publish, Goto, Unstamped, TypeOK, Procs
<1>3. Pending' = [ident |-> job[p].a.ident, twice |-> job[p].twice]
  <2>1. ASSUME NEW c \in Unstamped' PROVE c = p
    BY <1>0, <1>2 DEF Unstamped, LockInv, Critical, LockedPCs, StampPC, Procs
  <2>2. Unstamped' = {p}
    BY <1>2, <2>1
  <2>3. (CHOOSE c \in Unstamped' : TRUE) = p
    BY <2>2
  <2>4. QED
    BY <1>0, <2>2, <2>3 DEF Pending
<1>4. PICK s \in seen : job[p].a = CaptureOf(s[1], s[2], job[p].sel)
  BY <1>0 DEF SeenInv, CapturedSince
<1>5. Pending' \in Promise!Captures
  <2> DEFINE asked == Scope(job[p].sel) \cap Families
  <2>1. job[p].a.ident = [f \in Families |-> IF f \in asked THEN Governed(s)[f] ELSE None]
    BY <1>4 DEF CaptureOf, Governed
  <2>2. Governed(s) \in Recent /\ asked \in SUBSET Families
    BY DEF Recent
  <2>3. job[p].twice \in SUBSET Families
    BY <1>0 DEF ProcJob
  <2> HIDE DEF asked
  <2>4. QED
    BY <1>3, <2>1, <2>2, <2>3 DEF Promise!Captures, Recent
<1>6. PICK time \in {job[p].time, clock + 1}, late \in BOOLEAN :
         slot' = [rows |-> job[p].legs, mtime |-> time, clean |-> FALSE,
                  overtaken |-> late]
  BY PublishedSlot
<1>7. slot' # None /\ slot'.rows = job[p].legs
  <2>1. slot' \in Slots
    BY <1>0, <1>2 DEF PublishInv, PublishOK, Publish, Goto, TypeOK
  <2>2. QED
    BY <1>6, <2>1, FilesAssumption
<1>8. Index' \in Promise!Rows /\ Promise!MadeFrom(Index', Pending')
  <2>1. Index' = job[p].legs /\ job[p].legs \in Rows
    BY <1>0, <1>7, FilesAssumption DEF Index, ProcJob
  <2>2. \A f \in Families : job[p].legs[f] # None =>
           job[p].legs[f].of = Pending'.ident[f] \/ f \in Pending'.twice
    BY <1>0, <1>3 DEF PublishInv, PublishOK, LegsOK
  <2>3. QED
    BY <2>1, <2>2 DEF Promise!Rows, Promise!MadeFrom, Rows, Leg
<1>9. /\ Recent' = {Governed(<<src, excluded>>)}
      /\ Governed(<<src, excluded>>)' = Governed(<<src, excluded>>)
      /\ Cert' = Cert
  BY DEF Publish, Recent, Governed, world, Cert, Stamp
<1>10. QED
  BY <1>1, <1>5, <1>8, <1>9 DEF Promise!Publish, Index, Recent

\* The sidecar written: a certificate of the index in place, or none.
LEMMA WriteMetaRefines ==
    ASSUME CertificationInv, CertificationInv', NEW p \in Procs, Step(p), WriteMeta(p)
    PROVE  [Promise!Next]_(Promise!vars)
<1> USE DEF CertificationInv
<1>0. pc[p] = "write" /\ meta = Torn /\ lock = p
  BY DEF WriteMeta, StampInv, StampOK, LockInv, Critical, LockedPCs, StampPC
<1>1. /\ Governed(<<src, excluded>>)' = Governed(<<src, excluded>>)
      /\ Recent' = Recent /\ Index' = Index
  BY QuietFrame, StepFrame DEF WriteMeta, Publish, Index
<1>2. Cert = None
  BY <1>0 DEF Cert, Stamp
<1>3. Cert' = job[p].cert
  <2>1. meta' \in Stamps
    BY DEF WriteMeta, StampInv, TypeOK, ProcJob, LocalsInv, Carried, Stamps
  <2>2. meta' # Torn /\ meta' # None
    BY <2>1, FilesAssumption
  <2>3. QED
    BY <2>2 DEF Cert, Stamp, WriteMeta
<1>4. Unstamped' = {}
  <2>1. p \notin Unstamped'
    BY DEF WriteMeta, Goto, Finish, Unstamped, StampPC, TypeOK, Procs
  <2>2. ASSUME NEW q \in Unstamped', q # p PROVE FALSE
    BY <1>0, <2>2, StepFrame DEF Frame, Unstamped, LockInv, Critical, LockedPCs, StampPC, Procs
  <2>3. QED
    BY <2>1, <2>2
<1>5. Pending' = None
  BY <1>4 DEF Pending
<1>6. CASE job[p].cert = None
  <2>1. Promise!Settle
    BY <1>1, <1>2, <1>3, <1>5, <1>6 DEF Promise!Settle, Index, Recent
  <2>2. QED
    BY <2>1 DEF Promise!Next
<1>7. CASE job[p].cert # None
  <2>1. Index # None /\ job[p].cert \in Certificates /\ Promise!True(job[p].cert)
    BY <1>7, StampTrue
  <2>2. Pending # None => Cert'.ident = Pending.ident /\ Cert'.twice = Pending.twice
    <3>1. CASE p \in Builders
      <4>1. Pending = [ident |-> job[p].a.ident, twice |-> job[p].twice]
        BY <1>0, <3>1, OneUnstamped DEF Unstamped, StampPC
      <4>2. job[p].cert.ident = job[p].a.ident /\ job[p].cert.twice = job[p].twice
        BY <1>0, <1>7, <3>1 DEF StampInv, StampOK
      <4>3. QED
        BY <1>3, <4>1, <4>2
    <3>2. CASE p \notin Builders
      BY <1>0, <3>2, NonePending DEF Unstamped
    <3>3. QED
      BY <3>1, <3>2
  <2>3. Cert' \in {c \in Promise!Certificates : Promise!True(c)}
    BY <1>3, <2>1 DEF Promise!Certificates, Certificates, Promise!Ident, Ident, Promise!Rows,
                      Rows, Leg
  <2>4. Promise!Vouch
    BY <1>1, <1>5, <2>1, <2>2, <2>3 DEF Promise!Vouch, Index, Recent
  <2>5. QED
    BY <2>4 DEF Promise!Next
<1>8. QED
  BY <1>6, <1>7

\* Every other step of a process withdraws the certificate, settles a publication,
\* removes the index, or shows nothing.
LEMMA StepRefines ==
    ASSUME CertificationInv, CertificationInv', NEW p \in Procs, Step(p)
    PROVE  [Promise!Next]_(Promise!vars)
<1> USE DEF CertificationInv
<1>0. Frame(p)
  BY StepFrame
<1>1. CASE p \in Builders /\ Publish(p)
  BY <1>1, PublishRefines DEF Promise!Next
<1>2. CASE WriteMeta(p)
  BY <1>2, WriteMetaRefines
<1>3. CASE StampFails(p) \/ Crash(p)
  <2>1. UNCHANGED <<src, excluded, seen, slot, meta>>
    BY <1>3 DEF StampFails, Crash, world, files
  <2>2. /\ Governed(<<src, excluded>>)' = Governed(<<src, excluded>>)
        /\ Recent' = Recent /\ Index' = Index /\ Cert' = Cert
    BY <2>1 DEF Governed, Recent, Index, Cert, Stamp
  <2>3. Pending' \in {Pending, None}
    <3>1. p \notin Unstamped'
      BY <1>3 DEF StampFails, Crash, Goto, Finish, Unstamped, StampPC, TypeOK, Procs
    <3>2. CASE p \in Unstamped
      <4>1. Unstamped = {p}
        BY <3>2, OneUnstamped DEF Unstamped
      <4>2. Unstamped' = {}
        BY <1>0, <3>1, <4>1 DEF Frame, Unstamped, Procs
      <4>3. QED
        BY <4>2 DEF Pending
    <3>3. CASE p \notin Unstamped
      BY <1>0, <3>1, <3>3, PendingKept
    <3>4. QED
      BY <3>2, <3>3
  <2>4. CASE Pending' = None
    BY <2>2, <2>4 DEF Promise!Next, Promise!Settle, Index, Recent
  <2>5. CASE Pending' = Pending
    BY <2>2, <2>5 DEF Promise!vars, Index, Recent
  <2>6. QED
    BY <2>3, <2>4, <2>5
<1>4. CASE ~ ((p \in Builders /\ Publish(p)) \/ WriteMeta(p) \/ StampFails(p) \/ Crash(p))
  <2>1. Governed(<<src, excluded>>)' = Governed(<<src, excluded>>) /\ Recent' = Recent
    BY <1>0, <1>4, QuietFrame
  <2>2. Pending' = Pending
    BY <1>0, <1>4, UnstampedPath, PendingKept DEF KeepsPending
  <2>3. CASE RemoveMeta(p) \/ TruncateMeta(p)
    <3>1. Cert' = None /\ Index' = Index
      BY <2>3 DEF RemoveMeta, TruncateMeta, Cert, Stamp, Index
    <3>2. QED
      BY <2>1, <2>2, <3>1 DEF Promise!Next, Promise!Withdraw, Index, Recent
  <2>4. CASE ~ (RemoveMeta(p) \/ TruncateMeta(p)) /\ RemoveSlot(p)
    <3>1. Cert' = Cert /\ Index' = None
      BY <2>4 DEF RemoveSlot, Cert, Stamp, Index
    <3>2. lock = p /\ p \notin Unstamped
      BY <2>4 DEF RemoveSlot, RemoveStep, LockInv, Critical, LockedPCs, Unstamped, StampPC
    <3>3. Pending = None
      BY <3>2, NonePending
    <3>4. QED
      BY <2>1, <2>2, <3>1, <3>3 DEF Promise!Next, Promise!Remove, Index, Recent
  <2>5. CASE ~ (RemoveMeta(p) \/ TruncateMeta(p)) /\ ~ RemoveSlot(p)
    <3>1. meta' = meta /\ (slot' = slot \/ (p \in Builders /\ Prune(p)))
      BY <1>0, <1>4, <2>5 DEF Frame
    <3>2. Cert' = Cert
      BY <3>1 DEF Cert, Stamp
    <3>3. Index' = Index
      <4>1. CASE slot' = slot
        BY <4>1 DEF Index
      <4>2. CASE p \in Builders /\ Prune(p)
        <5>1. PICK t \in BOOLEAN : slot' = [slot EXCEPT !.clean = t]
          BY <4>2 DEF Prune
        <5>2. slot \in Slots
          BY <4>2 DEF Prune, PublishInv, PublishOK
        <5>3. slot'.rows = slot.rows /\ slot' \in Slots
          BY <5>1, <5>2 DEF Slots
        <5>4. QED
          BY <5>2, <5>3, FilesAssumption DEF Index
      <4>3. QED
        BY <3>1, <4>1, <4>2
    <3>4. QED
      BY <2>1, <2>2, <3>2, <3>3 DEF Promise!vars, Index, Recent
  <2>6. QED
    BY <2>3, <2>4, <2>5
<1>5. QED
  BY <1>1, <1>2, <1>3, <1>4

\* Edits, profile changes and commits move the source or nothing.
LEMMA WorldRefines ==
    ASSUME CertificationInv, World, ~ \E p \in Procs : Crash(p)
    PROVE  [Promise!Next]_(Promise!vars)
<1>1. UNCHANGED <<pc, job, slot, meta>>
  BY WorldFrame
<1>2. Index' = Index /\ Cert' = Cert /\ Pending' = Pending
  BY <1>1 DEF Index, Cert, Stamp, Pending, Unstamped
<1>3. CASE \E f \in Families : Edit(f) \/ ProfileChange(f)
  <2>1. seen' = seen \cup {<<src', excluded'>>}
    BY <1>3 DEF Edit, ProfileChange
  <2>2. Recent' = Recent \cup {Governed(<<src', excluded'>>)}
    BY <2>1 DEF Recent, Governed
  <2>3. src' \in [Families -> Contents]
    BY WorldTypes DEF CertificationInv, TypeOK
  <2>4. Governed(<<src', excluded'>>) \in Ident
    BY <2>3 DEF Governed, Ident
  <2>5. Promise!SourceMoves
    BY <1>2, <2>2, <2>4 DEF Promise!SourceMoves, Promise!Ident, Ident, Governed, Index, Recent
  <2>6. QED
    BY <2>5 DEF Promise!Next
<1>4. CASE Commit
  <2>1. src' = src /\ excluded' = excluded /\ seen' = seen
    BY <1>4 DEF Commit
  <2>2. QED
    BY <1>2, <2>1 DEF Promise!vars, Governed, Index, Recent
<1>5. QED
  BY <1>3, <1>4 DEF World

LEMMA InitRefines == Init => Promise!Init
<1> SUFFICES ASSUME Init PROVE Promise!Init  OBVIOUS
<1>1. /\ src \in [Families -> Contents] /\ excluded = {} /\ seen = {<<src, excluded>>}
      /\ pc = [p \in Procs |-> "idle"]
      /\ NeverBuilt \/ LastBuildFinished
  BY DEF Init
<1>2. /\ Governed(<<src, excluded>>) \in Ident
      /\ Recent = {Governed(<<src, excluded>>)}
  BY <1>1 DEF Governed, Ident, Recent
<1>3. Pending = None
  <2>1. ASSUME NEW b \in Builders PROVE pc[b] = "idle"
    <3>1. b \in Procs
      BY DEF Procs
    <3>2. QED
      BY <1>1, <3>1
  <2>2. Unstamped = {}
    BY <2>1 DEF Unstamped, StampPC
  <2>3. QED
    BY <2>2 DEF Pending
<1>4. (Index = None /\ Cert = None) \/
      (Index \in Rows /\ Cert \in {c \in Promise!Certificates :
                                     Promise!True(c) /\ c.ident = Governed(<<src, excluded>>)})
  <2>1. CASE NeverBuilt
    BY <2>1 DEF NeverBuilt, Index, Cert, Stamp
  <2>2. CASE LastBuildFinished
    <3> DEFINE rows == [f \in Families |-> [of |-> src[f], full |-> TRUE]]
               cert == Certificate(rows, CaptureNow(AutoSel), {})
               stamp == [head |-> head, sel |-> AutoSel, cert |-> cert]
    <3>1. rows \in Rows /\ CaptureNow(AutoSel).ident \in Ident
      BY <1>1, CaptureType DEF Rows, Leg, Capture
    <3>2. cert \in Certificates
      BY <3>1 DEF Certificate, Certificates
    <3>3. CaptureNow(AutoSel).ident = Governed(<<src, excluded>>)
      BY <1>1 DEF CaptureNow, CaptureOf, Scope, Governed
    <3>4. slot # None /\ slot.rows = rows
      <4>1. slot = [rows |-> rows, mtime |-> 0, clean |-> TRUE, overtaken |-> FALSE]
        BY <2>2 DEF LastBuildFinished
      <4> HIDE DEF rows
      <4>2. slot \in Slots
        BY <3>1, <4>1 DEF Slots
      <4>3. QED
        BY <4>1, <4>2, FilesAssumption
    <3>5. Index = rows
      BY <3>4 DEF Index
    <3>6. Cert = cert
      <4>1. meta = stamp
        BY <2>2 DEF LastBuildFinished
      <4>2. stamp \in Stamps /\ stamp.cert = cert
        <5> HIDE DEF cert
        <5> QED BY <1>1, <3>2 DEF Stamps, Init
      <4> HIDE DEF stamp, cert
      <4>3. QED
        BY <4>1, <4>2, FilesAssumption DEF Cert, Stamp
    <3>7. cert.hash = rows /\ cert.ident = Governed(<<src, excluded>>) /\ cert.twice = {}
      BY <3>3 DEF Certificate
    <3>8. ASSUME NEW f \in Families
          PROVE  /\ rows[f] # None /\ rows[f].full /\ rows[f].of = src[f]
                 /\ cert.ident[f] = src[f] /\ src[f] # None
      <4>1. src[f] \in Contents
        BY <1>1
      <4>2. [of |-> src[f], full |-> TRUE] \in [of : Contents, full : BOOLEAN]
        BY <4>1
      <4>3. rows[f] = [of |-> src[f], full |-> TRUE]
        OBVIOUS
      <4>4. cert.ident[f] = src[f]
        BY <1>1, <3>7 DEF Governed
      <4> HIDE DEF rows, cert
      <4>5. rows[f] # None /\ src[f] # None
        BY <4>1, <4>2, <4>3, SentinelAssumption
      <4>6. rows[f].full /\ rows[f].of = src[f]
        BY <4>3
      <4>7. QED
        BY <4>4, <4>5, <4>6
    <3> HIDE DEF rows, cert, stamp
    <3>9. Promise!True(cert)
      BY <3>5, <3>7, <3>8 DEF Promise!True, Promise!MadeFrom, Promise!Whole, Index
    <3>10. QED
      BY <3>1, <3>2, <3>5, <3>6, <3>7, <3>9
      DEF Promise!Certificates, Certificates, Promise!Ident, Ident, Promise!Rows, Rows, Leg
  <2>3. QED
    BY <1>1, <2>1, <2>2
<1>5. Promise!Ident = Ident /\ Promise!Rows = Rows
  BY DEF Promise!Ident, Ident, Promise!Rows, Rows, Leg
<1>6. /\ Index = IF slot = None THEN None ELSE slot.rows
      /\ Recent = {Governed(s) : s \in seen}
  BY DEF Index, Recent
<1>7. QED
  BY <1>2, <1>3, <1>4, <1>5, <1>6 DEF Promise!Init

\* Whatever builds, head-syncs, graph builds, queries, edits and deaths do to the
\* files, the index they keep is the one CertifiedSlot promises.
THEOREM Refinement == Spec => CertifiedSlot
<1>1. Init => Promise!Init
  BY InitRefines
<1>2. CertificationInv /\ CertificationInv' /\ [Next]_vars => [Promise!Next]_(Promise!vars)
  <2> SUFFICES ASSUME CertificationInv, CertificationInv', [Next]_vars
               PROVE  [Promise!Next]_(Promise!vars)
    OBVIOUS
  <2>1. ASSUME NEW p \in Procs, Step(p) PROVE [Promise!Next]_(Promise!vars)
    BY <2>1, StepRefines
  <2>2. CASE World
    BY <2>1, <2>2, WorldRefines DEF Step
  <2>3. CASE UNCHANGED vars
    BY <2>3 DEF vars, Promise!vars, Governed, Cert, Stamp, Pending, Unstamped
  <2>4. QED
    BY <2>1, <2>2, <2>3 DEF Next, Step
<1>3. QED
  BY <1>1, <1>2, Certification, PTL DEF Spec, CertifiedSlot, Promise!Spec

=============================================================================
