-------------------------- MODULE DataPlaneRefines --------------------------
(***************************************************************************)
(* DataPlane implements CertifiedSlot: the processes, their steps, the     *)
(* lock, the caches and the graph are hidden, the slot and what vouches    *)
(* for it remain.                                                          *)
(***************************************************************************)
EXTENDS DataPlaneInv

Governed(s) == [f \in Families |-> IF f \in s[2] THEN None ELSE s[1][f]]

\* The builds between their publication and their stamp: one, by the lock.
Unstamped == {b \in Builders : pc[b] \in {"prune"} \cup StampPC}

Pending ==
    IF Unstamped = {} THEN None
    ELSE LET b == CHOOSE b \in Unstamped : TRUE
         IN  [ident |-> job[b].a.ident, twice |-> job[b].twice]

Promise == INSTANCE CertifiedSlot WITH
    source  <- Governed(<<src, excluded>>),
    recent  <- {Governed(s) : s \in seen},
    index   <- IF slot = None THEN None ELSE slot.rows,
    cert    <- Cert,
    pending <- Pending

\* Whatever builds, head-syncs, graph builds, edits and deaths do to the files,
\* the index keeps its promise: it is replaced by one publication at a time,
\* never by rows of a source older than the previous publication, and only the
\* bytes in place are certified, by the capture they were published with.
CertifiedSlot == Promise!Spec
=============================================================================
