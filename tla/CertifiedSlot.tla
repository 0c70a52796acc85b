--------------------------- MODULE CertifiedSlot ---------------------------
(***************************************************************************)
(* What the published index promises, whatever processes keep it: one      *)
(* publication at a time replaces it, by rows made from a source seen      *)
(* since the previous one, and a certificate is only ever given to the     *)
(* bytes in place, by the capture they were published with or as it was.   *)
(***************************************************************************)
CONSTANTS Families, Contents, None

VARIABLES
    source,   \* the governed content of each family on disk
    recent,   \* the sources since the last publication
    index,    \* the rows of the index, or None
    cert,     \* the certificate beside it, or None
    pending   \* the capture of a publication not stamped yet, or None

vars == <<source, recent, index, cert, pending>>

Ident == [Families -> Contents \cup {None}]
Rows  == [Families -> [of : Contents, full : BOOLEAN] \cup {None}]
Certificates == [ident : Ident, hash : Rows, twice : SUBSET Families]

\* A capture sees a source of the recent ones, for some of the families.
Captures ==
    [ident : {[f \in Families |-> IF f \in asked THEN s[f] ELSE None] :
                s \in recent, asked \in SUBSET Families},
     twice : SUBSET Families]

\* Rows are those of the capture but for the families edited away and back.
MadeFrom(rows, c) ==
    \A f \in Families : rows[f] # None => rows[f].of = c.ident[f] \/ f \in c.twice

Whole(rows, c) ==
    \A f \in Families : /\ (rows[f] = None) = (c.ident[f] = None)
                        /\ rows[f] # None => rows[f].full

True(c) == c.hash = index /\ MadeFrom(index, c) /\ Whole(index, c)

Init ==
    /\ source \in Ident /\ recent = {source} /\ pending = None
    /\ \/ index = None /\ cert = None
       \/ /\ index \in Rows
          /\ cert \in {c \in Certificates : True(c) /\ c.ident = source}

SourceMoves ==
    /\ source' \in Ident /\ recent' = recent \cup {source'}
    /\ UNCHANGED <<index, cert, pending>>

Publish ==
    /\ pending = None /\ pending' \in Captures
    /\ index' \in {rows \in Rows : MadeFrom(rows, pending')}
    /\ recent' = {source}
    /\ UNCHANGED <<source, cert>>

\* The stamp of a publication, or of a head-sync that keeps the certificate.
Vouch ==
    /\ index # None
    /\ cert' \in {c \in Certificates : True(c)}
    /\ pending # None => cert'.ident = pending.ident /\ cert'.twice = pending.twice
    /\ pending' = None
    /\ UNCHANGED <<source, recent, index>>

Withdraw == cert' = None /\ UNCHANGED <<source, recent, index, pending>>

\* A publication that could not be certified, or died before its stamp.
Settle == pending' = None /\ UNCHANGED <<source, recent, index, cert>>

Remove == pending = None /\ index' = None /\ UNCHANGED <<source, recent, cert, pending>>

Next == SourceMoves \/ Publish \/ Vouch \/ Withdraw \/ Settle \/ Remove

Spec == Init /\ [][Next]_vars
=============================================================================
