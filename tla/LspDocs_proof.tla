---------------------------- MODULE LspDocs_proof ----------------------------
(***************************************************************************)
(* Proofs about LspDocs, for any callers, files, capacity and bounds: the  *)
(* bridge and the server agree on what is open, a stamp vouches for what   *)
(* was sent, an edit is not rolled back, and a check reports on what the   *)
(* file held while it ran.                                                 *)
(***************************************************************************)
EXTENDS LspDocs, SequenceTheorems, TLAPS

Docs == [content : Nat, version : Nat, opened : Nat, pushed : BOOLEAN]
Pushes == [file : Files, version : Nat \cup {None}, content : Nat \cup {None}, opened : Nat]
Caches == [version : Nat \cup {None}, content : Nat \cup {None}, opened : Nat, after : Nat]
Calls == [op : {"none", "edit", "check"}, file : Files \cup {None}, text : Nat \cup {None},
          stamp : Nat \cup {None}, basis : Nat, version : Nat, from : Nat,
          entry : Entries \cup {None}, reissued : BOOLEAN]

---------------------------------------------------------------------------
(* Sequences.                                                              *)

\* An element moved to the back.
LEMMA MovedBack ==
  ASSUME NEW S, NEW s \in Seq(S), NEW p \in 1 .. Len(s)
  PROVE  /\ Append(RemoveAt(s, p), s[p]) \in Seq(S)
         /\ Len(Append(RemoveAt(s, p), s[p])) = Len(s)
         /\ \A i \in 1 .. Len(s) : Append(RemoveAt(s, p), s[p])[i] =
                                     IF i < p THEN s[i] ELSE IF i < Len(s) THEN s[i + 1] ELSE s[p]
<1> DEFINE n == Len(s)
           a == SubSeq(s, 1, p - 1)
           b == SubSeq(s, p + 1, n)
           t == a \o b
<1>1. n \in Nat /\ p \in Nat /\ 1 <= p /\ p <= n /\ \A i \in 1 .. n : s[i] \in S
  BY LenProperties, ElementOfSeq
<1>2. a \in Seq(S) /\ Len(a) = p - 1 /\ \A i \in 1 .. p - 1 : a[i] = s[i]
  <2>1. \A i \in 1 .. p - 1 : s[i] \in S
    BY <1>1
  <2>2. /\ a \in Seq(S) /\ Len(a) = IF 1 <= p - 1 THEN (p - 1) - 1 + 1 ELSE 0
        /\ \A i \in 1 .. (p - 1) - 1 + 1 : a[i] = s[1 + i - 1]
    BY <1>1, <2>1, SubSeqProperties
  <2> QED
    BY <1>1, <2>2
<1>3. b \in Seq(S) /\ Len(b) = n - p /\ \A i \in 1 .. n - p : b[i] = s[p + i]
  <2>1. \A i \in p + 1 .. n : s[i] \in S
    BY <1>1
  <2>2. /\ b \in Seq(S) /\ Len(b) = IF p + 1 <= n THEN n - (p + 1) + 1 ELSE 0
        /\ \A i \in 1 .. n - (p + 1) + 1 : b[i] = s[(p + 1) + i - 1]
    BY <1>1, <2>1, SubSeqProperties
  <2> QED
    BY <1>1, <2>2
<1> HIDE DEF a, b
<1>4. /\ t \in Seq(S) /\ Len(t) = n - 1
      /\ \A i \in 1 .. n - 1 : t[i] = IF i < p THEN s[i] ELSE s[i + 1]
  <2>1. /\ t \in Seq(S) /\ Len(t) = Len(a) + Len(b)
        /\ \A i \in 1 .. Len(a) + Len(b) : t[i] = IF i <= Len(a) THEN a[i] ELSE b[i - Len(a)]
    BY <1>2, <1>3, ConcatProperties
  <2>2. ASSUME NEW i \in 1 .. n - 1 PROVE t[i] = IF i < p THEN s[i] ELSE s[i + 1]
    <3>1. i \in 1 .. Len(a) + Len(b) /\ (i <= Len(a) <=> i < p)
      BY <1>1, <1>2, <1>3
    <3>2. CASE i < p
      BY <1>1, <1>2, <2>1, <3>1, <3>2
    <3>3. CASE ~(i < p)
      <4>1. t[i] = b[i - (p - 1)] /\ i - (p - 1) \in 1 .. n - p
        BY <1>1, <1>2, <2>1, <3>1, <3>3
      <4>2. p + (i - (p - 1)) = i + 1
        BY <1>1
      <4> QED
        BY <1>3, <3>3, <4>1, <4>2
    <3> QED
      BY <3>2, <3>3
  <2> QED
    BY <1>1, <1>2, <1>3, <2>1, <2>2
<1>5. RemoveAt(s, p) = t
  BY DEF RemoveAt, a, b
<1> HIDE DEF t, n
<1>6. /\ Append(t, s[p]) \in Seq(S) /\ Len(Append(t, s[p])) = Len(t) + 1
      /\ \A i \in 1 .. Len(t) : Append(t, s[p])[i] = t[i]
      /\ Append(t, s[p])[Len(t) + 1] = s[p]
  BY <1>1, <1>4, AppendProperties
<1>7. ASSUME NEW i \in 1 .. n
      PROVE  Append(t, s[p])[i] = IF i < p THEN s[i] ELSE IF i < n THEN s[i + 1] ELSE s[p]
  <2> DEFINE u == Append(t, s[p])
  <2>1. Len(t) = n - 1 /\ (\A k \in 1 .. n - 1 : u[k] = t[k]) /\ u[n] = s[p]
    BY <1>1, <1>4, <1>6
  <2> SUFFICES u[i] = IF i < p THEN s[i] ELSE IF i < n THEN s[i + 1] ELSE s[p]
    BY DEF u
  <2> HIDE DEF u
  <2>2. CASE i < n
    <3>1. i \in 1 .. n - 1
      BY <1>1, <2>2
    <3> QED
      BY <1>4, <2>1, <2>2, <3>1
  <2>3. CASE i = n
    <3>1. ~(i < p) /\ ~(i < n)
      BY <1>1, <2>3
    <3> QED
      BY <2>1, <2>3, <3>1
  <2>4. i < n \/ i = n
    BY <1>1
  <2> QED
    BY <2>2, <2>3, <2>4
<1> QED
  BY <1>1, <1>4, <1>5, <1>6, <1>7 DEF n

LEMMA ContainsFacts ==
  ASSUME NEW S, NEW s \in Seq(S)
  PROVE  /\ \A x : Contains(s, x) <=> \E i \in 1 .. Len(s) : s[i] = x
         /\ IsInjective(s) <=> \A i, k \in 1 .. Len(s) : s[i] = s[k] => i = k
BY LenProperties DEF Contains, IsInjective

LEMMA AppendFacts ==
  ASSUME NEW S, NEW s \in Seq(S), NEW e \in S
  PROVE  /\ Append(s, e) \in Seq(S) /\ Len(Append(s, e)) = Len(s) + 1 /\ Append(s, e) # <<>>
         /\ Last(Append(s, e)) = e /\ Len(s) \in Nat
         /\ \A i \in 1 .. Len(s) : Append(s, e)[i] = s[i]
         /\ \A x : Contains(Append(s, e), x) <=> Contains(s, x) \/ x = e
         /\ IsInjective(s) /\ ~Contains(s, e) => IsInjective(Append(s, e))
<1> DEFINE t == Append(s, e)
           n == Len(s)
<1>1. t \in Seq(S) /\ Len(t) = n + 1 /\ t # <<>> /\ t[n + 1] = e /\ n \in Nat /\ \A i \in 1 .. n : t[i] = s[i]
  BY AppendProperties, LenProperties
<1>2. \A x : Contains(s, x) <=> \E i \in 1 .. n : s[i] = x
  BY ContainsFacts
<1> HIDE DEF t
<1>3. \A x : Contains(t, x) <=> \E i \in 1 .. n + 1 : t[i] = x
  <2>1. \A x : Contains(t, x) <=> \E i \in 1 .. Len(t) : t[i] = x
    BY <1>1, ContainsFacts
  <2> QED
    BY <1>1, <2>1
<1>4. IsInjective(s) <=> \A i, k \in 1 .. n : s[i] = s[k] => i = k
  BY ContainsFacts
<1>5. IsInjective(t) <=> \A i, k \in 1 .. n + 1 : t[i] = t[k] => i = k
  BY <1>1, ContainsFacts
<1> HIDE DEF t, n
<1>6. \A x : Contains(t, x) <=> Contains(s, x) \/ x = e
  BY <1>1, <1>2, <1>3
<1>7. IsInjective(s) /\ ~Contains(s, e) => IsInjective(t)
  <2> SUFFICES ASSUME IsInjective(s), ~Contains(s, e), NEW i \in 1 .. n + 1, NEW k \in 1 .. n + 1, t[i] = t[k]
               PROVE  i = k
    BY <1>5
  <2>1. CASE i \in 1 .. n /\ k \in 1 .. n
    BY <1>1, <1>4, <2>1
  <2>2. CASE i = n + 1 /\ k \in 1 .. n
    BY <1>1, <1>2, <2>2
  <2>3. CASE k = n + 1 /\ i \in 1 .. n
    BY <1>1, <1>2, <2>3
  <2> QED
    BY <1>1, <2>1, <2>2, <2>3
<1>8. Last(t) = e
  BY <1>1 DEF Last
<1> QED
  BY <1>1, <1>6, <1>7, <1>8 DEF t, n

LEMMA TailFacts ==
  ASSUME NEW S, NEW s \in Seq(S), s # <<>>
  PROVE  /\ Head(s) \in S /\ Tail(s) \in Seq(S) /\ Contains(s, Head(s))
         /\ \A i \in 1 .. Len(Tail(s)) : i + 1 \in 1 .. Len(s) /\ Tail(s)[i] = s[i + 1]
         /\ \A x : Contains(Tail(s), x) => Contains(s, x)
         /\ IsInjective(s) => /\ IsInjective(Tail(s))
                              /\ \A x : Contains(Tail(s), x) <=> Contains(s, x) /\ x # Head(s)
<1> DEFINE t == Tail(s)
           n == Len(s)
<1>1. /\ Head(s) \in S /\ t \in Seq(S) /\ Len(t) = n - 1 /\ \A i \in 1 .. Len(t) : t[i] = s[i + 1]
      /\ n \in Nat \ {0} /\ Head(s) = s[1]
  BY HeadTailProperties, EmptySeq, LenProperties
<1>2. \A x : Contains(s, x) <=> \E i \in 1 .. n : s[i] = x
  BY ContainsFacts
<1> HIDE DEF t
<1>3. \A x : Contains(t, x) <=> \E i \in 1 .. n - 1 : t[i] = x
  <2>1. \A x : Contains(t, x) <=> \E i \in 1 .. Len(t) : t[i] = x
    BY <1>1, ContainsFacts
  <2> QED
    BY <1>1, <2>1
<1>4. IsInjective(s) <=> \A i, k \in 1 .. n : s[i] = s[k] => i = k
  BY ContainsFacts
<1>5. IsInjective(t) <=> \A i, k \in 1 .. n - 1 : t[i] = t[k] => i = k
  BY <1>1, ContainsFacts
<1> HIDE DEF t, n
<1>6. Contains(s, Head(s))
  BY <1>1, <1>2
<1>7. \A i \in 1 .. n - 1 : i + 1 \in 1 .. n /\ t[i] = s[i + 1]
  BY <1>1
<1>8. \A x : Contains(t, x) => Contains(s, x)
  BY <1>2, <1>3, <1>7
<1>9. ASSUME IsInjective(s) PROVE IsInjective(t) /\ \A x : Contains(t, x) <=> Contains(s, x) /\ x # Head(s)
  <2>1. IsInjective(t)
    BY <1>1, <1>4, <1>5, <1>7, <1>9
  <2>2. ~Contains(t, Head(s))
    BY <1>1, <1>3, <1>4, <1>7, <1>9
  <2>3. ASSUME NEW x, Contains(s, x), x # Head(s) PROVE Contains(t, x)
    <3>1. PICK i \in 1 .. n : s[i] = x
      BY <1>2, <2>3
    <3>2. i - 1 \in 1 .. n - 1 /\ (i - 1) + 1 = i
      BY <1>1, <2>3, <3>1
    <3> QED
      BY <1>3, <1>7, <3>1, <3>2
  <2> QED
    BY <1>8, <2>1, <2>2, <2>3
<1> QED
  BY <1>1, <1>6, <1>7, <1>8, <1>9 DEF t, n

\* The file that was used last goes to the back, and the same files are open.
LEMMA TouchedFacts ==
  ASSUME openFiles \in Seq(Files), IsInjective(openFiles), NEW f \in Files
  PROVE  /\ Touched(f) \in Seq(Files) /\ IsInjective(Touched(f))
         /\ \A g : Contains(Touched(f), g) <=> Contains(openFiles, g)
<1>1. CASE ~Contains(openFiles, f)
  BY <1>1 DEF Touched
<1>2. CASE Contains(openFiles, f)
  <2> DEFINE s == openFiles
             n == Len(s)
             p == CHOOSE i \in 1 .. Len(openFiles) : openFiles[i] = f
             u == Append(RemoveAt(s, p), f)
             to(i) == IF i < p THEN i ELSE IF i < n THEN i + 1 ELSE p
             back(i) == IF i < p THEN i ELSE IF i = p THEN n ELSE i - 1
  <2>1. p \in 1 .. n /\ s[p] = f
    <3>1. \E i \in 1 .. Len(openFiles) : openFiles[i] = f
      BY <1>2 DEF Contains
    <3> QED
      BY <3>1
  <2>2. Touched(f) = u
    BY <1>2 DEF Touched
  <2>3. n \in Nat
    BY LenProperties
  <2> HIDE DEF p
  <2>4. u \in Seq(Files) /\ Len(u) = n /\ \A i \in 1 .. n : u[i] = s[to(i)]
    BY <2>1, <2>3, MovedBack
  <2>5. /\ \A i \in 1 .. n : to(i) \in 1 .. n /\ back(i) \in 1 .. n /\ to(back(i)) = i
        /\ \A i, k \in 1 .. n : to(i) = to(k) => i = k
    BY <2>1, <2>3
  <2>6. \A i, k \in 1 .. n : s[i] = s[k] => i = k
    BY ContainsFacts
  <2>7. \A g : Contains(s, g) <=> \E i \in 1 .. n : s[i] = g
    BY ContainsFacts
  <2> HIDE DEF u, s, n, to, back
  <2>8. \A g : Contains(u, g) <=> \E i \in 1 .. n : u[i] = g
    <3>1. \A g : Contains(u, g) <=> \E i \in 1 .. Len(u) : u[i] = g
      BY <2>4, ContainsFacts
    <3> QED
      BY <2>4, <3>1
  <2>9. IsInjective(u)
    <3>1. IsInjective(u) <=> \A i, k \in 1 .. Len(u) : u[i] = u[k] => i = k
      BY <2>4, ContainsFacts
    <3>2. ASSUME NEW i \in 1 .. n, NEW k \in 1 .. n, u[i] = u[k] PROVE i = k
      <4>1. to(i) \in 1 .. n /\ to(k) \in 1 .. n /\ s[to(i)] = s[to(k)]
        BY <2>4, <2>5, <3>2
      <4>2. to(i) = to(k)
        BY <2>6, <4>1
      <4> QED
        BY <2>5, <4>2
    <3> QED
      BY <2>4, <3>1, <3>2
  <2>10. \A g : Contains(u, g) <=> Contains(s, g)
    <3>1. ASSUME NEW g, NEW i \in 1 .. n, u[i] = g PROVE Contains(s, g)
      BY <2>4, <2>5, <2>7, <3>1
    <3>2. ASSUME NEW g, NEW i \in 1 .. n, s[i] = g PROVE Contains(u, g)
      <4>1. back(i) \in 1 .. n /\ u[back(i)] = s[to(back(i))] /\ to(back(i)) = i
        BY <2>4, <2>5
      <4> QED
        BY <2>8, <3>2, <4>1
    <3> QED
      BY <2>7, <2>8, <3>1, <3>2
  <2> QED
    BY <2>2, <2>4, <2>9, <2>10 DEF s
<1> QED
  BY <1>1, <1>2
---------------------------------------------------------------------------
(* What every state has: types, who holds the mutexes, and what a call     *)
(* knows at its place.                                                     *)

DocsTypes == LspTypeOK /\ wire \in Seq(Pushes)
LocksInv ==
  \A c \in Callers : /\ pc[c] \in Syncing => lock.overlay = c
                     /\ pc[c] \in Syncing \cup {"overlay"} => lock.open = c

\* What the next step of c reads of the bridge and of its own locals is there.
Ready(c) ==
  LET f == File(c) IN
  /\ pc[c] # "idle" => f \in Files
  /\ pc[c] \notin {"idle", "sync", "overlay", "open"} => overlay[f] # None
  /\ pc[c] = "open" => overlay[f] = None /\ call[c].text \in Nat
  /\ pc[c] = "reread" => call[c].stamp \in Nat /\ call[c].stamp # overlay[f].stamp
  /\ pc[c] = "replay" => ~Contains(openFiles, f)
  /\ pc[c] \in {"reopen", "insert"} => call[c].entry # None
ReadyInv == \A c \in Callers : Ready(c)

\* An open file has an overlay, whose content is the last one recorded.
KnownInv ==
  \A f \in Files :
    /\ Contains(openFiles, f) => overlay[f] # None
    /\ IF overlay[f] = None THEN past[f] = <<>>
       ELSE overlay[f].version > 0 /\ past[f] # <<>> /\ Last(past[f]) = overlay[f].content
Base == DocsTypes /\ LocksInv /\ ReadyInv /\ KnownInv

LEMMA NoneFacts ==
  /\ None \notin Callers /\ None \notin Nat /\ None \notin Files /\ None \notin Entries
  /\ None \notin Docs /\ None \notin Caches
BY LspAssumption, LspSentinelAssumption DEF Entries, Docs, Caches

LEMMA CallFields ==
  ASSUME NEW j \in Calls
  PROVE  /\ j.op \in {"none", "edit", "check"} /\ j.file \in Files \cup {None} /\ j.text \in Nat \cup {None}
         /\ j.stamp \in Nat \cup {None} /\ j.basis \in Nat /\ j.version \in Nat /\ j.from \in Nat
         /\ j.entry \in Entries \cup {None}
         /\ \A x \in Nat : [j EXCEPT !.text = x] \in Calls /\ [j EXCEPT !.stamp = x] \in Calls
                           /\ [j EXCEPT !.basis = x] \in Calls
         /\ \A x \in Nat : [j EXCEPT !.text = None, !.stamp = None, !.basis = x] \in Calls
         /\ \A x, y \in Nat : [j EXCEPT !.version = x, !.from = y] \in Calls
         /\ \A x \in Entries : [j EXCEPT !.entry = x] \in Calls
         /\ [j EXCEPT !.version = 1, !.reissued = TRUE, !.entry = None] \in Calls
BY DEF Calls

LEMMA NoCallFacts ==
  /\ NoCall \in Calls /\ NoCall.file = None /\ NoCall.entry = None
  /\ \A op \in {"edit", "check"}, f \in Files :
       /\ [NoCall EXCEPT !.op = op, !.file = f] \in Calls
       /\ [NoCall EXCEPT !.op = op, !.file = f].file = f
BY DEF NoCall, Calls

LEMMA Typed ==
  ASSUME DocsTypes
  PROVE  /\ \A c \in Callers : pc[c] \in PC /\ call[c] \in Calls
         /\ openFiles \in Seq(Files) /\ IsInjective(openFiles) /\ wire \in Seq(Pushes)
         /\ \A f \in Files : /\ disk[f] \in Nat /\ made[f] \in Nat /\ clock[f] \in Nat
                             /\ past[f] \in Seq(Nat)
                             /\ overlay[f] # None => overlay[f] \in Entries
                             /\ server[f] # None => server[f] \in Docs
                             /\ diags[f] # None => diags[f] \in Caches
BY DEF DocsTypes, LspTypeOK, Calls, Docs, Caches

\* The overlay of a file after a record, and its contents.
RecordedAs(f, content, v, stamp, at) ==
         /\ overlay' \in [Files -> Entries \cup {None}] /\ past' \in [Files -> Seq(Nat)]
         /\ overlay'[f] = [content |-> content, version |-> v, stamp |-> stamp, mutated |-> at]
         /\ overlay'[f] # None /\ overlay'[f].content = content /\ overlay'[f].version = v
         /\ overlay'[f].stamp = stamp
         /\ \A g \in Files : g # f => overlay'[g] = overlay[g] /\ past'[g] = past[g]
         /\ past'[f] # <<>> /\ Last(past'[f]) = content
         /\ Len(past[f]) <= Len(past'[f]) /\ \A i \in 1 .. Len(past[f]) : past'[f][i] = past[f][i]
         /\ \A x : Contains(past'[f], x) <=> Contains(past[f], x) \/ x = content
         /\ IsInjective(past[f]) /\ (~Contains(past[f], content) \/ (past[f] # <<>> /\ Last(past[f]) = content)) =>
              IsInjective(past'[f])
         /\ past[f] # <<>> /\ Last(past[f]) = content => past'[f] = past[f]

LEMMA Recorded ==
  ASSUME DocsTypes, KnownInv, NEW f \in Files, NEW content \in Nat, NEW v \in Nat, NEW stamp \in Nat, NEW at \in Nat,
         Record(f, content, v, stamp, at)
  PROVE  RecordedAs(f, content, v, stamp, at)
<1> DEFINE e == [content |-> content, version |-> v, stamp |-> stamp, mutated |-> at]
           h == IF past[f] # <<>> /\ Last(past[f]) = content THEN past[f] ELSE Append(past[f], content)
<1>1. e \in Entries /\ e # None
  BY NoneFacts DEF Entries
<1>2. past[f] \in Seq(Nat) /\ past \in [Files -> Seq(Nat)] /\ overlay \in [Files -> Entries \cup {None}]
  BY DEF DocsTypes, LspTypeOK
<1>3. overlay' = [overlay EXCEPT ![f] = e] /\ past' = [past EXCEPT ![f] = h]
  BY DEF Record
<1>4. Len(past[f]) \in Nat /\ (past[f] # <<>> => Len(past[f]) > 0)
  BY <1>2, EmptySeq, LenProperties
<1>5. past[f] # <<>> /\ Last(past[f]) = content => Contains(past[f], content)
  BY <1>4 DEF Last, Contains
<1>6. /\ h \in Seq(Nat) /\ h # <<>> /\ Last(h) = content
      /\ Len(past[f]) <= Len(h) /\ \A i \in 1 .. Len(past[f]) : h[i] = past[f][i]
      /\ \A x : Contains(h, x) <=> Contains(past[f], x) \/ x = content
      /\ IsInjective(past[f]) /\ (~Contains(past[f], content) \/ (past[f] # <<>> /\ Last(past[f]) = content)) =>
           IsInjective(h)
      /\ past[f] # <<>> /\ Last(past[f]) = content => h = past[f]
  <2>1. CASE past[f] # <<>> /\ Last(past[f]) = content
    BY <1>2, <1>4, <1>5, <2>1
  <2>2. CASE ~(past[f] # <<>> /\ Last(past[f]) = content)
    <3>1. h = Append(past[f], content)
      BY <2>2
    <3> HIDE DEF h
    <3>2. h \in Seq(Nat) /\ h # <<>> /\ Last(h) = content /\ Len(h) = Len(past[f]) + 1
      BY <1>2, <3>1, AppendFacts
    <3>3. \A i \in 1 .. Len(past[f]) : h[i] = past[f][i]
      BY <1>2, <3>1, AppendFacts
    <3>4. \A x : Contains(h, x) <=> Contains(past[f], x) \/ x = content
      BY <1>2, <3>1, AppendFacts
    <3>5. IsInjective(past[f]) /\ ~Contains(past[f], content) => IsInjective(h)
      BY <1>2, <3>1, AppendFacts
    <3> QED
      BY <1>4, <2>2, <3>2, <3>3, <3>4, <3>5
  <2> QED
    BY <2>1, <2>2
<1> HIDE DEF e, h
<1>7. /\ overlay' \in [Files -> Entries \cup {None}] /\ past' \in [Files -> Seq(Nat)]
      /\ overlay'[f] = e /\ past'[f] = h
      /\ \A g \in Files : g # f => overlay'[g] = overlay[g] /\ past'[g] = past[g]
  BY <1>1, <1>2, <1>3, <1>6
<1>8. e.content = content /\ e.version = v /\ e.stamp = stamp
  BY DEF e
<1> QED
  BY <1>1, <1>6, <1>7, <1>8 DEF e, RecordedAs

\* What a message does to the server.
LEMMA OpenedTyped ==
  ASSUME DocsTypes, NEW f \in Files, NEW text \in Nat, DidOpen(f, text)
  PROVE  /\ server' \in [Files -> Docs \cup {None}] /\ wire' = wire
         /\ server'[f] # None /\ server'[f].content = text /\ server'[f].version = 1
         /\ server'[f].opened = clock[f] + 1
         /\ \A g \in Files : g # f => server'[g] = server[g]
<1> DEFINE d == [content |-> text, version |-> 1, opened |-> Now(f), pushed |-> FALSE]
<1>1. d \in Docs /\ d.content = text /\ d.version = 1 /\ d.opened = clock[f] + 1
  BY DEF Docs, Now, DocsTypes, LspTypeOK
<1>2. server \in [Files -> Docs \cup {None}] /\ server' = [server EXCEPT ![f] = d] /\ wire' = wire
  BY DEF DocsTypes, LspTypeOK, DidOpen, Docs
<1> HIDE DEF d
<1> QED
  BY <1>1, <1>2, NoneFacts

LEMMA ChangedDoc ==
  ASSUME DocsTypes, NEW f \in Files, NEW v \in Nat, NEW text \in Nat, DidChange(f, v, text)
  PROVE  /\ server' \in [Files -> Docs \cup {None}] /\ wire' = wire
         /\ server'[f] # None <=> server[f] # None
         /\ server[f] # None => /\ server'[f].content = text /\ server'[f].version = v
                                /\ server'[f].opened = server[f].opened
         /\ \A g \in Files : g # f => server'[g] = server[g]
<1>1. server \in [Files -> Docs \cup {None}] /\ wire' = wire
  BY DEF DocsTypes, LspTypeOK, DidChange, Docs
<1> DEFINE d == [server[f] EXCEPT !.content = text, !.version = v, !.pushed = FALSE]
<1>2. server' = [server EXCEPT ![f] = IF server[f] = None THEN None ELSE d]
  BY DEF DidChange
<1>3. server[f] # None => d \in Docs /\ d.content = text /\ d.version = v /\ d.opened = server[f].opened
  <2>1. server[f] # None => server[f] \in Docs
    BY <1>1
  <2> QED
    BY <2>1 DEF Docs
<1> HIDE DEF d
<1> QED
  BY <1>1, <1>2, <1>3, NoneFacts

\* On a close the backend says nothing, or pushes an empty list.
LEMMA ClosedDoc ==
  ASSUME DocsTypes, NEW f \in Files, DidClose(f), Forget(f)
  PROVE  /\ server' \in [Files -> Docs \cup {None}] /\ server'[f] = None
         /\ \A g \in Files : g # f => server'[g] = server[g] /\ diags'[g] = diags[g]
         /\ diags' \in [Files -> Caches \cup {None}] /\ diags'[f] = None
         /\ \/ wire' = wire
            \/ /\ server[f] # None
               /\ \E q \in Pushes : q.file = f /\ q.opened = server[f].opened /\ wire' = Append(wire, q)
<1>1. server \in [Files -> Docs \cup {None}] /\ diags \in [Files -> Caches \cup {None}] /\ wire \in Seq(Pushes)
  BY DEF DocsTypes, LspTypeOK, Docs, Caches
<1>2. server' = [server EXCEPT ![f] = None] /\ diags' = [diags EXCEPT ![f] = None]
  BY DEF DidClose, Forget
<1>3. PICK p \in ClosePushes(f) : wire' = wire \o p
  BY DEF DidClose
<1>4. CASE p = <<>>
  BY <1>1, <1>2, <1>3, <1>4, ConcatEmptySeq
<1>5. CASE p # <<>>
  <2>1. server[f] # None /\ \E v : (v = None \/ v = server[f].version + 1) /\ p = <<Push(f, v, None, server[f].opened)>>
    BY <1>3, <1>5 DEF ClosePushes
  <2>2. PICK v : (v = None \/ v = server[f].version + 1) /\ p = <<Push(f, v, None, server[f].opened)>>
    BY <2>1
  <2> DEFINE q == Push(f, v, None, server[f].opened)
  <2>3. server[f] \in Docs
    BY <1>1, <2>1
  <2>4. q \in Pushes /\ q.file = f /\ q.opened = server[f].opened
    BY <2>2, <2>3 DEF Push, Pushes, Docs
  <2> HIDE DEF q
  <2>5. wire' = Append(wire, q)
    BY <1>1, <1>3, <2>2, <2>4, AppendIsConcat DEF q
  <2> QED
    BY <1>1, <1>2, <2>1, <2>4, <2>5
<1> QED
  BY <1>4, <1>5
LEMMA BaseInit == Init => Base
<1> SUFFICES ASSUME Init PROVE Base
  OBVIOUS
<1>1. <<>> \in Seq(Files) /\ <<>> \in Seq(Nat) /\ <<>> \in Seq(Pushes) /\ IsInjective(<<>>) /\ \A f : ~Contains(<<>>, f)
  <2>1. <<>> \in Seq(Files) /\ Len(<<>>) = 0
    BY EmptySeq
  <2>2. <<>> \in Seq(Nat)
    BY EmptySeq
  <2>3. <<>> \in Seq(Pushes)
    BY EmptySeq
  <2>4. /\ \A x : Contains(<<>>, x) <=> \E i \in 1 .. Len(<<>>) : <<>>[i] = x
        /\ IsInjective(<<>>) <=> \A i, k \in 1 .. Len(<<>>) : <<>>[i] = <<>>[k] => i = k
    BY <2>1, ContainsFacts
  <2> QED
    BY <2>1, <2>2, <2>3, <2>4
<1>2. \A c \in Callers : pc[c] = "idle" /\ call[c] = NoCall
  BY DEF Init
<1>3. pc \in [Callers -> PC] /\ call \in [Callers -> Calls]
  BY NoCallFacts DEF Init, PC
<1>4. DOMAIN wire = {}
  BY DEF Init
<1>5. DocsTypes
  BY <1>1, <1>3, <1>4 DEF Init, DocsTypes, LspTypeOK, Calls, Pushes
<1>6. LocksInv /\ ReadyInv
  BY <1>2 DEF LocksInv, ReadyInv, Ready, Syncing
<1>7. KnownInv
  BY <1>1 DEF Init, KnownInv
<1> QED
  BY <1>5, <1>6, <1>7 DEF Base

\* A call steps alone.
LEMMA Alone ==
  ASSUME DocsTypes, NEW c \in Callers, NEW to \in PC, NEW j \in Calls, Goto(c, to), Set(c, j)
  PROVE  /\ pc' \in [Callers -> PC] /\ call' \in [Callers -> Calls] /\ pc'[c] = to /\ call'[c] = j
         /\ \A d \in Callers : d # c => pc'[d] = pc[d] /\ call'[d] = call[d]
BY DEF DocsTypes, LspTypeOK, Goto, Set, Calls
LEMMA AloneGoes ==
  ASSUME DocsTypes, NEW c \in Callers, NEW to \in PC, Goto(c, to), UNCHANGED call
  PROVE  /\ pc' \in [Callers -> PC] /\ call' \in [Callers -> Calls] /\ pc'[c] = to /\ call'[c] = call[c]
         /\ \A d \in Callers : d # c => pc'[d] = pc[d] /\ call'[d] = call[d]
BY DEF DocsTypes, LspTypeOK, Goto, Calls

\* The holder of the overlay mutex holds both, and it is one.
LEMMA OneSyncing ==
  ASSUME Base, NEW c \in Callers, NEW d \in Callers, pc[d] \in Syncing,
         pc[c] \in Syncing \/ lock.overlay = None \/ lock.open = None
  PROVE  c = d
BY NoneFacts DEF Base, LocksInv

\* The types, part by part.
ProcsTyped == pc' \in [Callers -> PC] /\ call' \in [Callers -> Calls]
BridgeTyped == /\ openFiles' \in Seq(Files) /\ IsInjective(openFiles')
               /\ overlay' \in [Files -> Entries \cup {None}] /\ past' \in [Files -> Seq(Nat)]
BackendTyped == /\ server' \in [Files -> Docs \cup {None}] /\ wire' \in Seq(Pushes)
                /\ diags' \in [Files -> Caches \cup {None}]
RestTyped == /\ disk' \in [Files -> Nat] /\ made' \in [Files -> Nat] /\ clock' \in [Files -> Nat]
             /\ lock' \in [open : Callers \cup {None}, overlay : Callers \cup {None}]
             /\ budget' \in [calls : Nat, writes : Nat, reopens : Nat]
             /\ history' \in [crossed : BOOLEAN, raced : BOOLEAN]
LEMMA TypedNext ==
  ASSUME ProcsTyped, BridgeTyped, BackendTyped, RestTyped
  PROVE  DocsTypes'
<1>1. \A i \in DOMAIN wire' : wire'[i] \in Pushes
  BY LenProperties, ElementOfSeq DEF BackendTyped
<1> QED
  BY <1>1 DEF DocsTypes, LspTypeOK, ProcsTyped, BridgeTyped, BackendTyped, RestTyped, Calls, Pushes, Docs, Caches

LEMMA SameTyped ==
  ASSUME DocsTypes
  PROVE  /\ UNCHANGED <<pc, call>> => ProcsTyped
         /\ UNCHANGED bridgeSide => BridgeTyped
         /\ UNCHANGED <<serverSide, diags>> => BackendTyped
         /\ UNCHANGED <<outside, lock, clock, history>> => RestTyped
BY DEF DocsTypes, LspTypeOK, ProcsTyped, BridgeTyped, BackendTyped, RestTyped, bridgeSide, serverSide, outside,
       Calls, Docs, Caches

\* What a message leaves of the rest.
LEMMA TickTyped ==
  ASSUME DocsTypes, NEW f \in Files, NEW x \in BOOLEAN, NEW y \in BOOLEAN, Tick(f),
         history' = [history EXCEPT !.crossed = x, !.raced = y] \/ history' = [history EXCEPT !.crossed = x],
         UNCHANGED <<outside, lock>>
  PROVE  /\ RestTyped /\ clock'[f] = clock[f] + 1 /\ clock[f] + 1 \in Nat
         /\ \A g \in Files : g # f => clock'[g] = clock[g]
         /\ history'.crossed = x
<1>1. history' \in [crossed : BOOLEAN, raced : BOOLEAN] /\ history'.crossed = x
  BY DEF DocsTypes, LspTypeOK
<1>2. clock' \in [Files -> Nat] /\ clock'[f] = clock[f] + 1 /\ clock[f] + 1 \in Nat
  BY DEF DocsTypes, LspTypeOK, Tick
<1>3. \A g \in Files : g # f => clock'[g] = clock[g]
  BY DEF DocsTypes, LspTypeOK, Tick
<1>4. RestTyped
  BY <1>1, <1>2 DEF DocsTypes, LspTypeOK, RestTyped, outside
<1> QED
  BY <1>1, <1>2, <1>3, <1>4

\* What a call knows stays true while others step, the mutexes respected.
LEMMA ReadyOthers ==
  ASSUME Base, NEW d \in Callers, pc'[d] = pc[d], call'[d] = call[d],
         \A f \in Files : overlay[f] # None => overlay'[f] # None,
         pc[d] \in Syncing => /\ \A f \in Files : overlay'[f] = overlay[f]
                              /\ \A f \in Files : Contains(openFiles', f) => Contains(openFiles, f)
  PROVE  Ready(d)'
<1>1. Ready(d)
  BY DEF Base, ReadyInv
<1> QED
  BY <1>1 DEF Ready, File, Syncing

LEMMA LocksKept ==
  ASSUME Base, NEW c \in Callers, lock' = lock, \A d \in Callers : d # c => pc'[d] = pc[d],
         pc'[c] \in Syncing => pc[c] \in Syncing, pc'[c] = "overlay" => pc[c] = "overlay"
  PROVE  LocksInv'
BY DEF Base, LocksInv, Syncing

LEMMA KnownKept ==
  ASSUME Base, UNCHANGED <<overlay, past>>, \A f \in Files : Contains(openFiles', f) => Contains(openFiles, f)
  PROVE  KnownInv'
BY DEF Base, KnownInv

\* A unit of a bound is spent.
LEMMA Spent ==
  ASSUME DocsTypes
  PROVE  /\ [budget EXCEPT !.calls = @ + 1] \in [calls : Nat, writes : Nat, reopens : Nat]
         /\ [budget EXCEPT !.writes = @ + 1] \in [calls : Nat, writes : Nat, reopens : Nat]
         /\ [budget EXCEPT !.reopens = @ + 1] \in [calls : Nat, writes : Nat, reopens : Nat]
<1>1. budget \in [calls : Nat, writes : Nat, reopens : Nat]
  BY DEF DocsTypes, LspTypeOK
<1> QED
  BY <1>1

LEMMA BaseNext == Base /\ [Next]_vars => Base'
<1> SUFFICES ASSUME Base, [Next]_vars PROVE Base'
  OBVIOUS
<1> USE NoneFacts
<1>0. DocsTypes /\ LocksInv /\ ReadyInv /\ KnownInv
  BY DEF Base
<1>1. ASSUME ProcsTyped, BridgeTyped, BackendTyped, RestTyped, LocksInv', ReadyInv', KnownInv' PROVE Base'
  BY <1>1, TypedNext DEF Base
\* A caller steps; what the others know holds on.
<1>2. ASSUME NEW c \in Callers, \A d \in Callers : d # c => pc'[d] = pc[d] /\ call'[d] = call[d], Ready(c)',
             \A f \in Files : overlay[f] # None => overlay'[f] # None,
             \/ pc[c] \in Syncing \/ lock.overlay = None \/ lock.open = None
             \/ overlay' = overlay /\ \A f \in Files : Contains(openFiles', f) => Contains(openFiles, f)
      PROVE  ReadyInv'
  <2>1. ASSUME NEW d \in Callers, d # c PROVE Ready(d)'
    <3>1. pc'[d] = pc[d] /\ call'[d] = call[d]
      BY <1>2, <2>1
    <3>2. pc[d] \in Syncing => overlay' = overlay /\ \A f \in Files : Contains(openFiles', f) => Contains(openFiles, f)
      BY <1>2, <2>1, OneSyncing
    <3> QED
      BY <1>2, <3>1, <3>2, ReadyOthers
  <2> QED
    BY <1>2, <2>1 DEF ReadyInv
\* Nobody steps.
<1>3. ASSUME UNCHANGED <<pc, call, lock, overlay, past>>,
             \A f \in Files : Contains(openFiles', f) => Contains(openFiles, f)
      PROVE  LocksInv' /\ ReadyInv' /\ KnownInv'
  <2>1. LocksInv'
    BY <1>0, <1>3 DEF LocksInv
  <2>2. \A d \in Callers : Ready(d)'
    BY <1>3, ReadyOthers
  <2> QED
    BY <1>3, <2>1, <2>2, KnownKept DEF ReadyInv
<1>4. CASE UNCHANGED vars
  BY <1>0, <1>1, <1>3, <1>4, SameTyped DEF vars, bridgeSide, serverSide, outside
<1>5. ASSUME NEW f \in Files, Analyze(f) PROVE Base'
  <2>1. PICK v : (v = None \/ v = server[f].version) /\ wire' = Append(wire, Push(f, v, server[f].content, server[f].opened))
    BY <1>5 DEF Analyze
  <2> DEFINE q == Push(f, v, server[f].content, server[f].opened)
             d == [server[f] EXCEPT !.pushed = TRUE]
  <2>2. server[f] \in Docs /\ wire \in Seq(Pushes)
    BY <1>0, <1>5, Typed DEF Analyze
  <2>3. q \in Pushes /\ d \in Docs
    BY <2>1, <2>2 DEF Push, Pushes, Docs
  <2>4. server' = [server EXCEPT ![f] = d] /\ server \in [Files -> Docs \cup {None}] /\ wire' = Append(wire, q)
    BY <1>0, <1>5, <2>1 DEF Analyze, DocsTypes, LspTypeOK, Docs
  <2> HIDE DEF q, d
  <2>5. wire' \in Seq(Pushes)
    BY <2>2, <2>3, <2>4, AppendFacts
  <2>6. BackendTyped
    <3>1. diags' \in [Files -> Caches \cup {None}]
      BY <1>0, <1>5 DEF Analyze, DocsTypes, LspTypeOK, Caches
    <3> QED
      BY <2>3, <2>4, <2>5, <3>1 DEF BackendTyped
  <2> QED
    BY <1>0, <1>1, <1>3, <1>5, <2>6, SameTyped DEF Analyze, bridgeSide
<1>6. CASE Arrive
  <2> DEFINE p == Head(wire)
             d == [version |-> p.version, content |-> p.content, opened |-> p.opened, after |-> clock[p.file]]
  <2>1. wire \in Seq(Pushes) /\ wire # <<>> /\ wire' = Tail(wire)
    BY <1>0, <1>6, Typed DEF Arrive
  <2>2. p \in Pushes /\ wire' \in Seq(Pushes)
    BY <2>1, TailFacts
  <2>3. p.file \in Files /\ d \in Caches
    BY <1>0, <2>2, Typed DEF Pushes, Caches
  <2>4. diags' = [diags EXCEPT ![p.file] = d] /\ diags \in [Files -> Caches \cup {None}]
    BY <1>0, <1>6 DEF Arrive, DocsTypes, LspTypeOK, Caches
  <2> HIDE DEF p, d
  <2>5. BackendTyped
    <3>1. server' \in [Files -> Docs \cup {None}]
      BY <1>0, <1>6 DEF Arrive, DocsTypes, LspTypeOK, Docs
    <3> QED
      BY <2>2, <2>3, <2>4, <3>1 DEF BackendTyped
  <2> QED
    BY <1>0, <1>1, <1>3, <1>6, <2>5, SameTyped DEF Arrive, bridgeSide
<1>7. ASSUME NEW f \in Files, DiskWrite(f) PROVE Base'
  <2>1. RestTyped
    <3>1. budget' \in [calls : Nat, writes : Nat, reopens : Nat]
      BY <1>0, <1>7, Spent DEF DiskWrite
    <3>2. made' \in [Files -> Nat] /\ disk' \in [Files -> Nat]
      BY <1>0, <1>7 DEF DiskWrite, DocsTypes, LspTypeOK
    <3> QED
      BY <1>0, <1>7, <3>1, <3>2 DEF DiskWrite, RestTyped, DocsTypes, LspTypeOK
  <2> QED
    BY <1>0, <1>1, <1>3, <1>7, <2>1, SameTyped DEF DiskWrite, bridgeSide
\* A step that changes no part but the caller's, the locks and the counts.
<1>8. ASSUME NEW c \in Callers, ProcsTyped, RestTyped, UNCHANGED <<bridgeSide, serverSide, diags>>, LocksInv', Ready(c)',
             \A d \in Callers : d # c => pc'[d] = pc[d] /\ call'[d] = call[d]
      PROVE  Base'
  <2>1. ReadyInv' /\ KnownInv'
    BY <1>2, <1>8, KnownKept DEF bridgeSide
  <2> QED
    BY <1>0, <1>1, <1>8, <2>1, SameTyped
<1>9. ASSUME NEW c \in Callers, NEW op \in {"edit", "check"}, NEW f \in Files, Start(c, op, f) PROVE Base'
  <2> DEFINE j == [NoCall EXCEPT !.op = op, !.file = f]
  <2>1. j \in Calls /\ j.file = f
    BY NoCallFacts
  <2>2. Goto(c, "sync") /\ Set(c, j)
    BY <1>9 DEF Start
  <2> HIDE DEF j
  <2>3. /\ ProcsTyped /\ pc'[c] = "sync" /\ call'[c] = j
        /\ \A d \in Callers : d # c => pc'[d] = pc[d] /\ call'[d] = call[d]
    BY <1>0, <2>1, <2>2, Alone DEF ProcsTyped, PC
  <2>4. RestTyped
    <3>1. budget' \in [calls : Nat, writes : Nat, reopens : Nat]
      BY <1>0, <1>9, Spent DEF Start
    <3> QED
      BY <1>0, <1>9, <3>1 DEF Start, RestTyped, DocsTypes, LspTypeOK
  <2>5. Ready(c)'
    BY <2>1, <2>3 DEF Ready, File
  <2>6. LocksInv'
    BY <1>9, <2>3, LocksKept DEF Start, Syncing
  <2> QED
    BY <1>8, <1>9, <2>3, <2>4, <2>5, <2>6 DEF Start
\* What is known of a caller about to step.
<1>10. ASSUME NEW c \in Callers
       PROVE  Ready(c) /\ call[c] \in Calls /\ (pc[c] # "idle" => File(c) \in Files)
  BY <1>0, Typed DEF ReadyInv, Ready
<1>11. ASSUME NEW c \in Callers, TakeOpenFiles(c) PROVE Base'
  <2>1. /\ ProcsTyped /\ pc'[c] = "overlay" /\ call'[c] = call[c]
        /\ \A d \in Callers : d # c => pc'[d] = pc[d] /\ call'[d] = call[d]
    BY <1>0, <1>11, AloneGoes DEF TakeOpenFiles, ProcsTyped, PC
  <2>2. File(c) \in Files /\ pc[c] = "sync"
    BY <1>10, <1>11 DEF TakeOpenFiles
  <2>3. /\ openFiles' \in Seq(Files) /\ IsInjective(openFiles')
        /\ \A g \in Files : Contains(openFiles', g) => Contains(openFiles, g)
    BY <1>0, <1>11, <2>2, Typed, TouchedFacts DEF TakeOpenFiles
  <2>4. BridgeTyped
    BY <1>0, <1>11, <2>3 DEF TakeOpenFiles, BridgeTyped, DocsTypes, LspTypeOK
  <2>5. RestTyped
    BY <1>0, <1>11 DEF TakeOpenFiles, outside, RestTyped, DocsTypes, LspTypeOK
  <2>6. Ready(c)'
    BY <2>1, <2>2 DEF Ready, File
  <2>7. ReadyInv' /\ KnownInv'
    BY <1>2, <1>11, <2>1, <2>3, <2>6, KnownKept DEF TakeOpenFiles
  <2>8. LocksInv'
    <3>1. lock.open = None /\ lock' = [lock EXCEPT !.open = c] /\ lock'.overlay = lock.overlay /\ lock'.open = c
      BY <1>0, <1>11 DEF TakeOpenFiles, DocsTypes, LspTypeOK
    <3>2. \A d \in Callers : pc[d] \notin Syncing \cup {"overlay"}
      BY <1>0, <3>1 DEF LocksInv
    <3> QED
      BY <2>1, <3>1, <3>2 DEF LocksInv, Syncing
  <2>9. BackendTyped
    BY <1>0, <1>11, SameTyped DEF TakeOpenFiles
  <2> QED
    BY <1>1, <2>1, <2>4, <2>5, <2>7, <2>8, <2>9
<1>12. ASSUME NEW c \in Callers, TakeOverlay(c) PROVE Base'
  <2> DEFINE f == File(c)
  <2>1. f \in Files /\ pc[c] = "overlay" /\ lock.overlay = None /\ lock' = [lock EXCEPT !.overlay = c]
    BY <1>10, <1>12 DEF TakeOverlay
  <2>2. disk[f] \in Nat /\ (overlay[f] # None => overlay[f] \in Entries) /\ call[c] \in Calls
    BY <1>0, <1>10, <2>1, Typed
  <2>3. PICK to \in Syncing, j \in Calls :
          /\ Goto(c, to) /\ Set(c, j) /\ j.file = f
          /\ to = "open" => overlay[f] = None /\ j.text \in Nat
          /\ to = "reread" => overlay[f] # None /\ j.stamp \in Nat /\ j.stamp # overlay[f].stamp
          /\ to = "evict" => overlay[f] # None
          /\ to = "replay" => overlay[f] # None /\ ~Contains(openFiles, f)
    <3>1. CASE overlay[f] = None
      <4> DEFINE j == [call[c] EXCEPT !.text = disk[f]]
      <4>1. j \in Calls /\ j.text = disk[f] /\ j.file = f
        BY <2>2, CallFields DEF Calls, File
      <4>2. Goto(c, "open") /\ Set(c, j)
        BY <1>12, <3>1 DEF TakeOverlay
      <4> QED
        BY <2>2, <3>1, <4>1, <4>2 DEF Syncing
    <3>2. CASE overlay[f] # None /\ Contains(openFiles, f) /\ disk[f] # overlay[f].stamp
      <4> DEFINE j == [call[c] EXCEPT !.stamp = disk[f]]
      <4>1. j \in Calls /\ j.stamp = disk[f] /\ j.file = f
        BY <2>2, CallFields DEF Calls, File
      <4>2. Goto(c, "reread") /\ Set(c, j)
        BY <1>12, <3>2 DEF TakeOverlay
      <4> QED
        BY <2>2, <3>2, <4>1, <4>2 DEF Syncing
    <3>3. call' = call => Set(c, call[c])
      BY <1>0, <2>1 DEF Set, DocsTypes, LspTypeOK
    <3>4. CASE overlay[f] # None /\ Contains(openFiles, f) /\ disk[f] = overlay[f].stamp
      <4>1. Goto(c, "evict") /\ Set(c, call[c])
        BY <1>12, <3>3, <3>4 DEF TakeOverlay
      <4> QED
        BY <2>2, <3>4, <4>1 DEF Syncing, File
    <3>5. CASE overlay[f] # None /\ ~Contains(openFiles, f)
      <4>1. Goto(c, "replay") /\ Set(c, call[c])
        BY <1>12, <3>3, <3>5 DEF TakeOverlay
      <4> QED
        BY <2>2, <3>5, <4>1 DEF Syncing, File
    <3> QED
      BY <3>1, <3>2, <3>4, <3>5
  <2>4. /\ ProcsTyped /\ pc'[c] = to /\ call'[c] = j
        /\ \A d \in Callers : d # c => pc'[d] = pc[d] /\ call'[d] = call[d]
    BY <1>0, <2>3, Alone DEF ProcsTyped, PC
  <2>5. UNCHANGED <<outside, bridgeSide, serverSide, diags, clock, history>>
    BY <1>12 DEF TakeOverlay
  <2>6. RestTyped
    BY <1>0, <2>1, <2>5 DEF outside, RestTyped, DocsTypes, LspTypeOK
  <2>7. Ready(c)'
    BY <2>1, <2>3, <2>4, <2>5 DEF Ready, File, Syncing, bridgeSide
  <2>8. LocksInv'
    <3>1. lock'.overlay = c /\ lock'.open = lock.open
      BY <1>0, <2>1 DEF DocsTypes, LspTypeOK
    <3>2. lock.open = c /\ \A d \in Callers : pc[d] \notin Syncing
      BY <1>0, <2>1 DEF LocksInv
    <3> QED
      BY <1>0, <2>4, <3>1, <3>2 DEF LocksInv, Syncing
  <2> QED
    BY <1>8, <2>4, <2>5, <2>6, <2>7, <2>8
\* A step that records a new overlay of the caller's file.
<1>13. ASSUME NEW c \in Callers, NEW f \in Files, f = File(c), NEW text \in Nat, NEW v \in Nat, v > 0,
              NEW stamp \in Nat, NEW at \in Nat, Record(f, text, v, stamp, at),
              ProcsTyped, BackendTyped, RestTyped, LocksInv', Ready(c)',
              \A d \in Callers : d # c => pc'[d] = pc[d] /\ call'[d] = call[d],
              openFiles' \in Seq(Files), IsInjective(openFiles'),
              \A g \in Files : Contains(openFiles', g) => Contains(openFiles, g) \/ g = f,
              pc[c] \in Syncing \/ lock.overlay = None
       PROVE  Base'
  <2>0. Record(f, text, v, stamp, at)
    BY <1>13
  <2>1. /\ overlay' \in [Files -> Entries \cup {None}] /\ past' \in [Files -> Seq(Nat)]
        /\ overlay'[f] # None /\ overlay'[f].content = text /\ overlay'[f].version = v
        /\ \A g \in Files : g # f => overlay'[g] = overlay[g] /\ past'[g] = past[g]
        /\ past'[f] # <<>> /\ Last(past'[f]) = text
    <3>1. DocsTypes /\ KnownInv /\ f \in Files /\ text \in Nat /\ v \in Nat /\ stamp \in Nat /\ at \in Nat
      BY <1>0, <1>13
    <3>2. RecordedAs(f, text, v, stamp, at)
      BY <2>0, <3>1, Recorded
    <3> QED
      BY <3>2 DEF RecordedAs
  <2>2. BridgeTyped
    BY <1>13, <2>1 DEF BridgeTyped
  <2>3. KnownInv'
    <3>1. ASSUME NEW g \in Files, g # f
          PROVE  /\ Contains(openFiles', g) => overlay'[g] # None
                 /\ IF overlay'[g] = None THEN past'[g] = <<>>
                    ELSE overlay'[g].version > 0 /\ past'[g] # <<>> /\ Last(past'[g]) = overlay'[g].content
      <4>1. overlay'[g] = overlay[g] /\ past'[g] = past[g] /\ (Contains(openFiles', g) => Contains(openFiles, g))
        BY <1>13, <2>1, <3>1
      <4> QED
        BY <1>0, <4>1 DEF KnownInv
    <3> QED
      BY <1>13, <2>1, <3>1 DEF KnownInv
  <2>4. \A g \in Files : overlay[g] # None => overlay'[g] # None
    BY <2>1
  <2>5. ReadyInv'
    BY <1>2, <1>13, <2>4
  <2> QED
    BY <1>1, <1>13, <2>2, <2>3, <2>5
\* A syncing caller has sent its message.
<1>14. ASSUME NEW c \in Callers, pc[c] \in {"open", "reread", "replay"}, Goto(c, "evict"), Set(c, Mutated(c)), lock' = lock
       PROVE  /\ ProcsTyped /\ pc'[c] = "evict" /\ call'[c].file = call[c].file /\ LocksInv'
              /\ \A d \in Callers : d # c => pc'[d] = pc[d] /\ call'[d] = call[d]
  <2>1. call[c] \in Calls /\ File(c) \in Files
    BY <1>10, <1>14
  <2>2. clock[File(c)] \in Nat
    BY <1>0, <2>1, Typed
  <2> DEFINE b == IF call[c].op = "check" THEN Now(File(c)) ELSE 0
  <2>3. b \in Nat
    BY <2>2 DEF Now
  <2>4. Mutated(c) = [call[c] EXCEPT !.text = None, !.stamp = None, !.basis = b]
    BY DEF Mutated
  <2> HIDE DEF b
  <2>5. Mutated(c) \in Calls /\ Mutated(c).file = call[c].file
    <3>1. Mutated(c) \in Calls
      BY <2>1, <2>3, <2>4, CallFields
    <3>2. Mutated(c).file = call[c].file
      BY <2>1, <2>4 DEF Calls
    <3> QED
      BY <3>1, <3>2
  <2>6. /\ ProcsTyped /\ pc'[c] = "evict" /\ call'[c] = Mutated(c)
        /\ \A d \in Callers : d # c => pc'[d] = pc[d] /\ call'[d] = call[d]
    BY <1>0, <1>14, <2>5, Alone DEF ProcsTyped, PC, Syncing
  <2>7. LocksInv'
    BY <1>14, <2>6, LocksKept DEF Syncing
  <2> QED
    BY <2>5, <2>6, <2>7
<1>15. ASSUME NEW c \in Callers, OpenFirst(c) PROVE Base'
  <2> DEFINE f == File(c)
  <2>1. pc[c] = "open" /\ f \in Files /\ overlay[f] = None /\ call[c].text \in Nat
    BY <1>10, <1>15 DEF OpenFirst, Ready
  <2>2. DidOpen(f, call[c].text) /\ Record(f, call[c].text, 1, disk[f], Now(f)) /\ openFiles' = Append(openFiles, f)
    BY <1>15 DEF OpenFirst
  <2>3. disk[f] \in Nat /\ clock[f] \in Nat /\ Now(f) \in Nat /\ openFiles \in Seq(Files) /\ IsInjective(openFiles)
    BY <1>0, <2>1, Typed DEF Now
  <2>4. ~Contains(openFiles, f)
    BY <1>0, <2>1 DEF KnownInv
  <2>5. /\ openFiles' \in Seq(Files) /\ IsInjective(openFiles')
        /\ \A g \in Files : Contains(openFiles', g) => Contains(openFiles, g) \/ g = f
    BY <2>1, <2>2, <2>3, <2>4, AppendFacts
  <2>6. /\ ProcsTyped /\ pc'[c] = "evict" /\ call'[c].file = call[c].file /\ LocksInv'
        /\ \A d \in Callers : d # c => pc'[d] = pc[d] /\ call'[d] = call[d]
    BY <1>14, <1>15, <2>1 DEF OpenFirst
  <2>7. BackendTyped
    <3>1. server' \in [Files -> Docs \cup {None}] /\ wire' = wire
      BY <1>0, <2>1, <2>2, OpenedTyped
    <3> QED
      BY <1>0, <1>15, <3>1 DEF OpenFirst, BackendTyped, DocsTypes, LspTypeOK, Caches
  <2>8. RestTyped
    <3> DEFINE x == history.crossed \/ Reopening(f, c)
               y == history.raced \/ disk[f] # call[c].text
    <3>1. history' = [history EXCEPT !.crossed = x, !.raced = y] /\ Tick(f) /\ UNCHANGED <<outside, lock>>
      BY <1>15 DEF OpenFirst
    <3> QED
      BY <1>0, <2>1, <3>1, TickTyped
  <2>9. overlay'[f] # None
    BY <1>0, <2>1, <2>2, <2>3, Recorded DEF RecordedAs
  <2>10. Ready(c)'
    BY <2>1, <2>6, <2>9 DEF Ready, File
  <2> DEFINE text == call[c].text
             stamp == disk[f]
             at == Now(f)
  <2>11. /\ Record(f, text, 1, stamp, at) /\ text \in Nat /\ stamp \in Nat /\ at \in Nat
         /\ pc[c] \in Syncing /\ 1 \in Nat /\ 1 > 0
    BY <2>1, <2>2, <2>3 DEF Syncing
  <2> HIDE DEF text, stamp, at
  <2> QED
    BY <1>13, <2>1, <2>5, <2>6, <2>7, <2>8, <2>10, <2>11
<1>16. ASSUME NEW c \in Callers, ChangeFromDisk(c) PROVE Base'
  <2> DEFINE f == File(c)
             v == overlay[f].version + 1
  <2>1. pc[c] = "reread" /\ f \in Files /\ overlay[f] # None /\ call[c].stamp \in Nat
    BY <1>10, <1>16 DEF ChangeFromDisk, Ready
  <2>2. DidChange(f, v, disk[f]) /\ Record(f, disk[f], v, call[c].stamp, Now(f)) /\ openFiles' = openFiles
    BY <1>16 DEF ChangeFromDisk
  <2>3. disk[f] \in Nat /\ clock[f] \in Nat /\ Now(f) \in Nat /\ openFiles \in Seq(Files) /\ IsInjective(openFiles)
    BY <1>0, <2>1, Typed DEF Now
  <2>4. v \in Nat /\ v > 0
    BY <1>0, <2>1, Typed DEF Entries
  <2> HIDE DEF v
  <2>6. /\ ProcsTyped /\ pc'[c] = "evict" /\ call'[c].file = call[c].file /\ LocksInv'
        /\ \A d \in Callers : d # c => pc'[d] = pc[d] /\ call'[d] = call[d]
    BY <1>14, <1>16, <2>1 DEF ChangeFromDisk
  <2>7. BackendTyped
    <3>1. server' \in [Files -> Docs \cup {None}] /\ wire' = wire
      BY <1>0, <2>1, <2>2, <2>3, <2>4, ChangedDoc
    <3> QED
      BY <1>0, <1>16, <3>1 DEF ChangeFromDisk, BackendTyped, DocsTypes, LspTypeOK, Caches
  <2>8. RestTyped
    <3> DEFINE x == history.crossed \/ Reopening(f, c)
               y == history.raced \/ disk[f] # call[c].stamp
    <3>1. history' = [history EXCEPT !.crossed = x, !.raced = y] /\ Tick(f) /\ UNCHANGED <<outside, lock>>
      BY <1>16 DEF ChangeFromDisk
    <3> QED
      BY <1>0, <2>1, <3>1, TickTyped
  <2>9. overlay'[f] # None
    BY <1>0, <2>1, <2>2, <2>3, <2>4, Recorded DEF RecordedAs
  <2>10. Ready(c)'
    BY <2>1, <2>6, <2>9 DEF Ready, File
  <2> QED
    BY <1>13, <2>1, <2>2, <2>3, <2>4, <2>6, <2>7, <2>8, <2>10 DEF Syncing
<1>17. ASSUME NEW c \in Callers, Replay(c) PROVE Base'
  <2> DEFINE f == File(c)
             text == overlay[f].content
  <2>1. pc[c] = "replay" /\ f \in Files /\ overlay[f] # None /\ ~Contains(openFiles, f)
    BY <1>10, <1>17 DEF Replay, ReplayOf, Ready
  <2>2. /\ DidOpen(f, text) /\ Record(f, text, 1, overlay[f].stamp, Now(f))
        /\ openFiles' = Append(openFiles, f)
    BY <1>17 DEF Replay, ReplayOf
  <2>3. /\ clock[f] \in Nat /\ Now(f) \in Nat /\ openFiles \in Seq(Files) /\ IsInjective(openFiles)
        /\ overlay[f] \in Entries /\ text \in Nat /\ overlay[f].stamp \in Nat
    BY <1>0, <2>1, Typed DEF Now, Entries
  <2> HIDE DEF text
  <2>5. /\ openFiles' \in Seq(Files) /\ IsInjective(openFiles')
        /\ \A g \in Files : Contains(openFiles', g) => Contains(openFiles, g) \/ g = f
    BY <2>1, <2>2, <2>3, AppendFacts
  <2>6. /\ ProcsTyped /\ pc'[c] = "evict" /\ call'[c].file = call[c].file /\ LocksInv'
        /\ \A d \in Callers : d # c => pc'[d] = pc[d] /\ call'[d] = call[d]
    BY <1>14, <1>17, <2>1 DEF Replay, ReplayOf
  <2>7. BackendTyped
    <3>1. server' \in [Files -> Docs \cup {None}] /\ wire' = wire
      BY <1>0, <2>1, <2>2, <2>3, OpenedTyped
    <3> QED
      BY <1>0, <1>17, <3>1 DEF Replay, ReplayOf, BackendTyped, DocsTypes, LspTypeOK, Caches
  <2>8. RestTyped
    <3> DEFINE x == history.crossed \/ Reopening(f, c)
    <3>1. history' = [history EXCEPT !.crossed = x] /\ Tick(f) /\ UNCHANGED <<outside, lock>>
      BY <1>17 DEF Replay, ReplayOf, Crossing
    <3> QED
      BY <1>0, <2>1, <3>1, TickTyped
  <2>9. overlay'[f] # None
    BY <1>0, <2>1, <2>2, <2>3, Recorded DEF RecordedAs
  <2>10. Ready(c)'
    BY <2>1, <2>6, <2>9 DEF Ready, File
  <2> QED
    BY <1>13, <2>1, <2>2, <2>3, <2>5, <2>6, <2>7, <2>8, <2>10 DEF Syncing
\* A close, and what the cache held of the file.
<1>18. ASSUME NEW f \in Files, DidClose(f), Forget(f) PROVE BackendTyped
  <2>1. /\ server' \in [Files -> Docs \cup {None}] /\ diags' \in [Files -> Caches \cup {None}]
        /\ \/ wire' = wire
           \/ /\ server[f] # None
              /\ \E q \in Pushes : q.file = f /\ q.opened = server[f].opened /\ wire' = Append(wire, q)
    BY <1>0, <1>18, ClosedDoc
  <2>2. wire \in Seq(Pushes)
    BY <1>0, Typed
  <2>3. ASSUME NEW q \in Pushes, wire' = Append(wire, q) PROVE wire' \in Seq(Pushes)
    BY <2>2, <2>3, AppendFacts
  <2> QED
    BY <2>1, <2>2, <2>3 DEF BackendTyped
<1>19. ASSUME NEW c \in Callers, Evict(c) PROVE Base'
  <2> DEFINE victim == Head(openFiles)
  <2>1. openFiles \in Seq(Files) /\ IsInjective(openFiles) /\ Len(openFiles) > Cap /\ pc[c] = "evict"
    BY <1>0, <1>19, Typed DEF Evict
  <2>2. openFiles # <<>>
    BY <2>1, LspAssumption, EmptySeq
  <2>3. /\ victim \in Files /\ Tail(openFiles) \in Seq(Files) /\ IsInjective(Tail(openFiles))
        /\ \A g \in Files : Contains(Tail(openFiles), g) => Contains(openFiles, g)
    BY <2>1, <2>2, TailFacts
  <2>4. openFiles' = Tail(openFiles) /\ DidClose(victim) /\ Forget(victim)
    BY <1>19 DEF Evict
  <2> HIDE DEF victim
  <2>5. BackendTyped
    BY <1>18, <2>3, <2>4
  <2>6. ProcsTyped /\ UNCHANGED <<pc, call, lock, overlay, past>>
    BY <1>0, <1>19, SameTyped DEF Evict
  <2>7. BridgeTyped
    BY <1>0, <2>3, <2>4, <2>6 DEF BridgeTyped, DocsTypes, LspTypeOK
  <2>8. RestTyped
    <3>1. history' = [history EXCEPT !.crossed = @ \/ Reopening(victim, c)]
      BY <1>19 DEF Evict, Crossing, victim
    <3>2. history' \in [crossed : BOOLEAN, raced : BOOLEAN]
      BY <1>0, <3>1 DEF DocsTypes, LspTypeOK
    <3> QED
      BY <1>0, <1>19, <3>2 DEF Evict, outside, RestTyped, DocsTypes, LspTypeOK
  <2>9. LocksInv' /\ ReadyInv' /\ KnownInv'
    <3>1. \A f \in Files : Contains(openFiles', f) => Contains(openFiles, f)
      BY <2>3, <2>4
    <3> QED
      BY <1>3, <2>6, <3>1
  <2> QED
    BY <1>1, <2>5, <2>6, <2>7, <2>8, <2>9
\* What a step of one caller that keeps its call leaves, by the step it goes to.
<1>20. ASSUME NEW c \in Callers, NEW to \in PC, Goto(c, to), UNCHANGED call
       PROVE  /\ ProcsTyped /\ pc'[c] = to /\ call'[c] = call[c]
              /\ \A d \in Callers : d # c => pc'[d] = pc[d] /\ call'[d] = call[d]
  BY <1>0, <1>20, AloneGoes DEF ProcsTyped
<1>21. ASSUME NEW c \in Callers, NEW to \in PC, NEW j \in Calls, Goto(c, to), Set(c, j)
       PROVE  /\ ProcsTyped /\ pc'[c] = to /\ call'[c] = j
              /\ \A d \in Callers : d # c => pc'[d] = pc[d] /\ call'[d] = call[d]
  BY <1>0, <1>21, Alone DEF ProcsTyped
<1>22. ASSUME NEW c \in Callers, Synced(c) PROVE Base'
  <2> DEFINE to == IF call[c].op = "edit" THEN "apply" ELSE "version"
  <2>1. to \in {"apply", "version"} /\ to \in PC /\ Goto(c, to) /\ UNCHANGED call
    BY <1>22 DEF Synced, PC
  <2> HIDE DEF to
  <2>2. /\ ProcsTyped /\ pc'[c] = to /\ call'[c] = call[c]
        /\ \A d \in Callers : d # c => pc'[d] = pc[d] /\ call'[d] = call[d]
    BY <1>20, <2>1
  <2>3. lock' = [open |-> None, overlay |-> None] /\ pc[c] = "evict" /\ UNCHANGED <<outside, bridgeSide, serverSide, diags, clock, history>>
    BY <1>22 DEF Synced
  <2>4. RestTyped
    <3>1. lock' \in [open : Callers \cup {None}, overlay : Callers \cup {None}]
      BY <2>3
    <3> QED
      BY <1>0, <2>3, <3>1 DEF outside, RestTyped, DocsTypes, LspTypeOK
  <2>5. Ready(c)'
    <3>1. overlay[File(c)] # None /\ File(c) \in Files
      BY <1>10, <2>3 DEF Ready
    <3> QED
      BY <2>1, <2>2, <2>3, <3>1 DEF Ready, File, bridgeSide
  <2>6. LocksInv'
    <3>1. \A d \in Callers : d # c => pc[d] \notin Syncing \cup {"overlay"}
      BY <1>0, <2>3 DEF LocksInv, Syncing
    <3> QED
      BY <2>1, <2>2, <3>1 DEF LocksInv, Syncing
  <2> QED
    BY <1>8, <2>2, <2>3, <2>4, <2>5, <2>6
\* A step of a check that keeps the locks, the bridge and the server.
<1>23. ASSUME NEW c \in Callers, NEW to \in {"idle", "poll", "close", "reopen"}, NEW j \in Calls, Goto(c, to), Set(c, j),
              to # "idle" => j.file = call[c].file /\ pc[c] \in {"version", "poll", "get"},
              to = "reopen" => j.entry # None, lock' = lock,
              budget' \in [calls : Nat, writes : Nat, reopens : Nat],
              UNCHANGED <<disk, made, bridgeSide, serverSide, diags, clock, history>>
       PROVE  Base'
  <2>1. /\ ProcsTyped /\ pc'[c] = to /\ call'[c] = j
        /\ \A d \in Callers : d # c => pc'[d] = pc[d] /\ call'[d] = call[d]
    BY <1>21, <1>23 DEF PC, Closing
  <2>2. Ready(c)'
    <3>1. to # "idle" => overlay[File(c)] # None /\ File(c) \in Files
      BY <1>10, <1>23 DEF Ready
    <3> QED
      BY <1>23, <2>1, <3>1 DEF Ready, File, bridgeSide
  <2>3. LocksInv'
    BY <1>23, <2>1, LocksKept DEF Syncing
  <2>4. RestTyped
    BY <1>0, <1>23 DEF RestTyped, DocsTypes, LspTypeOK
  <2> QED
    BY <1>8, <1>23, <2>1, <2>2, <2>3, <2>4
<1>24. budget \in [calls : Nat, writes : Nat, reopens : Nat]
  BY <1>0 DEF DocsTypes, LspTypeOK
<1>25. ASSUME NEW c \in Callers, ReadVersion(c) PROVE Base'
  <2> DEFINE v == overlay[File(c)].version
             n == Len(past[File(c)])
             j == [call[c] EXCEPT !.version = v, !.from = n]
  <2>1. File(c) \in Files /\ pc[c] = "version" /\ overlay[File(c)] # None
    BY <1>10, <1>25 DEF ReadVersion, Ready
  <2>2. v \in Nat /\ n \in Nat
    BY <1>0, <2>1, Typed, LenProperties DEF Entries
  <2>3. j \in Calls
    <3> HIDE DEF v, n
    <3> QED
      BY <1>10, <2>2, CallFields
  <2>4. j.file = call[c].file
    BY <1>10 DEF Calls
  <2>5. Goto(c, "poll") /\ Set(c, j) /\ UNCHANGED <<disk, made, bridgeSide, serverSide, diags, clock, history, lock, budget>>
    BY <1>25 DEF ReadVersion, outside
  <2> HIDE DEF j
  <2> QED
    BY <1>23, <1>24, <2>1, <2>3, <2>4, <2>5
<1>26. ASSUME NEW c \in Callers, Converge(c) \/ Deadline(c) PROVE Base'
  <2>1. Goto(c, "idle") /\ Set(c, NoCall) /\ UNCHANGED <<disk, made, bridgeSide, serverSide, diags, clock, history, lock, budget>>
    BY <1>26 DEF Converge, Deadline, outside
  <2> QED
    BY <1>23, <1>24, <2>1, NoCallFacts
<1>27. ASSUME NEW c \in Callers, Stalled(c) PROVE Base'
  <2>1. /\ Goto(c, "close") /\ pc[c] = "poll" /\ lock' = lock /\ call' = call
        /\ UNCHANGED <<disk, made, bridgeSide, serverSide, diags, clock, history>>
    BY <1>27 DEF Stalled
  <2>2. budget' \in [calls : Nat, writes : Nat, reopens : Nat]
    BY <1>0, <1>27, Spent DEF Stalled
  <2>3. Set(c, call[c])
    BY <1>0, <2>1 DEF Set, DocsTypes, LspTypeOK
  <2> QED
    BY <1>10, <1>23, <2>1, <2>2, <2>3
<1>28. ASSUME NEW c \in Callers, GetOverlay(c) PROVE Base'
  <2> DEFINE e == overlay[File(c)]
             j == [call[c] EXCEPT !.entry = e]
  <2>1. File(c) \in Files /\ pc[c] = "get" /\ e # None
    BY <1>10, <1>28 DEF GetOverlay, Ready
  <2>2. e \in Entries
    BY <1>0, <2>1, Typed
  <2>3. j \in Calls /\ j.file = call[c].file /\ j.entry # None
    <3> HIDE DEF e
    <3>1. j \in Calls
      BY <1>10, <2>2, CallFields
    <3>2. j.file = call[c].file /\ j.entry = e
      BY <1>10 DEF Calls
    <3> QED
      BY <2>1, <3>1, <3>2
  <2>4. Goto(c, "reopen") /\ Set(c, j) /\ UNCHANGED <<disk, made, bridgeSide, serverSide, diags, clock, history, lock, budget>>
    BY <1>28 DEF GetOverlay, outside
  <2> HIDE DEF j
  <2> QED
    BY <1>23, <1>24, <2>1, <2>3, <2>4
\* A reopening call sends a message, the bridge as it was.
<1>29. ASSUME NEW c \in Callers, NEW to \in {"get", "insert"}, NEW j \in Calls, Goto(c, to), Set(c, j),
              j.file = call[c].file, pc[c] \in {"close", "reopen"}, to = "insert" => j.entry # None,
              BackendTyped, RestTyped, lock' = lock, UNCHANGED bridgeSide
       PROVE  Base'
  <2>1. /\ ProcsTyped /\ pc'[c] = to /\ call'[c] = j
        /\ \A d \in Callers : d # c => pc'[d] = pc[d] /\ call'[d] = call[d]
    BY <1>21, <1>29 DEF PC, Closing
  <2>2. Ready(c)'
    <3>1. overlay[File(c)] # None /\ File(c) \in Files
      BY <1>10, <1>29 DEF Ready
    <3> QED
      BY <1>29, <2>1, <3>1 DEF Ready, File, bridgeSide
  <2>3. LocksInv'
    BY <1>29, <2>1, LocksKept DEF Syncing
  <2>4. UNCHANGED <<overlay, past>> /\ openFiles' = openFiles
    BY <1>29 DEF bridgeSide
  <2>5. ReadyInv' /\ KnownInv'
    BY <1>2, <2>1, <2>2, <2>4, KnownKept
  <2>6. BridgeTyped
    BY <1>0, <1>29, SameTyped
  <2> QED
    BY <1>1, <1>29, <2>1, <2>3, <2>5, <2>6
<1>30. ASSUME NEW c \in Callers, ApplyEdit(c) PROVE Base'
  <2> DEFINE f == File(c)
             text == made[f] + 1
             v == overlay[f].version + 1
             stamp == overlay[f].stamp
             at == Now(f)
  <2>1. pc[c] = "apply" /\ f \in Files /\ overlay[f] # None /\ lock.overlay = None
    BY <1>10, <1>30 DEF ApplyEdit, ApplyStamped, Ready
  <2>2. /\ DidChange(f, v, text) /\ Record(f, text, v, stamp, at)
        /\ openFiles' = openFiles /\ Goto(c, "idle") /\ Set(c, NoCall) /\ lock' = lock /\ diags' = diags
        /\ disk' = disk /\ budget' = budget /\ made' = [made EXCEPT ![f] = text] /\ Tick(f)
        /\ history' = [history EXCEPT !.crossed = @ \/ Reopening(f, c)]
    BY <1>30 DEF ApplyEdit, ApplyStamped, Crossing
  <2>3. /\ text \in Nat /\ at \in Nat /\ openFiles \in Seq(Files) /\ IsInjective(openFiles)
        /\ overlay[f] \in Entries /\ made[f] \in Nat
    BY <1>0, <2>1, Typed DEF Now
  <2>4. v \in Nat /\ v > 0 /\ stamp \in Nat
    BY <2>3 DEF Entries
  <2> HIDE DEF v, stamp, at
  <2>5. /\ ProcsTyped /\ pc'[c] = "idle"
        /\ \A d \in Callers : d # c => pc'[d] = pc[d] /\ call'[d] = call[d]
    BY <1>21, <2>2, NoCallFacts DEF PC
  <2>6. RestTyped
    <3>1. history' \in [crossed : BOOLEAN, raced : BOOLEAN]
      BY <1>0, <2>2 DEF DocsTypes, LspTypeOK
    <3>2. clock' \in [Files -> Nat] /\ made' \in [Files -> Nat]
      <4>1. clock \in [Files -> Nat] /\ made \in [Files -> Nat]
        BY <1>0 DEF DocsTypes, LspTypeOK
      <4>2. made' \in [Files -> Nat]
        <5> HIDE DEF text
        <5> QED
          BY <2>2, <2>3, <4>1
      <4>3. clock' \in [Files -> Nat]
        BY <2>1, <2>2, <4>1 DEF Tick
      <4> QED
        BY <4>2, <4>3
    <3> QED
      BY <1>0, <2>2, <3>1, <3>2 DEF RestTyped, DocsTypes, LspTypeOK
  <2> HIDE DEF text
  <2>7. BackendTyped
    <3>1. server' \in [Files -> Docs \cup {None}] /\ wire' = wire
      BY <1>0, <2>1, <2>2, <2>3, <2>4, ChangedDoc
    <3> QED
      BY <1>0, <2>2, <3>1 DEF BackendTyped, DocsTypes, LspTypeOK, Caches
  <2>8. Ready(c)'
    BY <2>5 DEF Ready
  <2>9. LocksInv'
    BY <2>2, <2>5, LocksKept DEF Syncing
  <2> QED
    BY <1>13, <2>1, <2>2, <2>3, <2>4, <2>5, <2>6, <2>7, <2>8, <2>9
<1>31. ASSUME NEW c \in Callers, CloseAgain(c) PROVE Base'
  <2> DEFINE f == File(c)
             b == Now(f)
             j == [call[c] EXCEPT !.basis = b]
  <2>1. pc[c] = "close" /\ f \in Files
    BY <1>10, <1>31 DEF CloseAgain
  <2>2. /\ DidClose(f) /\ Forget(f) /\ Tick(f) /\ Goto(c, "get") /\ Set(c, j) /\ lock' = lock
        /\ UNCHANGED outside /\ UNCHANGED bridgeSide
        /\ history' = [history EXCEPT !.crossed = @ \/ Reopening(f, c) \/ server[f] = None]
    BY <1>31 DEF CloseAgain
  <2>3. b \in Nat
    BY <1>0, <2>1, Typed DEF Now
  <2>4. j \in Calls /\ j.file = call[c].file
    <3> HIDE DEF b
    <3>1. j \in Calls
      BY <1>10, <2>3, CallFields
    <3>2. j.file = call[c].file
      BY <1>10 DEF Calls
    <3> QED
      BY <3>1, <3>2
  <2> HIDE DEF b, j
  <2>5. BackendTyped
    BY <1>18, <2>1, <2>2
  <2>6. RestTyped
    <3> DEFINE x == history.crossed \/ Reopening(f, c) \/ server[f] = None
    <3>1. history' = [history EXCEPT !.crossed = x]
      BY <2>2
    <3> QED
      BY <1>0, <2>1, <2>2, <3>1, TickTyped
  <2> QED
    BY <1>29, <2>1, <2>2, <2>4, <2>5, <2>6
<1>32. ASSUME NEW c \in Callers, OpenAgain(c) PROVE Base'
  <2> DEFINE f == File(c)
             text == call[c].entry.content
  <2>1. pc[c] = "reopen" /\ f \in Files /\ call[c].entry # None
    BY <1>10, <1>32 DEF OpenAgain, Ready
  <2>2. /\ DidOpen(f, text) /\ Tick(f) /\ Goto(c, "insert") /\ lock' = lock
        /\ UNCHANGED outside /\ UNCHANGED bridgeSide /\ call' = call /\ diags' = diags
        /\ history' = [history EXCEPT !.crossed = @ \/ Reopening(f, c)]
    BY <1>32 DEF OpenAgain, Crossing
  <2>3. text \in Nat
    <3>1. call[c].entry \in Entries
      BY <1>10, <2>1, CallFields
    <3> QED
      BY <3>1 DEF Entries
  <2>4. Set(c, call[c])
    BY <1>0, <2>2 DEF Set, DocsTypes, LspTypeOK
  <2> HIDE DEF text
  <2>5. BackendTyped
    <3>1. server' \in [Files -> Docs \cup {None}] /\ wire' = wire
      BY <1>0, <2>1, <2>2, <2>3, OpenedTyped
    <3> QED
      BY <1>0, <2>2, <3>1 DEF BackendTyped, DocsTypes, LspTypeOK, Caches
  <2>6. RestTyped
    <3> DEFINE x == history.crossed \/ Reopening(f, c)
    <3>1. history' = [history EXCEPT !.crossed = x]
      BY <2>2
    <3> QED
      BY <1>0, <2>1, <2>2, <3>1, TickTyped
  <2> QED
    BY <1>10, <1>29, <2>1, <2>2, <2>4, <2>5, <2>6
<1>33. ASSUME NEW c \in Callers, InsertOverlay(c) PROVE Base'
  <2> DEFINE f == File(c)
             text == call[c].entry.content
             stamp == call[c].entry.stamp
             at == call[c].basis
             j == [call[c] EXCEPT !.version = 1, !.reissued = TRUE, !.entry = None]
  <2>1. pc[c] = "insert" /\ f \in Files /\ overlay[f] # None /\ call[c].entry # None /\ lock.overlay = None
    BY <1>10, <1>33 DEF InsertOverlay, Ready
  <2>2. /\ Record(f, text, 1, stamp, at) /\ Goto(c, "poll") /\ Set(c, j) /\ lock' = lock
        /\ openFiles' = openFiles
        /\ UNCHANGED outside /\ UNCHANGED serverSide /\ diags' = diags /\ clock' = clock /\ history' = history
    BY <1>33 DEF InsertOverlay
  <2>3. text \in Nat /\ stamp \in Nat
    <3>1. call[c].entry \in Entries
      BY <1>10, <2>1, CallFields
    <3> QED
      BY <3>1 DEF Entries
  <2>4. at \in Nat /\ j \in Calls
    BY <1>10, CallFields
  <2>5. j.file = call[c].file
    BY <1>10 DEF Calls
  <2> HIDE DEF j, text, stamp, at
  <2>6. /\ ProcsTyped /\ pc'[c] = "poll" /\ call'[c] = j
        /\ \A d \in Callers : d # c => pc'[d] = pc[d] /\ call'[d] = call[d]
    BY <1>21, <2>2, <2>4 DEF PC
  <2>7. BackendTyped /\ RestTyped
    BY <1>0, <2>2, SameTyped
  <2>8. LocksInv'
    BY <2>2, <2>6, LocksKept DEF Syncing
  <2>9. overlay'[f] # None
    BY <1>0, <2>1, <2>2, <2>3, <2>4, Recorded DEF RecordedAs
  <2>10. Ready(c)'
    BY <2>1, <2>5, <2>6, <2>9 DEF Ready, File
  <2>11. openFiles' \in Seq(Files) /\ IsInjective(openFiles')
    BY <1>0, <2>2, Typed
  <2> QED
    BY <1>13, <2>1, <2>2, <2>3, <2>4, <2>6, <2>7, <2>8, <2>10, <2>11
<1> QED
  BY <1>4, <1>5, <1>6, <1>7, <1>9, <1>11, <1>12, <1>15, <1>16, <1>17, <1>19, <1>22, <1>25, <1>26, <1>27,
     <1>28, <1>30, <1>31, <1>32, <1>33
     DEF Next, Advance, SyncStep, CheckStep, ReopenStep

---------------------------------------------------------------------------
(* The steps by their kind: what each does to the bridge and the server,   *)
(* all that the invariants below read.                                     *)

Others(c) == \A d \in Callers : d # c => pc'[d] = pc[d] /\ call'[d] = call[d]
Grown == (history.crossed => history'.crossed) /\ (history.raced => history'.raced)
Uncrossed(c, f) == history'.crossed \/ ~Reopening(f, c)

\* A file no message or record is about.
StillAt(g) == /\ server'[g] = server[g] /\ overlay'[g] = overlay[g] /\ past'[g] = past[g]
              /\ clock'[g] = clock[g] /\ (Contains(openFiles', g) <=> Contains(openFiles, g))
Ticked(f) == clock'[f] = clock[f] + 1

\* The server's document of f is of a new opening.
NewDoc(f, text) == /\ server'[f] # None /\ server'[f].content = text /\ server'[f].version = 1
                   /\ server'[f].opened = clock[f] + 1

\* The server's document of f is shut; an empty push may come of it.
Shuts(f) ==
  /\ f \in Files /\ server'[f] = None /\ diags'[f] = None
  /\ \A g \in Files : g # f => server'[g] = server[g] /\ diags'[g] = diags[g]
  /\ \/ wire' = wire
     \/ /\ server[f] # None
        /\ \E q \in Pushes : q.file = f /\ q.opened = server[f].opened /\ wire' = Append(wire, q)

\* The call goes on, nothing else does.
SameCall(c) == call'[c].file = call[c].file /\ call'[c].version = call[c].version /\ call'[c].from = call[c].from
Goes(c) ==
  \/ pc'[c] \notin Closing \cup {"open", "poll", "close"} /\ pc[c] \notin Closing
  \/ pc[c] = "overlay" /\ pc'[c] = "open" /\ call'[c].file = File(c) /\ call'[c].text = disk[File(c)]
  \/ /\ pc[c] = "version" /\ pc'[c] = "poll" /\ call'[c].file = File(c)
     /\ call'[c].version = overlay[File(c)].version /\ call'[c].from = Len(past[File(c)])
  \/ pc[c] = "poll" /\ pc'[c] = "close" /\ SameCall(c)
  \/ pc[c] = "get" /\ pc'[c] = "reopen" /\ SameCall(c) /\ call'[c].entry = overlay[File(c)]
Calm(c) ==
  /\ Goes(c) /\ Others(c) /\ UNCHANGED <<disk, made, serverSide, diags, history>>
  /\ \A g \in Files : StillAt(g)

\* A file is opened, for the first time or again.
Opens(c, text, stamp, at) ==
  LET f == File(c) IN
  /\ f \in Files /\ pc[c] \in {"open", "replay"} /\ pc'[c] = "evict" /\ Others(c)
  /\ NewDoc(f, text) /\ Ticked(f) /\ RecordedAs(f, text, 1, stamp, at) /\ Contains(openFiles', f)
  /\ \A g \in Files : g # f => StillAt(g)
  /\ UNCHANGED <<disk, made, wire, diags>> /\ Grown /\ Uncrossed(c, f)
  /\ \/ /\ pc[c] = "open" /\ overlay[f] = None /\ text = call[c].text /\ stamp = disk[f]
        /\ history'.raced \/ text = disk[f]
     \/ pc[c] = "replay" /\ overlay[f] # None /\ text = overlay[f].content /\ stamp = overlay[f].stamp

\* A change is sent: of a reread file, or of an edit.
Changes(c, text, stamp, at) ==
  LET f == File(c)  v == overlay[f].version + 1 IN
  /\ f \in Files /\ overlay[f] # None /\ pc'[c] \in {"evict", "idle"} /\ Others(c)
  /\ server'[f] # None <=> server[f] # None
  /\ server[f] # None => /\ server'[f].content = text /\ server'[f].version = v
                         /\ server'[f].opened = server[f].opened
  /\ Ticked(f) /\ RecordedAs(f, text, v, stamp, at) /\ (Contains(openFiles', f) <=> Contains(openFiles, f))
  /\ \A g \in Files : g # f => StillAt(g)
  /\ UNCHANGED <<disk, wire, diags>> /\ Grown /\ Uncrossed(c, f)
  /\ \/ /\ pc[c] = "reread" /\ made' = made /\ text = disk[f] /\ stamp = call[c].stamp
        /\ stamp # overlay[f].stamp /\ (history'.raced \/ text = stamp)
     \/ /\ pc[c] = "apply" /\ text = made[f] + 1 /\ made' = [made EXCEPT ![f] = text]
        /\ stamp = overlay[f].stamp

\* The least recently used file is closed.
Evicts(c, f) ==
  /\ pc[c] = "evict" /\ Shuts(f) /\ ~Contains(openFiles', f)
  /\ \A g \in Files : g # f => (Contains(openFiles', g) <=> Contains(openFiles, g))
  /\ UNCHANGED <<disk, made, overlay, past, clock, pc, call>> /\ Grown /\ Uncrossed(c, f)

\* A stalled check closes, opens and records its file again.
Closes(c) ==
  LET f == File(c) IN
  /\ pc[c] = "close" /\ pc'[c] = "get" /\ Others(c) /\ SameCall(c)
  /\ Shuts(f) /\ Ticked(f) /\ \A g \in Files : g # f => StillAt(g)
  /\ UNCHANGED <<disk, made, overlay, past, openFiles>> /\ Grown /\ Uncrossed(c, f)
  /\ history'.crossed \/ server[f] # None
Reopens(c) ==
  LET f == File(c) IN
  /\ f \in Files /\ pc[c] = "reopen" /\ pc'[c] = "insert" /\ Others(c) /\ call' = call
  /\ NewDoc(f, call[c].entry.content) /\ Ticked(f) /\ \A g \in Files : g # f => StillAt(g)
  /\ UNCHANGED <<disk, made, overlay, past, openFiles, wire, diags>> /\ Grown /\ Uncrossed(c, f)
Inserts(c, at) ==
  LET f == File(c)  e == call[c].entry IN
  /\ f \in Files /\ pc[c] = "insert" /\ pc'[c] = "poll" /\ Others(c)
  /\ call'[c].file = f /\ call'[c].version = 1 /\ call'[c].from = call[c].from
  /\ e \in Entries /\ RecordedAs(f, e.content, 1, e.stamp, at)
  /\ \A g \in Files : g # f => StillAt(g)
  /\ UNCHANGED <<disk, made, server, openFiles, wire, diags, clock, history>>

\* The backend analyzes a document; a push arrives; the disk is written.
Analyzes(f) ==
  /\ server[f] # None /\ server'[f] # None
  /\ server'[f].content = server[f].content /\ server'[f].version = server[f].version
  /\ server'[f].opened = server[f].opened
  /\ \A g \in Files : g # f => server'[g] = server[g]
  /\ \E q \in Pushes : /\ q.file = f /\ q.opened = server[f].opened /\ q.content = server[f].content
                       /\ q.version = None \/ q.version = server[f].version
                       /\ wire' = Append(wire, q)
  /\ UNCHANGED <<disk, made, overlay, past, openFiles, diags, clock, pc, call, history>>
Arrives(f) ==
  /\ \E q \in Pushes : /\ wire # <<>> /\ q = Head(wire) /\ q.file = f /\ wire' = Tail(wire) /\ diags'[f] # None
                       /\ diags'[f].version = q.version /\ diags'[f].content = q.content
                       /\ diags'[f].opened = q.opened
  /\ \A g \in Files : g # f => diags'[g] = diags[g]
  /\ UNCHANGED <<disk, made, overlay, past, openFiles, server, clock, pc, call, history>>
Writes(f) ==
  /\ made' = [made EXCEPT ![f] = made[f] + 1] /\ disk' = [disk EXCEPT ![f] = made[f] + 1]
  /\ UNCHANGED <<overlay, past, openFiles, server, wire, diags, clock, pc, call, history>>

\* A step, by its kind.
Kind ==
  \/ UNCHANGED vars
  \/ \E f \in Files : Analyzes(f) \/ Arrives(f) \/ Writes(f)
  \/ \E c \in Callers : Calm(c) \/ Closes(c) \/ Reopens(c)
  \/ \E c \in Callers, f \in Files : Evicts(c, f)
  \/ \E c \in Callers, text, stamp, at \in Nat : Opens(c, text, stamp, at) \/ Changes(c, text, stamp, at)
  \/ \E c \in Callers, at \in Nat : Inserts(c, at)

LEMMA OfTheBackend ==
  ASSUME Base, NEW f \in Files
  PROVE  (Analyze(f) => Analyzes(f)) /\ (DiskWrite(f) => Writes(f))
<1>1. DocsTypes
  BY DEF Base
<1>2. ASSUME Analyze(f) PROVE Analyzes(f)
  <2>1. PICK v : /\ v = None \/ v = server[f].version
                 /\ wire' = Append(wire, Push(f, v, server[f].content, server[f].opened))
    BY <1>2 DEF Analyze
  <2> DEFINE q == Push(f, v, server[f].content, server[f].opened)
             d == [server[f] EXCEPT !.pushed = TRUE]
  <2>2. server[f] \in Docs /\ server[f] # None
    BY <1>1, <1>2, Typed DEF Analyze
  <2>3. /\ q \in Pushes /\ q.file = f /\ q.opened = server[f].opened /\ q.content = server[f].content
        /\ q.version = None \/ q.version = server[f].version
    BY <2>1, <2>2 DEF Push, Pushes, Docs
  <2>4. d \in Docs /\ d.content = server[f].content /\ d.version = server[f].version /\ d.opened = server[f].opened
    BY <2>2 DEF Docs
  <2>5. server' = [server EXCEPT ![f] = d] /\ server \in [Files -> Docs \cup {None}]
    BY <1>1, <1>2 DEF Analyze, DocsTypes, LspTypeOK, Docs
  <2> HIDE DEF d
  <2>6. server'[f] = d /\ server'[f] # None /\ \A g \in Files : g # f => server'[g] = server[g]
    BY <2>4, <2>5, NoneFacts
  <2>7. wire' = Append(wire, q)
    BY <2>1
  <2> HIDE DEF q
  <2>8. UNCHANGED <<disk, made, overlay, past, openFiles, diags, clock, pc, call, history>>
    BY <1>2 DEF Analyze, outside, bridgeSide
  <2> QED
    BY <2>2, <2>3, <2>4, <2>6, <2>7, <2>8 DEF Analyzes
<1>3. ASSUME DiskWrite(f) PROVE Writes(f)
  BY <1>3 DEF DiskWrite, Writes, bridgeSide, serverSide
<1> QED
  BY <1>2, <1>3

LEMMA OfAnArrival == Base /\ Arrive => \E f \in Files : Arrives(f)
<1> SUFFICES ASSUME Base, Arrive PROVE \E f \in Files : Arrives(f)
  OBVIOUS
<1> DEFINE p == Head(wire)
           d == [version |-> p.version, content |-> p.content, opened |-> p.opened, after |-> clock[p.file]]
<1>1. DocsTypes
  BY DEF Base
<1>2. wire \in Seq(Pushes) /\ wire # <<>> /\ wire' = Tail(wire)
  BY <1>1, Typed DEF Arrive
<1>3. p \in Pushes
  BY <1>2, TailFacts
<1>4. p.file \in Files /\ d \in Caches /\ d.version = p.version /\ d.content = p.content /\ d.opened = p.opened
  <2>1. p.file \in Files /\ p.version \in Nat \cup {None} /\ p.content \in Nat \cup {None} /\ p.opened \in Nat
    BY <1>3 DEF Pushes
  <2>2. clock[p.file] \in Nat
    BY <1>1, <2>1, Typed
  <2> QED
    BY <2>1, <2>2 DEF Caches
<1>5. diags' = [diags EXCEPT ![p.file] = d] /\ diags \in [Files -> Caches \cup {None}]
  BY <1>1 DEF Arrive, DocsTypes, LspTypeOK, Caches
<1>6. UNCHANGED <<disk, made, overlay, past, openFiles, server, clock, pc, call, history>>
  BY DEF Arrive, outside, bridgeSide
<1>7. p = Head(wire)
  OBVIOUS
<1> HIDE DEF p, d
<1>8. diags'[p.file] = d /\ d # None /\ \A g \in Files : g # p.file => diags'[g] = diags[g]
  BY <1>4, <1>5, NoneFacts
<1>9. Arrives(p.file)
  BY <1>2, <1>3, <1>4, <1>6, <1>7, <1>8 DEF Arrives
<1> QED
  BY <1>4, <1>9

LEMMA OfEviction ==
  ASSUME Base, NEW c \in Callers, Evict(c)
  PROVE  \E f \in Files : Evicts(c, f)
<1> DEFINE victim == Head(openFiles)
<1>1. DocsTypes /\ pc[c] = "evict"
  BY DEF Base, Evict
<1>2. openFiles \in Seq(Files) /\ IsInjective(openFiles) /\ Len(openFiles) > Cap
  BY <1>1, Typed DEF Evict
<1>3. openFiles # <<>>
  BY <1>2, LspAssumption, EmptySeq
<1>4. /\ victim \in Files /\ ~Contains(Tail(openFiles), victim)
      /\ \A g \in Files : g # victim => (Contains(Tail(openFiles), g) <=> Contains(openFiles, g))
  BY <1>2, <1>3, TailFacts
<1>5. /\ openFiles' = Tail(openFiles) /\ DidClose(victim) /\ Forget(victim)
      /\ history' = [history EXCEPT !.crossed = @ \/ Reopening(victim, c)]
      /\ UNCHANGED <<disk, made, overlay, past, clock, pc, call>>
  BY DEF Evict, Crossing, outside
<1> HIDE DEF victim
<1>6. Shuts(victim)
  BY <1>1, <1>4, <1>5, ClosedDoc DEF Shuts
<1>7. Grown /\ Uncrossed(c, victim)
  BY <1>1, <1>5 DEF DocsTypes, LspTypeOK, Grown, Uncrossed
<1>8. Evicts(c, victim)
  BY <1>1, <1>4, <1>5, <1>6, <1>7 DEF Evicts
<1> QED
  BY <1>4, <1>8

LEMMA OfAnOpening ==
  ASSUME Base, NEW c \in Callers, OpenFirst(c) \/ Replay(c)
  PROVE  \E text, stamp, at \in Nat : Opens(c, text, stamp, at)
<1> DEFINE f == File(c)
           at == Now(f)
<1>1. DocsTypes /\ KnownInv /\ Ready(c) /\ pc[c] \in {"open", "replay"}
  BY DEF Base, ReadyInv, OpenFirst, Replay, ReplayOf
<1>2. f \in Files
  BY <1>1 DEF Ready
<1>3. /\ disk[f] \in Nat /\ at \in Nat /\ openFiles \in Seq(Files)
      /\ overlay[f] # None => overlay[f] \in Entries
  BY <1>1, <1>2, Typed DEF Now
<1>4. PICK text \in Nat, stamp \in Nat :
        /\ DidOpen(f, text) /\ Record(f, text, 1, stamp, at)
        /\ \/ /\ pc[c] = "open" /\ overlay[f] = None /\ text = call[c].text /\ stamp = disk[f]
              /\ history'.raced \/ text = disk[f]
           \/ pc[c] = "replay" /\ overlay[f] # None /\ text = overlay[f].content /\ stamp = overlay[f].stamp
  <2>1. CASE OpenFirst(c)
    <3>1. pc[c] = "open" /\ overlay[f] = None /\ call[c].text \in Nat
      BY <1>1, <2>1 DEF OpenFirst, Ready
    <3>2. DidOpen(f, call[c].text) /\ Record(f, call[c].text, 1, disk[f], at)
      BY <2>1 DEF OpenFirst
    <3>3. history'.raced \/ call[c].text = disk[f]
      <4>1. history' = [history EXCEPT !.crossed = @ \/ Reopening(f, c), !.raced = @ \/ disk[f] # call[c].text]
        BY <2>1 DEF OpenFirst
      <4> QED
        BY <1>1, <4>1 DEF DocsTypes, LspTypeOK
    <3> DEFINE t0 == call[c].text
               s0 == disk[f]
    <3>4. /\ t0 \in Nat /\ s0 \in Nat /\ DidOpen(f, t0) /\ Record(f, t0, 1, s0, at)
          /\ pc[c] = "open" /\ overlay[f] = None /\ t0 = call[c].text /\ s0 = disk[f]
          /\ history'.raced \/ t0 = disk[f]
      BY <1>3, <3>1, <3>2, <3>3
    <3> HIDE DEF t0, s0
    <3> QED
      BY <3>4
  <2>2. CASE Replay(c)
    <3>1. pc[c] = "replay" /\ overlay[f] # None
      BY <1>1, <2>2 DEF Replay, ReplayOf, Ready
    <3>2. DidOpen(f, overlay[f].content) /\ Record(f, overlay[f].content, 1, overlay[f].stamp, at)
      BY <2>2 DEF Replay, ReplayOf
    <3>3. overlay[f].content \in Nat /\ overlay[f].stamp \in Nat
      BY <1>3, <3>1 DEF Entries
    <3> QED
      BY <3>1, <3>2, <3>3
  <2> QED
    BY <2>1, <2>2
<1>5. /\ openFiles' = Append(openFiles, f) /\ Goto(c, "evict") /\ Set(c, Mutated(c)) /\ Tick(f)
      /\ UNCHANGED <<disk, made, diags>>
  BY DEF OpenFirst, Replay, ReplayOf, outside
<1>6. Grown /\ Uncrossed(c, f)
  <2>1. \/ history' = [history EXCEPT !.crossed = @ \/ Reopening(f, c)]
        \/ history' = [history EXCEPT !.crossed = @ \/ Reopening(f, c), !.raced = @ \/ disk[f] # call[c].text]
    BY DEF OpenFirst, Replay, ReplayOf, Crossing
  <2> QED
    BY <1>1, <2>1 DEF DocsTypes, LspTypeOK, Grown, Uncrossed
<1> HIDE DEF f, at
<1>7. RecordedAs(f, text, 1, stamp, at)
  BY <1>1, <1>2, <1>3, <1>4, Recorded
<1>8. /\ NewDoc(f, text) /\ wire' = wire
      /\ \A g \in Files : g # f => server'[g] = server[g]
  BY <1>1, <1>2, <1>4, OpenedTyped DEF NewDoc
<1>9. \A g : Contains(openFiles', g) <=> Contains(openFiles, g) \/ g = f
  BY <1>2, <1>3, <1>5, AppendFacts
<1>10. Ticked(f) /\ \A g \in Files : g # f => clock'[g] = clock[g]
  BY <1>1, <1>2, <1>5 DEF Tick, Ticked, DocsTypes, LspTypeOK
<1>11. pc'[c] = "evict" /\ Others(c)
  BY <1>1, <1>5 DEF DocsTypes, LspTypeOK, Goto, Set, Others
<1>12. \A g \in Files : g # f => StillAt(g)
  BY <1>7, <1>8, <1>9, <1>10 DEF RecordedAs, StillAt
<1>13. Opens(c, text, stamp, at)
  BY <1>1, <1>2, <1>4, <1>5, <1>6, <1>7, <1>8, <1>9, <1>10, <1>11, <1>12 DEF Opens, f
<1> QED
  BY <1>3, <1>13

LEMMA OfAChange ==
  ASSUME Base, NEW c \in Callers, ChangeFromDisk(c) \/ ApplyEdit(c)
  PROVE  \E text, stamp, at \in Nat : Changes(c, text, stamp, at)
<1> DEFINE f == File(c)
           at == Now(f)
           v == overlay[f].version + 1
<1>1. DocsTypes /\ KnownInv /\ Ready(c) /\ pc[c] \in {"reread", "apply"}
  BY DEF Base, ReadyInv, ChangeFromDisk, ApplyEdit, ApplyStamped
<1>2. f \in Files /\ overlay[f] # None
  BY <1>1 DEF Ready
<1>3. disk[f] \in Nat /\ made[f] \in Nat /\ at \in Nat /\ overlay[f] \in Entries
  BY <1>1, <1>2, Typed DEF Now
<1>4. v \in Nat /\ overlay[f].stamp \in Nat
  BY <1>3 DEF Entries
<1>5. PICK text \in Nat, stamp \in Nat :
        /\ DidChange(f, v, text) /\ Record(f, text, v, stamp, at)
        /\ \/ /\ pc[c] = "reread" /\ made' = made /\ text = disk[f] /\ stamp = call[c].stamp
              /\ stamp # overlay[f].stamp /\ (history'.raced \/ text = stamp)
           \/ /\ pc[c] = "apply" /\ text = made[f] + 1 /\ made' = [made EXCEPT ![f] = text]
              /\ stamp = overlay[f].stamp
  <2>1. CASE ChangeFromDisk(c)
    <3>1. pc[c] = "reread" /\ call[c].stamp \in Nat /\ call[c].stamp # overlay[f].stamp
      BY <1>1, <2>1 DEF ChangeFromDisk, Ready
    <3>2. DidChange(f, v, disk[f]) /\ Record(f, disk[f], v, call[c].stamp, at) /\ made' = made
      BY <2>1 DEF ChangeFromDisk, outside
    <3>3. history'.raced \/ disk[f] = call[c].stamp
      <4>1. history' = [history EXCEPT !.crossed = @ \/ Reopening(f, c), !.raced = @ \/ disk[f] # call[c].stamp]
        BY <2>1 DEF ChangeFromDisk
      <4> QED
        BY <1>1, <4>1 DEF DocsTypes, LspTypeOK
    <3> QED
      BY <1>3, <3>1, <3>2, <3>3
  <2>2. CASE ApplyEdit(c)
    <3>1. /\ pc[c] = "apply" /\ DidChange(f, v, made[f] + 1) /\ made' = [made EXCEPT ![f] = made[f] + 1]
          /\ Record(f, made[f] + 1, v, overlay[f].stamp, at)
      BY <2>2 DEF ApplyEdit, ApplyStamped
    <3> DEFINE t0 == made[f] + 1
               s0 == overlay[f].stamp
    <3>2. /\ t0 \in Nat /\ s0 \in Nat /\ DidChange(f, v, t0) /\ Record(f, t0, v, s0, at)
          /\ pc[c] = "apply" /\ t0 = made[f] + 1 /\ made' = [made EXCEPT ![f] = t0] /\ s0 = overlay[f].stamp
      BY <1>3, <1>4, <3>1
    <3> HIDE DEF t0, s0
    <3> QED
      BY <3>2
  <2> QED
    BY <2>1, <2>2
<1>6. /\ openFiles' = openFiles /\ Tick(f) /\ UNCHANGED <<disk, diags>>
      /\ \E to \in {"evict", "idle"} : Goto(c, to)
      /\ \E j : Set(c, j)
  BY DEF ChangeFromDisk, ApplyEdit, ApplyStamped, outside
<1>7. Grown /\ Uncrossed(c, f)
  <2>1. \/ history' = [history EXCEPT !.crossed = @ \/ Reopening(f, c)]
        \/ history' = [history EXCEPT !.crossed = @ \/ Reopening(f, c), !.raced = @ \/ disk[f] # call[c].stamp]
    BY DEF ChangeFromDisk, ApplyEdit, ApplyStamped, Crossing
  <2> QED
    BY <1>1, <2>1 DEF DocsTypes, LspTypeOK, Grown, Uncrossed
<1> HIDE DEF f, at, v
<1>8. RecordedAs(f, text, v, stamp, at)
  BY <1>1, <1>2, <1>3, <1>4, <1>5, Recorded
<1>9. /\ server'[f] # None <=> server[f] # None
      /\ server[f] # None => /\ server'[f].content = text /\ server'[f].version = v
                             /\ server'[f].opened = server[f].opened
      /\ \A g \in Files : g # f => server'[g] = server[g]
      /\ wire' = wire
  BY <1>1, <1>2, <1>4, <1>5, ChangedDoc
<1>10. Ticked(f) /\ \A g \in Files : g # f => clock'[g] = clock[g]
  BY <1>1, <1>2, <1>6 DEF Tick, Ticked, DocsTypes, LspTypeOK
<1>11. pc'[c] \in {"evict", "idle"} /\ Others(c)
  BY <1>1, <1>6 DEF DocsTypes, LspTypeOK, Goto, Set, Others
<1>12. \A g \in Files : g # f => StillAt(g)
  BY <1>6, <1>8, <1>9, <1>10 DEF RecordedAs, StillAt
<1>13. Changes(c, text, stamp, at)
  BY <1>2, <1>5, <1>6, <1>7, <1>8, <1>9, <1>10, <1>11, <1>12 DEF Changes, f, v
<1> QED
  BY <1>3, <1>13

LEMMA OfAClose ==
  ASSUME Base, NEW c \in Callers, CloseAgain(c)
  PROVE  Closes(c)
<1> DEFINE f == File(c)
           j == [call[c] EXCEPT !.basis = Now(f)]
<1>1. DocsTypes /\ Ready(c) /\ pc[c] = "close" /\ call[c] \in Calls
  BY Typed DEF Base, ReadyInv, CloseAgain
<1>2. f \in Files
  BY <1>1 DEF Ready
<1>3. /\ DidClose(f) /\ Forget(f) /\ Tick(f) /\ Goto(c, "get") /\ Set(c, j)
      /\ UNCHANGED <<disk, made, overlay, past, openFiles>>
      /\ history' = [history EXCEPT !.crossed = @ \/ Reopening(f, c) \/ server[f] = None]
  BY DEF CloseAgain, outside, bridgeSide
<1>4. j.file = call[c].file /\ j.version = call[c].version /\ j.from = call[c].from
  BY <1>1 DEF Calls
<1> HIDE DEF f, j
<1>5. Grown /\ Uncrossed(c, f) /\ (history'.crossed \/ server[f] # None)
  BY <1>1, <1>3 DEF DocsTypes, LspTypeOK, Grown, Uncrossed
<1>6. Ticked(f) /\ \A g \in Files : g # f => clock'[g] = clock[g]
  BY <1>1, <1>2, <1>3 DEF Tick, Ticked, DocsTypes, LspTypeOK
<1>7. pc'[c] = "get" /\ call'[c] = j /\ Others(c)
  BY <1>1, <1>3 DEF DocsTypes, LspTypeOK, Goto, Set, Others
<1>8. Shuts(f)
  BY <1>1, <1>2, <1>3, ClosedDoc DEF Shuts
<1>9. \A g \in Files : g # f => StillAt(g)
  BY <1>3, <1>6, <1>8 DEF StillAt, Shuts
<1> QED
  BY <1>1, <1>3, <1>4, <1>5, <1>6, <1>7, <1>8, <1>9 DEF Closes, SameCall, f

LEMMA OfAReopening ==
  ASSUME Base, NEW c \in Callers, OpenAgain(c)
  PROVE  Reopens(c)
<1> DEFINE f == File(c)
           text == call[c].entry.content
<1>1. DocsTypes /\ Ready(c) /\ pc[c] = "reopen" /\ call[c] \in Calls
  BY Typed DEF Base, ReadyInv, OpenAgain
<1>2. f \in Files /\ call[c].entry # None
  BY <1>1 DEF Ready
<1>3. /\ DidOpen(f, text) /\ Tick(f) /\ Goto(c, "insert") /\ call' = call
      /\ UNCHANGED <<disk, made, overlay, past, openFiles, diags>>
      /\ history' = [history EXCEPT !.crossed = @ \/ Reopening(f, c)]
  BY DEF OpenAgain, Crossing, outside, bridgeSide
<1>4. text \in Nat
  <2>1. call[c].entry \in Entries
    BY <1>1, <1>2, CallFields
  <2> QED
    BY <2>1 DEF Entries
<1> HIDE DEF f, text
<1>5. Grown /\ Uncrossed(c, f)
  BY <1>1, <1>3 DEF DocsTypes, LspTypeOK, Grown, Uncrossed
<1>6. Ticked(f) /\ \A g \in Files : g # f => clock'[g] = clock[g]
  BY <1>1, <1>2, <1>3 DEF Tick, Ticked, DocsTypes, LspTypeOK
<1>7. pc'[c] = "insert" /\ Others(c)
  BY <1>1, <1>3 DEF DocsTypes, LspTypeOK, Goto, Others
<1>8. NewDoc(f, text) /\ wire' = wire /\ \A g \in Files : g # f => server'[g] = server[g]
  BY <1>1, <1>2, <1>3, <1>4, OpenedTyped DEF NewDoc
<1>9. \A g \in Files : g # f => StillAt(g)
  BY <1>3, <1>6, <1>8 DEF StillAt
<1> QED
  BY <1>1, <1>2, <1>3, <1>5, <1>6, <1>7, <1>8, <1>9 DEF Reopens, f, text

LEMMA OfAnInsert ==
  ASSUME Base, NEW c \in Callers, InsertOverlay(c)
  PROVE  \E at \in Nat : Inserts(c, at)
<1> DEFINE f == File(c)
           e == call[c].entry
           text == e.content
           stamp == e.stamp
           at == call[c].basis
           j == [call[c] EXCEPT !.version = 1, !.reissued = TRUE, !.entry = None]
<1>1. DocsTypes /\ KnownInv /\ Ready(c) /\ pc[c] = "insert" /\ call[c] \in Calls
  BY Typed DEF Base, ReadyInv, InsertOverlay
<1>2. f \in Files /\ e # None
  BY <1>1 DEF Ready
<1>3. /\ Record(f, text, 1, stamp, at) /\ Goto(c, "poll") /\ Set(c, j)
      /\ UNCHANGED <<disk, made, server, openFiles, wire, diags, clock, history>>
  BY DEF InsertOverlay, outside, serverSide
<1>4. e \in Entries /\ text \in Nat /\ stamp \in Nat /\ at \in Nat
  <2>1. e \in Entries /\ at \in Nat
    BY <1>1, <1>2, CallFields
  <2> QED
    BY <2>1 DEF Entries
<1>5. j.file = call[c].file /\ j.version = 1 /\ j.from = call[c].from
  BY <1>1 DEF Calls
<1> HIDE DEF f, text, stamp, at, j
<1>6. RecordedAs(f, text, 1, stamp, at)
  BY <1>1, <1>2, <1>3, <1>4, Recorded
<1>7. pc'[c] = "poll" /\ call'[c] = j /\ Others(c)
  BY <1>1, <1>3 DEF DocsTypes, LspTypeOK, Goto, Set, Others
<1>8. \A g \in Files : g # f => StillAt(g)
  BY <1>3, <1>6 DEF StillAt, RecordedAs
<1>9. call'[c].file = f
  BY <1>5, <1>7 DEF f, File
<1>10. Inserts(c, at)
  BY <1>1, <1>2, <1>3, <1>4, <1>5, <1>6, <1>7, <1>8, <1>9 DEF Inserts, f, text, stamp
<1> QED
  BY <1>4, <1>10

LEMMA OfACalmStep ==
  ASSUME Base, NEW c \in Callers,
         \/ TakeOpenFiles(c) \/ TakeOverlay(c) \/ Synced(c) \/ ReadVersion(c) \/ Converge(c)
         \/ Deadline(c) \/ Stalled(c) \/ GetOverlay(c)
         \/ \E op \in {"edit", "check"}, f \in Files : Start(c, op, f)
  PROVE  Calm(c)
<1>1. DocsTypes /\ call[c] \in Calls /\ pc \in [Callers -> PC] /\ call \in [Callers -> Calls] /\ Ready(c)
  <2>1. DocsTypes /\ Ready(c)
    BY DEF Base, ReadyInv
  <2>2. pc \in [Callers -> PC] /\ call \in [Callers -> Calls]
    BY <2>1 DEF DocsTypes, LspTypeOK, Calls
  <2> QED
    BY <2>1, <2>2
<1>2. UNCHANGED <<disk, made, overlay, past, serverSide, diags, clock, history>>
  BY DEF TakeOpenFiles, TakeOverlay, Synced, ReadVersion, Converge, Deadline, Stalled, GetOverlay, Start,
         outside, bridgeSide
<1>3. \A g \in Files : Contains(openFiles', g) <=> Contains(openFiles, g)
  <2>1. CASE TakeOpenFiles(c)
    <3>1. openFiles' = Touched(File(c)) /\ File(c) \in Files
      BY <1>1, <2>1 DEF TakeOpenFiles, Ready
    <3> QED
      BY <1>1, <3>1, Typed, TouchedFacts
  <2>2. CASE ~TakeOpenFiles(c)
    BY <2>2 DEF TakeOverlay, Synced, ReadVersion, Converge, Deadline, Stalled, GetOverlay, Start, bridgeSide
  <2> QED
    BY <2>1, <2>2
<1>4. \A g \in Files : StillAt(g)
  BY <1>2, <1>3 DEF StillAt, serverSide
<1>5. (\E to : Goto(c, to)) /\ (call' = call \/ \E j : Set(c, j))
  BY DEF TakeOpenFiles, TakeOverlay, Synced, ReadVersion, Converge, Deadline, Stalled, GetOverlay, Start
<1>6. Others(c)
  BY <1>1, <1>5 DEF Goto, Set, Others
<1>7. Goes(c)
  <2> DEFINE quiet == pc'[c] \notin Closing \cup {"open", "poll", "close"} /\ pc[c] \notin Closing
  <2>1. CASE TakeOpenFiles(c)
    <3>1. pc'[c] = "overlay" /\ pc[c] = "sync"
      BY <1>1, <2>1 DEF TakeOpenFiles, Goto
    <3> QED
      BY <3>1 DEF Goes, Closing
  <2>2. CASE TakeOverlay(c)
    <3>1. pc[c] = "overlay"
      BY <2>2 DEF TakeOverlay
    <3>2. CASE Goto(c, "open") /\ Set(c, [call[c] EXCEPT !.text = disk[File(c)]])
      <4>1. pc'[c] = "open" /\ call'[c] = [call[c] EXCEPT !.text = disk[File(c)]]
        BY <1>1, <3>2 DEF Goto, Set
      <4>2. call'[c].text = disk[File(c)] /\ call'[c].file = File(c)
        BY <1>1, <4>1 DEF Calls, File
      <4> QED
        BY <3>1, <4>1, <4>2 DEF Goes
    <3>3. CASE Goto(c, "reread") \/ Goto(c, "evict") \/ Goto(c, "replay")
      <4>1. pc'[c] \in {"reread", "evict", "replay"}
        BY <1>1, <3>3 DEF Goto
      <4> QED
        BY <3>1, <4>1 DEF Goes, Closing
    <3> QED
      BY <2>2, <3>2, <3>3 DEF TakeOverlay
  <2>3. CASE Synced(c)
    <3>1. pc'[c] \in {"apply", "version"} /\ pc[c] = "evict"
      BY <1>1, <2>3 DEF Synced, Goto
    <3> QED
      BY <3>1 DEF Goes, Closing
  <2>4. CASE ReadVersion(c)
    <3> DEFINE v == overlay[File(c)].version
               n == Len(past[File(c)])
    <3>1. pc'[c] = "poll" /\ pc[c] = "version" /\ call'[c] = [call[c] EXCEPT !.version = v, !.from = n]
      BY <1>1, <2>4 DEF ReadVersion, Goto, Set
    <3> HIDE DEF v, n
    <3>2. call'[c].version = v /\ call'[c].from = n /\ call'[c].file = File(c)
      BY <1>1, <3>1 DEF Calls, File
    <3> QED
      BY <3>1, <3>2 DEF Goes, v, n
  <2>5. CASE Converge(c) \/ Deadline(c)
    <3>1. pc'[c] = "idle" /\ pc[c] = "poll"
      BY <1>1, <2>5 DEF Converge, Deadline, Goto
    <3> QED
      BY <3>1 DEF Goes, Closing
  <2>6. CASE Stalled(c)
    <3>1. pc'[c] = "close" /\ pc[c] = "poll" /\ call' = call
      BY <1>1, <2>6 DEF Stalled, Goto
    <3> QED
      BY <3>1 DEF Goes, SameCall
  <2>7. CASE GetOverlay(c)
    <3> DEFINE e == overlay[File(c)]
    <3>1. pc'[c] = "reopen" /\ pc[c] = "get" /\ call'[c] = [call[c] EXCEPT !.entry = e]
      BY <1>1, <2>7 DEF GetOverlay, Goto, Set
    <3> HIDE DEF e
    <3>2. call'[c].entry = e /\ SameCall(c)
      BY <1>1, <3>1 DEF Calls, SameCall
    <3> QED
      BY <3>1, <3>2 DEF Goes, e
  <2>8. CASE \E op \in {"edit", "check"}, f \in Files : Start(c, op, f)
    <3>1. pc'[c] = "sync" /\ pc[c] = "idle"
      BY <1>1, <2>8 DEF Start, Goto
    <3> QED
      BY <3>1 DEF Goes, Closing
  <2> QED
    BY <2>1, <2>2, <2>3, <2>4, <2>5, <2>6, <2>7, <2>8
<1> QED
  BY <1>2, <1>4, <1>6, <1>7 DEF Calm

LEMMA Kinds == Base /\ [Next]_vars => Kind
<1> SUFFICES ASSUME Base, [Next]_vars PROVE Kind
  OBVIOUS
<1>1. ASSUME NEW f \in Files, Analyze(f) \/ DiskWrite(f) PROVE Kind
  BY <1>1, OfTheBackend DEF Kind
<1>2. CASE Arrive
  BY <1>2, OfAnArrival DEF Kind
<1>3. ASSUME NEW c \in Callers, Evict(c) PROVE Kind
  BY <1>3, OfEviction DEF Kind
<1>4. ASSUME NEW c \in Callers, OpenFirst(c) \/ Replay(c) PROVE Kind
  <2>1. \E text, stamp, at \in Nat : Opens(c, text, stamp, at)
    BY <1>4, OfAnOpening
  <2> QED
    BY <2>1 DEF Kind
<1>5. ASSUME NEW c \in Callers, ChangeFromDisk(c) \/ ApplyEdit(c) PROVE Kind
  <2>1. \E text, stamp, at \in Nat : Changes(c, text, stamp, at)
    BY <1>5, OfAChange
  <2> QED
    BY <2>1 DEF Kind
<1>6. ASSUME NEW c \in Callers, CloseAgain(c) \/ OpenAgain(c) PROVE Kind
  BY <1>6, OfAClose, OfAReopening DEF Kind
<1>7. ASSUME NEW c \in Callers, InsertOverlay(c) PROVE Kind
  BY <1>7, OfAnInsert DEF Kind
<1>8. ASSUME NEW c \in Callers,
             \/ TakeOpenFiles(c) \/ TakeOverlay(c) \/ Synced(c) \/ ReadVersion(c) \/ Converge(c)
             \/ Deadline(c) \/ Stalled(c) \/ GetOverlay(c)
             \/ \E op \in {"edit", "check"}, f \in Files : Start(c, op, f)
      PROVE  Kind
  <2>1. Calm(c)
    BY <1>8, OfACalmStep
  <2> QED
    BY <2>1 DEF Kind
<1>9. CASE UNCHANGED vars
  BY <1>9 DEF Kind
<1> QED
  BY <1>1, <1>2, <1>3, <1>4, <1>5, <1>6, <1>7, <1>8, <1>9 DEF Next, Advance, SyncStep, CheckStep, ReopenStep

---------------------------------------------------------------------------
(* What the overlays hold: contents that were made, stamps of contents     *)
(* that were sent.                                                         *)

\* What a step does to the overlay of f.
Kept(f) == /\ overlay'[f] = overlay[f] /\ past'[f] = past[f]
           /\ \/ disk'[f] = disk[f] /\ made'[f] = made[f]
              \/ disk'[f] = made[f] + 1 /\ made'[f] = made[f] + 1
First(f, text, stamp) ==
  /\ overlay[f] = None /\ stamp = disk[f] /\ (history'.raced \/ text = disk[f]) /\ made'[f] = made[f]
  /\ \E c \in Callers : pc[c] = "open" /\ File(c) = f /\ text = call[c].text
Reread(f, text, stamp) ==
  /\ overlay[f] # None /\ text = disk[f] /\ stamp # overlay[f].stamp /\ (history'.raced \/ text = stamp)
  /\ made'[f] = made[f]
Again(f, text, stamp) ==
  overlay[f] # None /\ text = overlay[f].content /\ stamp = overlay[f].stamp /\ made'[f] = made[f]
Edited(f, text, stamp) ==
  overlay[f] # None /\ text = made[f] + 1 /\ stamp = overlay[f].stamp /\ made'[f] = made[f] + 1
Back(f, text, stamp) ==
  /\ overlay[f] # None /\ made'[f] = made[f] /\ history' = history
  /\ \E c \in Callers : /\ pc[c] = "insert" /\ File(c) = f
                        /\ text = call[c].entry.content /\ stamp = call[c].entry.stamp
Sent(f, text, stamp) ==
  /\ disk'[f] = disk[f] /\ \E v \in Nat, at \in Nat : RecordedAs(f, text, v, stamp, at)
  /\ \/ First(f, text, stamp) \/ Reread(f, text, stamp) \/ Again(f, text, stamp) \/ Edited(f, text, stamp)
     \/ Back(f, text, stamp)
Overlaid(f) == Kept(f) \/ \E text, stamp \in Nat : Sent(f, text, stamp)

LEMMA Overlays == Base /\ Kind => Grown /\ \A f \in Files : Overlaid(f)
<1> SUFFICES ASSUME Base, Kind PROVE Grown /\ \A f \in Files : Overlaid(f)
  OBVIOUS
<1>1. ReadyInv /\ DocsTypes
  BY DEF Base
<1>2. ASSUME UNCHANGED <<disk, made, overlay, past>> PROVE \A f \in Files : Overlaid(f)
  BY <1>2 DEF Overlaid, Kept
<1>3. CASE UNCHANGED vars
  BY <1>2, <1>3 DEF vars, Grown
<1>4. ASSUME NEW f \in Files, Analyzes(f) \/ Arrives(f) PROVE Grown /\ \A g \in Files : Overlaid(g)
  BY <1>2, <1>4 DEF Analyzes, Arrives, Grown
<1>5. ASSUME NEW f \in Files, Writes(f) PROVE Grown /\ \A g \in Files : Overlaid(g)
  <2>1. disk \in [Files -> Nat] /\ made \in [Files -> Nat]
    BY <1>1 DEF DocsTypes, LspTypeOK
  <2> QED
    BY <1>5, <2>1 DEF Writes, Overlaid, Kept, Grown
<1>6. ASSUME NEW c \in Callers, Calm(c) \/ Closes(c) \/ Reopens(c) PROVE Grown /\ \A f \in Files : Overlaid(f)
  <2>1. CASE Calm(c)
    BY <1>6, <2>1 DEF Calm, StillAt, Overlaid, Kept, Grown
  <2>2. CASE Closes(c) \/ Reopens(c)
    BY <1>2, <2>2 DEF Closes, Reopens
  <2> QED
    BY <1>6, <2>1, <2>2
<1>7. ASSUME NEW c \in Callers, NEW f \in Files, Evicts(c, f) PROVE Grown /\ \A g \in Files : Overlaid(g)
  BY <1>2, <1>7 DEF Evicts
<1>8. ASSUME NEW c \in Callers, NEW text \in Nat, NEW stamp \in Nat, NEW at \in Nat, Opens(c, text, stamp, at)
      PROVE  Grown /\ \A g \in Files : Overlaid(g)
  <2> DEFINE f == File(c)
  <2>1. f \in Files /\ Grown /\ disk' = disk /\ made' = made /\ \A g \in Files : g # f => StillAt(g)
    BY <1>8 DEF Opens
  <2>2. \A g \in Files : g # f => Kept(g)
    BY <2>1 DEF StillAt, Kept
  <2>3. First(f, text, stamp) \/ Again(f, text, stamp)
    BY <1>8 DEF Opens, First, Again
  <2>4. RecordedAs(f, text, 1, stamp, at)
    BY <1>8 DEF Opens
  <2>5. Sent(f, text, stamp)
    BY <2>1, <2>3, <2>4 DEF Sent
  <2> QED
    BY <2>1, <2>2, <2>5 DEF Overlaid
<1>9. ASSUME NEW c \in Callers, NEW text \in Nat, NEW stamp \in Nat, NEW at \in Nat, Changes(c, text, stamp, at)
      PROVE  Grown /\ \A g \in Files : Overlaid(g)
  <2> DEFINE f == File(c)
             v == overlay[f].version + 1
  <2>1. f \in Files /\ Grown /\ disk' = disk /\ overlay[f] # None /\ \A g \in Files : g # f => StillAt(g)
    BY <1>9 DEF Changes
  <2>2. made' = made \/ made' = [made EXCEPT ![f] = text]
    BY <1>9 DEF Changes
  <2>3. \A g \in Files : g # f => Kept(g)
    <3>1. \A g \in Files : g # f => made'[g] = made[g]
      BY <1>1, <2>2 DEF DocsTypes, LspTypeOK
    <3> QED
      BY <2>1, <3>1 DEF StillAt, Kept
  <2>4. Reread(f, text, stamp) \/ Edited(f, text, stamp)
    <3>1. made \in [Files -> Nat]
      BY <1>1 DEF DocsTypes, LspTypeOK
    <3>2. CASE pc[c] = "reread"
      BY <1>9, <3>2 DEF Changes, Reread
    <3>3. CASE pc[c] = "apply"
      <4>1. text = made[f] + 1 /\ made' = [made EXCEPT ![f] = text] /\ stamp = overlay[f].stamp
        BY <1>9, <3>3 DEF Changes
      <4>2. made'[f] = text
        BY <2>1, <3>1, <4>1
      <4> QED
        BY <2>1, <4>1, <4>2 DEF Edited
    <3> QED
      BY <1>9, <3>2, <3>3 DEF Changes
  <2>5. RecordedAs(f, text, v, stamp, at)
    BY <1>9 DEF Changes
  <2>6. v \in Nat
    BY <1>1, <2>1, Typed DEF Entries
  <2> HIDE DEF v
  <2>7. Sent(f, text, stamp)
    BY <2>1, <2>4, <2>5, <2>6 DEF Sent
  <2> QED
    BY <2>1, <2>3, <2>7 DEF Overlaid
<1>10. ASSUME NEW c \in Callers, NEW at \in Nat, Inserts(c, at) PROVE Grown /\ \A g \in Files : Overlaid(g)
  <2> DEFINE f == File(c)
             text == call[c].entry.content
             stamp == call[c].entry.stamp
  <2>1. /\ f \in Files /\ Grown /\ disk' = disk /\ made' = made /\ \A g \in Files : g # f => StillAt(g)
        /\ pc[c] = "insert" /\ call[c].entry \in Entries /\ RecordedAs(f, text, 1, stamp, at) /\ history' = history
    BY <1>10 DEF Inserts, Grown
  <2>2. \A g \in Files : g # f => Kept(g)
    BY <2>1 DEF StillAt, Kept
  <2>3. overlay[f] # None
    BY <1>1, <2>1 DEF ReadyInv, Ready
  <2>4. text \in Nat /\ stamp \in Nat
    BY <2>1 DEF Entries
  <2>5. Back(f, text, stamp)
    BY <2>1, <2>3 DEF Back
  <2> HIDE DEF text, stamp
  <2>6. Sent(f, text, stamp)
    BY <2>1, <2>5 DEF Sent
  <2> QED
    BY <2>1, <2>2, <2>4, <2>6 DEF Overlaid
<1> QED
  BY <1>3, <1>4, <1>5, <1>6, <1>7, <1>8, <1>9, <1>10 DEF Kind

\* What a call holds of its file, it has read before or reads in the step.
Holds(c) ==
  /\ pc'[c] = "open" => \/ pc[c] = "open" /\ call'[c] = call[c]
                        \/ pc[c] = "overlay" /\ call'[c].file = File(c) /\ call'[c].text = disk[File(c)]
  /\ pc'[c] \in {"reopen", "insert"} =>
       \/ pc[c] \in {"reopen", "insert"} /\ call'[c] = call[c]
       \/ pc[c] = "get" /\ call'[c].file = File(c) /\ call'[c].entry = overlay[File(c)]

LEMMA Hold == Kind => \A c \in Callers : Holds(c)
<1> SUFFICES ASSUME Kind, NEW c \in Callers PROVE Holds(c)
  OBVIOUS
<1>1. ASSUME UNCHANGED <<pc, call>> PROVE Holds(c)
  BY <1>1 DEF Holds
<1>2. ASSUME NEW d \in Callers, Others(d), d = c => Holds(c) PROVE Holds(c)
  BY <1>2 DEF Others, Holds
<1>3. ASSUME NEW d \in Callers, Calm(d) PROVE Holds(c)
  BY <1>2, <1>3 DEF Calm, Goes, SameCall, Holds, Closing, File
<1>4. ASSUME NEW d \in Callers, Closes(d) \/ Reopens(d) PROVE Holds(c)
  BY <1>2, <1>4 DEF Closes, Reopens, Holds
<1>5. ASSUME NEW d \in Callers, NEW text, NEW stamp, NEW at, Opens(d, text, stamp, at) \/ Changes(d, text, stamp, at)
      PROVE  Holds(c)
  BY <1>2, <1>5 DEF Opens, Changes, Holds
<1>6. ASSUME NEW d \in Callers, NEW at, Inserts(d, at) PROVE Holds(c)
  BY <1>2, <1>6 DEF Inserts, Holds
<1> QED
  BY <1>1, <1>3, <1>4, <1>5, <1>6 DEF Kind, vars, Analyzes, Arrives, Writes, Evicts

\* No content of a file, and none a call holds of it, is newer than the last one made.
MadeInv ==
  /\ \A f \in Files : disk[f] <= made[f] /\ \A x : Contains(past[f], x) => x <= made[f]
  /\ \A c \in Callers : /\ pc[c] = "open" => call[c].text <= made[File(c)]
                        /\ pc[c] \in {"reopen", "insert"} => call[c].entry.content <= made[File(c)]

\* The content of an overlay is one of its contents.
LEMMA LastRecorded ==
  ASSUME Base, NEW f \in Files, overlay[f] # None
  PROVE  /\ overlay[f] \in Entries /\ Contains(past[f], overlay[f].content)
         /\ past[f] # <<>> /\ Last(past[f]) = overlay[f].content
         /\ Len(past[f]) \in Nat \ {0} /\ past[f][Len(past[f])] = overlay[f].content
<1>1. overlay[f] \in Entries /\ past[f] \in Seq(Nat)
  BY Typed DEF Base
<1>2. past[f] # <<>> /\ Last(past[f]) = overlay[f].content
  BY DEF Base, KnownInv
<1>3. Len(past[f]) \in Nat \ {0}
  BY <1>1, <1>2, EmptySeq, LenProperties
<1>4. past[f][Len(past[f])] = overlay[f].content
  BY <1>2 DEF Last
<1> QED
  BY <1>1, <1>2, <1>3, <1>4 DEF Contains

LEMMA MadeInit == Init => MadeInv
<1> SUFFICES ASSUME Init PROVE MadeInv
  OBVIOUS
<1>1. \A x : ~Contains(<<>>, x)
  BY DEF Contains
<1> QED
  BY <1>1 DEF Init, MadeInv

LEMMA MadeNext == Base /\ Kind /\ MadeInv => MadeInv'
<1> SUFFICES ASSUME Base, Kind, MadeInv PROVE MadeInv'
  OBVIOUS
<1>0. DocsTypes /\ ReadyInv
  BY DEF Base
<1>1. ASSUME NEW f \in Files
      PROVE  /\ made'[f] \in Nat /\ made[f] \in Nat /\ disk[f] \in Nat /\ made[f] <= made'[f] /\ disk'[f] <= made'[f]
             /\ \A x : Contains(past'[f], x) => x <= made'[f]
  <2>1. made[f] \in Nat /\ disk[f] \in Nat /\ disk[f] <= made[f] /\ past[f] \in Seq(Nat)
    BY <1>0, Typed DEF MadeInv
  <2>2. \A x : Contains(past[f], x) => x <= made[f] /\ x \in Nat
    <3>1. ASSUME NEW x, Contains(past[f], x) PROVE x \in Nat
      <4>1. \E i \in 1 .. Len(past[f]) : past[f][i] = x
        BY <2>1, <3>1, ContainsFacts
      <4> QED
        BY <2>1, <4>1, ElementOfSeq
    <3> QED
      BY <3>1 DEF MadeInv
  <2>3. CASE Kept(f)
    BY <2>1, <2>2, <2>3 DEF Kept
  <2>4. ASSUME NEW text \in Nat, NEW stamp \in Nat, Sent(f, text, stamp)
        PROVE  /\ made'[f] \in Nat /\ made[f] <= made'[f] /\ disk'[f] <= made'[f]
               /\ \A x : Contains(past'[f], x) => x <= made'[f]
    <3>1. disk'[f] = disk[f] /\ \A x : Contains(past'[f], x) <=> Contains(past[f], x) \/ x = text
      BY <2>4 DEF Sent, RecordedAs
    <3>2. CASE First(f, text, stamp)
      BY <1>0, <2>1, <2>2, <3>1, <3>2 DEF First, MadeInv
    <3>3. CASE Reread(f, text, stamp)
      BY <2>1, <2>2, <3>1, <3>3 DEF Reread
    <3>4. CASE Again(f, text, stamp)
      BY <2>1, <2>2, <3>1, <3>4, LastRecorded DEF Again
    <3>5. CASE Edited(f, text, stamp)
      BY <2>1, <2>2, <3>1, <3>5 DEF Edited
    <3>6. CASE Back(f, text, stamp)
      BY <2>1, <2>2, <3>1, <3>6 DEF Back, MadeInv
    <3> QED
      BY <2>4, <3>2, <3>3, <3>4, <3>5, <3>6 DEF Sent
  <2> QED
    BY <2>1, <2>3, <2>4, Overlays DEF Overlaid
<1>2. ASSUME NEW c \in Callers
      PROVE  /\ pc'[c] = "open" => call'[c].text <= made'[call'[c].file]
             /\ pc'[c] \in {"reopen", "insert"} => call'[c].entry.content <= made'[call'[c].file]
  <2>1. Holds(c) /\ Ready(c) /\ call[c] \in Calls
    BY <1>0, Hold, Typed DEF ReadyInv
  <2>2. pc[c] # "idle" => File(c) \in Files
    BY <2>1 DEF Ready
  <2>3. CASE pc'[c] = "open"
    <3>1. pc[c] \in {"open", "overlay"} /\ call'[c].file = File(c) /\ File(c) \in Files
      BY <2>1, <2>2, <2>3 DEF Holds, File
    <3>2. call'[c].text <= made[File(c)] /\ call'[c].text \in Nat
      <4>1. CASE pc[c] = "open" /\ call'[c] = call[c]
        BY <2>1, <4>1 DEF MadeInv, Ready
      <4>2. CASE call'[c].text = disk[File(c)]
        BY <1>1, <3>1, <4>2 DEF MadeInv
      <4> QED
        BY <2>1, <2>3, <4>1, <4>2 DEF Holds
    <3> QED
      BY <1>1, <2>3, <3>1, <3>2
  <2>4. CASE pc'[c] \in {"reopen", "insert"}
    <3>1. pc[c] \in {"reopen", "insert", "get"} /\ call'[c].file = File(c) /\ File(c) \in Files
      BY <2>1, <2>2, <2>4 DEF Holds, File
    <3>2. call'[c].entry.content <= made[File(c)] /\ call'[c].entry.content \in Nat
      <4>1. CASE pc[c] \in {"reopen", "insert"} /\ call'[c] = call[c]
        <5>1. call[c].entry # None
          BY <2>1, <4>1 DEF Ready
        <5>2. call[c].entry \in Entries
          BY <2>1, <5>1, CallFields
        <5> QED
          BY <4>1, <5>2 DEF MadeInv, Entries
      <4>2. CASE pc[c] = "get" /\ call'[c].entry = overlay[File(c)]
        <5>1. overlay[File(c)] # None
          BY <2>1, <4>2 DEF Ready
        <5>2. overlay[File(c)] \in Entries /\ Contains(past[File(c)], overlay[File(c)].content)
          BY <3>1, <5>1, LastRecorded
        <5> QED
          BY <3>1, <4>2, <5>2 DEF MadeInv, Entries
      <4> QED
        BY <2>1, <2>4, <4>1, <4>2 DEF Holds
    <3> QED
      BY <1>1, <2>4, <3>1, <3>2
  <2> QED
    BY <2>3, <2>4
<1> QED
  BY <1>1, <1>2 DEF MadeInv, File

\* Unless the disk was written between a stamp and its read, the stamp of an
\* overlay, and the one a reopening call carries, is of a content that was sent.
StampInv ==
  ~history.raced =>
    /\ \A f \in Files : overlay[f] # None => Contains(past[f], overlay[f].stamp)
    /\ \A c \in Callers : pc[c] \in {"reopen", "insert"} => Contains(past[File(c)], call[c].entry.stamp)

LEMMA StampNext == Base /\ Kind /\ StampInv => StampInv'
<1> SUFFICES ASSUME Base, Kind, StampInv, ~history'.raced PROVE StampInv'
  BY DEF StampInv
<1>0. DocsTypes /\ ReadyInv
  BY DEF Base
<1>1. ~history.raced
  BY Overlays DEF Grown
<1>2. ASSUME NEW f \in Files
      PROVE  /\ \A x : Contains(past[f], x) => Contains(past'[f], x)
             /\ overlay'[f] # None => Contains(past'[f], overlay'[f].stamp)
  <2>1. CASE Kept(f)
    BY <1>1, <2>1 DEF Kept, StampInv
  <2>2. ASSUME NEW text \in Nat, NEW stamp \in Nat, Sent(f, text, stamp)
        PROVE  /\ \A x : Contains(past[f], x) => Contains(past'[f], x)
               /\ Contains(past'[f], overlay'[f].stamp)
    <3>1. overlay'[f].stamp = stamp /\ \A x : Contains(past'[f], x) <=> Contains(past[f], x) \/ x = text
      BY <2>2 DEF Sent, RecordedAs
    <3>2. CASE First(f, text, stamp)
      BY <3>1, <3>2 DEF First
    <3>3. CASE Reread(f, text, stamp)
      BY <3>1, <3>3 DEF Reread
    <3>4. CASE Again(f, text, stamp)
      BY <1>1, <3>1, <3>4 DEF Again, StampInv
    <3>5. CASE Edited(f, text, stamp)
      BY <1>1, <3>1, <3>5 DEF Edited, StampInv
    <3>6. CASE Back(f, text, stamp)
      BY <1>1, <3>1, <3>6 DEF Back, StampInv
    <3> QED
      BY <2>2, <3>1, <3>2, <3>3, <3>4, <3>5, <3>6 DEF Sent
  <2> QED
    BY <2>1, <2>2, Overlays DEF Overlaid
<1>3. ASSUME NEW c \in Callers, pc'[c] \in {"reopen", "insert"}
      PROVE  Contains(past'[call'[c].file], call'[c].entry.stamp)
  <2>1. Holds(c) /\ Ready(c)
    BY <1>0, Hold DEF ReadyInv
  <2>2. pc[c] \in {"reopen", "insert", "get"} /\ call'[c].file = File(c) /\ File(c) \in Files
    BY <1>3, <2>1 DEF Holds, File, Ready
  <2>3. Contains(past[File(c)], call'[c].entry.stamp)
    <3>1. CASE pc[c] \in {"reopen", "insert"} /\ call'[c] = call[c]
      BY <1>1, <3>1 DEF StampInv
    <3>2. CASE pc[c] = "get" /\ call'[c].entry = overlay[File(c)]
      BY <1>1, <2>1, <2>2, <3>2 DEF StampInv, Ready
    <3> QED
      BY <1>3, <2>1, <3>1, <3>2 DEF Holds
  <2> QED
    BY <1>2, <2>2, <2>3
<1> QED
  BY <1>2, <1>3 DEF StampInv, File

---------------------------------------------------------------------------
(* The bridge and the server agree, the files being reopened included.     *)

Closed(c, f) == pc[c] \in Closing /\ File(c) = f
Mirrors(f) == /\ server[f] # None <=> Contains(openFiles, f)
              /\ server[f] # None => /\ server[f].content = overlay[f].content
                                     /\ server[f].version = overlay[f].version

\* The file of a call that reopens it: nobody else does, the bridge calls it open,
\* and what is sent and recorded in the end is its overlay of before.
HalfOpen(c, f) ==
  /\ \A d \in Callers \ {c} : ~Closed(d, f)
  /\ Contains(openFiles, f)
  /\ pc[c] \in {"get", "reopen"} => server[f] = None
  /\ pc[c] \in {"reopen", "insert"} => /\ call[c].entry.content = overlay[f].content
                                       /\ call[c].entry.stamp = overlay[f].stamp
  /\ pc[c] = "insert" => server[f] # None /\ server[f].content = overlay[f].content /\ server[f].version = 1
Agrees(f) == /\ (\A c \in Callers : ~Closed(c, f)) => Mirrors(f)
             /\ \A c \in Callers : Closed(c, f) => HalfOpen(c, f)
AgreeInv == ~history.crossed => \A f \in Files : Agrees(f)

LEMMA AgreeInit == Init => AgreeInv
<1> SUFFICES ASSUME Init PROVE AgreeInv
  OBVIOUS
<1>1. \A x : ~Contains(<<>>, x)
  BY DEF Contains
<1>2. \A c \in Callers, f \in Files : ~Closed(c, f)
  BY DEF Init, Closed, Closing
<1> QED
  BY <1>1, <1>2 DEF Init, AgreeInv, Agrees, Mirrors

\* A file no step is about, to the bridge and the server.
SameAt(f) ==
  /\ overlay'[f] = overlay[f] /\ (Contains(openFiles', f) <=> Contains(openFiles, f))
  /\ server'[f] # None <=> server[f] # None
  /\ server[f] # None => server'[f].content = server[f].content /\ server'[f].version = server[f].version
LEMMA AgreesStill ==
  ASSUME NEW f \in Files, Agrees(f), SameAt(f),
         \A c \in Callers : \/ pc'[c] = pc[c] /\ call'[c] = call[c]
                            \/ ~Closed(c, f) /\ ~Closed(c, f)'
  PROVE  Agrees(f)'
<1>1. \A c \in Callers : Closed(c, f)' <=> Closed(c, f)
  BY DEF Closed, File
<1>2. Mirrors(f) => Mirrors(f)'
  BY DEF Mirrors, SameAt
<1>3. ASSUME NEW c \in Callers, Closed(c, f), HalfOpen(c, f) PROVE HalfOpen(c, f)'
  <2>1. pc'[c] = pc[c] /\ call'[c] = call[c]
    BY <1>3
  <2>2. \A d \in Callers \ {c} : ~Closed(d, f)'
    BY <1>1, <1>3 DEF HalfOpen
  <2> QED
    BY <1>3, <2>1, <2>2 DEF HalfOpen, SameAt
<1> QED
  BY <1>1, <1>2, <1>3 DEF Agrees

\* Of the files, what a caller's step leaves alone.
LEMMA AgreesElsewhere ==
  ASSUME NEW c \in Callers, Others(c), NEW f \in Files, StillAt(f), Agrees(f), File(c) # f, call'[c].file # f
  PROVE  Agrees(f)'
<1>1. SameAt(f)
  BY DEF StillAt, SameAt
<1>2. ~Closed(c, f) /\ ~Closed(c, f)'
  BY DEF Closed, File
<1>3. \A d \in Callers : \/ pc'[d] = pc[d] /\ call'[d] = call[d]
                         \/ ~Closed(d, f) /\ ~Closed(d, f)'
  BY <1>2 DEF Others
<1> QED
  BY <1>1, <1>3, AgreesStill

LEMMA AgreeNext == Base /\ Kind /\ AgreeInv => AgreeInv'
<1> SUFFICES ASSUME Base, Kind, AgreeInv, ~history'.crossed, NEW f \in Files PROVE Agrees(f)'
  BY DEF AgreeInv
<1>0. DocsTypes /\ ReadyInv
  BY DEF Base
<1>1. Agrees(f)
  BY Overlays DEF Grown, AgreeInv
\* A step that moves no call.
<1>2. ASSUME SameAt(f), UNCHANGED <<pc, call>> PROVE Agrees(f)'
  <2>1. \A c \in Callers : pc'[c] = pc[c] /\ call'[c] = call[c]
    BY <1>2
  <2> QED
    BY <1>1, <1>2, <2>1, AgreesStill
<1>3. CASE UNCHANGED vars
  BY <1>2, <1>3 DEF vars, SameAt
<1>4. ASSUME NEW g \in Files, Analyzes(g) PROVE Agrees(f)'
  <2>1. SameAt(f)
    BY <1>4 DEF Analyzes, SameAt
  <2> QED
    BY <1>2, <1>4, <2>1 DEF Analyzes
<1>5. ASSUME NEW g \in Files, Arrives(g) \/ Writes(g) PROVE Agrees(f)'
  BY <1>2, <1>5 DEF Arrives, Writes, SameAt
\* A caller's own file, nobody else reopening it.
<1>6. ASSUME NEW c \in Callers, f = File(c), Uncrossed(c, f) PROVE \A d \in Callers \ {c} : ~Closed(d, f)
  BY <1>6 DEF Uncrossed, Reopening, Closed
<1>7. ASSUME NEW c \in Callers, Calm(c) PROVE Agrees(f)'
  <2>1. SameAt(f) /\ Others(c) /\ Goes(c)
    BY <1>7 DEF Calm, StillAt, SameAt
  <2>2. CASE ~Closed(c, f) /\ ~Closed(c, f)'
    <3>1. \A d \in Callers : \/ pc'[d] = pc[d] /\ call'[d] = call[d]
                             \/ ~Closed(d, f) /\ ~Closed(d, f)'
      BY <2>1, <2>2 DEF Others
    <3> QED
      BY <1>1, <2>1, <3>1, AgreesStill
  <2>3. CASE ~(~Closed(c, f) /\ ~Closed(c, f)')
    <3>1. pc[c] = "get" /\ pc'[c] = "reopen" /\ SameCall(c) /\ call'[c].entry = overlay[File(c)]
      BY <2>1, <2>3 DEF Goes, Closed, Closing
    <3>2. File(c) = f /\ Closed(c, f) /\ Closed(c, f)'
      BY <2>3, <3>1 DEF Closed, Closing, SameCall, File
    <3>3. HalfOpen(c, f)
      BY <1>1, <3>2 DEF Agrees
    <3>4. \A d \in Callers \ {c} : ~Closed(d, f)'
      BY <2>1, <3>3 DEF HalfOpen, Closed, Others, File
    <3>5. HalfOpen(c, f)'
      BY <2>1, <3>1, <3>2, <3>3, <3>4 DEF HalfOpen, SameAt
    <3> QED
      BY <3>2, <3>4, <3>5 DEF Agrees
  <2> QED
    BY <2>2, <2>3
<1>8. ASSUME NEW c \in Callers, NEW text, NEW stamp, NEW at, Opens(c, text, stamp, at) PROVE Agrees(f)'
  <2>1. Others(c) /\ pc[c] \in {"open", "replay"} /\ pc'[c] = "evict"
    BY <1>8 DEF Opens
  <2>2. \A g : ~Closed(c, g) /\ ~Closed(c, g)'
    BY <2>1 DEF Closed, Closing
  <2>3. CASE f # File(c)
    <3>1. SameAt(f)
      BY <1>8, <2>3 DEF Opens, StillAt, SameAt
    <3>2. \A d \in Callers : \/ pc'[d] = pc[d] /\ call'[d] = call[d]
                             \/ ~Closed(d, f) /\ ~Closed(d, f)'
      BY <2>1, <2>2 DEF Others
    <3> QED
      BY <1>1, <3>1, <3>2, AgreesStill
  <2>4. CASE f = File(c)
    <3>1. \A d \in Callers : ~Closed(d, f)
      BY <1>6, <1>8, <2>2, <2>4 DEF Opens
    <3>2. \A d \in Callers : ~Closed(d, f)'
      BY <2>1, <2>2, <3>1 DEF Closed, Others, File
    <3>3. NewDoc(f, text) /\ RecordedAs(f, text, 1, stamp, at) /\ Contains(openFiles', f)
      BY <1>8, <2>4 DEF Opens
    <3>4. Mirrors(f)'
      BY <3>3 DEF Mirrors, NewDoc, RecordedAs
    <3> QED
      BY <3>2, <3>4 DEF Agrees
  <2> QED
    BY <2>3, <2>4
<1>9. ASSUME NEW c \in Callers, NEW text, NEW stamp, NEW at, Changes(c, text, stamp, at) PROVE Agrees(f)'
  <2>1. Others(c) /\ pc[c] \in {"reread", "apply"} /\ pc'[c] \in {"evict", "idle"}
    BY <1>9 DEF Changes
  <2>2. \A g : ~Closed(c, g) /\ ~Closed(c, g)'
    BY <2>1 DEF Closed, Closing
  <2>3. CASE f # File(c)
    <3>1. SameAt(f)
      BY <1>9, <2>3 DEF Changes, StillAt, SameAt
    <3>2. \A d \in Callers : \/ pc'[d] = pc[d] /\ call'[d] = call[d]
                             \/ ~Closed(d, f) /\ ~Closed(d, f)'
      BY <2>1, <2>2 DEF Others
    <3> QED
      BY <1>1, <3>1, <3>2, AgreesStill
  <2>4. CASE f = File(c)
    <3>1. \A d \in Callers : ~Closed(d, f)
      BY <1>6, <1>9, <2>2, <2>4 DEF Changes
    <3>2. \A d \in Callers : ~Closed(d, f)'
      BY <2>1, <2>2, <3>1 DEF Closed, Others, File
    <3> DEFINE v == overlay[f].version + 1
    <3>3. /\ server'[f] # None <=> server[f] # None
          /\ server[f] # None => server'[f].content = text /\ server'[f].version = v
          /\ RecordedAs(f, text, v, stamp, at) /\ (Contains(openFiles', f) <=> Contains(openFiles, f))
      BY <1>9, <2>4 DEF Changes
    <3> HIDE DEF v
    <3>4. Mirrors(f)
      BY <1>1, <3>1 DEF Agrees
    <3>5. Mirrors(f)'
      BY <3>3, <3>4 DEF Mirrors, RecordedAs
    <3> QED
      BY <3>2, <3>5 DEF Agrees
  <2> QED
    BY <2>3, <2>4
<1>10. ASSUME NEW c \in Callers, NEW g \in Files, Evicts(c, g) PROVE Agrees(f)'
  <2>1. pc[c] = "evict" /\ UNCHANGED <<pc, call>>
    BY <1>10 DEF Evicts
  <2>2. CASE f # g
    <3>1. SameAt(f)
      BY <1>10, <2>2 DEF Evicts, Shuts, SameAt
    <3> QED
      BY <1>2, <2>1, <3>1
  <2>3. CASE f = g
    <3>1. \A d \in Callers : ~Closed(d, f)'
      BY <1>10, <2>1, <2>3 DEF Evicts, Uncrossed, Reopening, Closed, Closing, File
    <3>2. Mirrors(f)'
      BY <1>10, <2>3 DEF Evicts, Shuts, Mirrors
    <3> QED
      BY <3>1, <3>2 DEF Agrees
  <2> QED
    BY <2>2, <2>3
<1>11. ASSUME NEW c \in Callers, Closes(c) PROVE Agrees(f)'
  <2>1. Others(c) /\ pc[c] = "close" /\ pc'[c] = "get" /\ call'[c].file = File(c)
    BY <1>11 DEF Closes, SameCall, File
  <2>2. CASE f # File(c)
    <3>1. StillAt(f)
      BY <1>11, <2>2 DEF Closes
    <3> QED
      BY <1>1, <2>1, <2>2, <3>1, AgreesElsewhere
  <2>3. CASE f = File(c)
    <3>1. \A d \in Callers : ~Closed(d, f)
      BY <1>6, <1>11, <2>1, <2>3 DEF Closes, Closed, Closing
    <3>2. Contains(openFiles, f) /\ server'[f] = None /\ openFiles' = openFiles
      BY <1>1, <1>11, <2>3, <3>1 DEF Closes, Shuts, Agrees, Mirrors
    <3>3. Closed(c, f)' /\ \A d \in Callers \ {c} : ~Closed(d, f)'
      BY <2>1, <2>3, <3>1 DEF Closed, Closing, Others, File
    <3>4. HalfOpen(c, f)'
      BY <2>1, <3>2, <3>3 DEF HalfOpen
    <3> QED
      BY <3>3, <3>4 DEF Agrees
  <2> QED
    BY <2>2, <2>3
<1>12. ASSUME NEW c \in Callers, Reopens(c) PROVE Agrees(f)'
  <2>1. Others(c) /\ pc[c] = "reopen" /\ pc'[c] = "insert" /\ call' = call
    BY <1>12 DEF Reopens
  <2>2. CASE f # File(c)
    <3>1. StillAt(f) /\ call'[c].file # f
      BY <1>12, <2>1, <2>2 DEF Reopens, File
    <3> QED
      BY <1>1, <2>1, <2>2, <3>1, AgreesElsewhere
  <2>3. CASE f = File(c)
    <3>1. Closed(c, f) /\ HalfOpen(c, f)
      BY <1>1, <2>1, <2>3 DEF Agrees, Closed, Closing
    <3>2. NewDoc(f, call[c].entry.content) /\ openFiles' = openFiles /\ overlay' = overlay
      BY <1>12, <2>3 DEF Reopens
    <3>3. Closed(c, f)' /\ \A d \in Callers \ {c} : ~Closed(d, f)'
      BY <2>1, <2>3, <3>1 DEF HalfOpen, Closed, Closing, Others, File
    <3>4. HalfOpen(c, f)'
      BY <2>1, <3>1, <3>2, <3>3 DEF HalfOpen, NewDoc
    <3> QED
      BY <3>3, <3>4 DEF Agrees
  <2> QED
    BY <2>2, <2>3
<1>13. ASSUME NEW c \in Callers, NEW at, Inserts(c, at) PROVE Agrees(f)'
  <2>1. Others(c) /\ pc[c] = "insert" /\ pc'[c] = "poll" /\ call'[c].file = File(c)
    BY <1>13 DEF Inserts
  <2>2. CASE f # File(c)
    <3>1. StillAt(f)
      BY <1>13, <2>2 DEF Inserts
    <3> QED
      BY <1>1, <2>1, <2>2, <3>1, AgreesElsewhere
  <2>3. CASE f = File(c)
    <3>1. Closed(c, f) /\ HalfOpen(c, f)
      BY <1>1, <2>1, <2>3 DEF Agrees, Closed, Closing
    <3> DEFINE e == call[c].entry
    <3>2. RecordedAs(f, e.content, 1, e.stamp, at) /\ openFiles' = openFiles /\ server' = server
      BY <1>13, <2>3 DEF Inserts
    <3>3. \A d \in Callers : ~Closed(d, f)'
      BY <2>1, <3>1 DEF HalfOpen, Closed, Closing, Others, File
    <3>4. Mirrors(f)'
      BY <2>1, <3>1, <3>2 DEF HalfOpen, Mirrors, RecordedAs
    <3> QED
      BY <3>3, <3>4 DEF Agrees
  <2> QED
    BY <2>2, <2>3
<1> QED
  BY <1>3, <1>4, <1>5, <1>7, <1>8, <1>9, <1>10, <1>11, <1>12, <1>13 DEF Kind

---------------------------------------------------------------------------
(* No content comes back.                                                  *)

\* When no reopen crossed another call and no write a read: the contents of an overlay
\* are told apart, and what is on disk was sent only if it is what the stamp vouches for.
SurviveInv ==
  ~history.crossed /\ ~history.raced =>
    \A f \in Files : IsInjective(past[f]) /\ (Contains(past[f], disk[f]) => disk[f] = overlay[f].stamp)

LEMMA SurviveInit == Init => SurviveInv
<1> SUFFICES ASSUME Init PROVE SurviveInv
  OBVIOUS
<1>1. <<>> \in Seq(Nat) /\ Len(<<>>) = 0
  BY EmptySeq
<1>2. IsInjective(<<>>) <=> \A i, k \in 1 .. Len(<<>>) : <<>>[i] = <<>>[k] => i = k
  BY <1>1, ContainsFacts
<1>3. IsInjective(<<>>) /\ \A x : ~Contains(<<>>, x)
  BY <1>1, <1>2 DEF Contains
<1> QED
  BY <1>3 DEF Init, SurviveInv

LEMMA SurviveNext == Base /\ Kind /\ MadeInv /\ AgreeInv /\ SurviveInv => SurviveInv'
<1> SUFFICES ASSUME Base, Kind, MadeInv, AgreeInv, SurviveInv, ~history'.crossed, ~history'.raced, NEW f \in Files
             PROVE  IsInjective(past'[f]) /\ (Contains(past'[f], disk'[f]) => disk'[f] = overlay'[f].stamp)
  BY DEF SurviveInv
<1>1. ~history.crossed /\ ~history.raced
  BY Overlays DEF Grown
<1>2. IsInjective(past[f]) /\ (Contains(past[f], disk[f]) => disk[f] = overlay[f].stamp)
  BY <1>1 DEF SurviveInv
<1>3. /\ made[f] \in Nat /\ disk[f] \in Nat /\ disk[f] <= made[f] /\ past[f] \in Seq(Nat)
      /\ \A x : Contains(past[f], x) => x <= made[f]
  BY Typed DEF Base, MadeInv
<1>4. made[f] + 1 # disk[f] /\ ~Contains(past[f], made[f] + 1)
  BY <1>3
<1>5. CASE Kept(f)
  BY <1>2, <1>4, <1>5 DEF Kept
<1>6. ASSUME NEW text \in Nat, NEW stamp \in Nat, Sent(f, text, stamp)
      PROVE  IsInjective(past'[f]) /\ (Contains(past'[f], disk'[f]) => disk'[f] = overlay'[f].stamp)
  <2>1. /\ disk'[f] = disk[f] /\ overlay'[f].stamp = stamp
        /\ \A x : Contains(past'[f], x) <=> Contains(past[f], x) \/ x = text
        /\ ~Contains(past[f], text) => IsInjective(past'[f])
        /\ past[f] # <<>> /\ Last(past[f]) = text => past'[f] = past[f]
    BY <1>2, <1>6 DEF Sent, RecordedAs
  \* The content is the overlay's: nothing is recorded, the stamp stands.
  <2>2. ASSUME overlay[f] # None, text = overlay[f].content, stamp = overlay[f].stamp
        PROVE  IsInjective(past'[f]) /\ (Contains(past'[f], disk'[f]) => disk'[f] = overlay'[f].stamp)
    <3>1. past'[f] = past[f]
      BY <2>1, <2>2, LastRecorded
    <3> QED
      BY <1>2, <2>1, <2>2, <3>1
  <2>3. CASE First(f, text, stamp)
    <3>1. past[f] = <<>>
      BY <2>3 DEF First, Base, KnownInv
    <3>2. ~Contains(past[f], text)
      BY <3>1 DEF Contains
    <3> QED
      BY <2>1, <2>3, <3>2 DEF First
  <2>4. CASE Reread(f, text, stamp)
    <3>1. text = disk[f] /\ text = stamp /\ stamp # overlay[f].stamp
      BY <2>4 DEF Reread
    <3>2. ~Contains(past[f], text)
      BY <1>2, <3>1
    <3> QED
      BY <2>1, <3>1, <3>2
  <2>5. CASE Again(f, text, stamp)
    BY <2>2, <2>5 DEF Again
  <2>6. CASE Edited(f, text, stamp)
    <3>1. text # disk[f] /\ ~Contains(past[f], text) /\ stamp = overlay[f].stamp
      BY <1>4, <2>6 DEF Edited
    <3> QED
      BY <1>2, <2>1, <3>1
  <2>7. CASE Back(f, text, stamp)
    <3>1. PICK c \in Callers : /\ pc[c] = "insert" /\ File(c) = f
                               /\ text = call[c].entry.content /\ stamp = call[c].entry.stamp
      BY <2>7 DEF Back
    <3>2. HalfOpen(c, f)
      BY <1>1, <3>1 DEF AgreeInv, Agrees, Closed, Closing
    <3> QED
      BY <2>2, <2>7, <3>1, <3>2 DEF HalfOpen, Back
  <2> QED
    BY <1>6, <2>3, <2>4, <2>5, <2>6, <2>7 DEF Sent
<1> QED
  BY <1>5, <1>6, Overlays DEF Overlaid

---------------------------------------------------------------------------
(* The pushes and what a check reports.                                    *)

\* A push of version v with content t, of the document opened at o, is under way or cached.
Found(f, v, t, o) ==
  \/ \E q \in Pushes : Contains(wire, q) /\ q.file = f /\ q.version = v /\ q.content = t /\ q.opened = o
  \/ diags[f] # None /\ diags[f].version = v /\ diags[f].content = t /\ diags[f].opened = o

\* A push is of no later opening, and of this one no later version; one of this
\* version has its content.
PushOK(f, v, t, o) ==
  /\ o <= clock[f]
  /\ server[f] # None /\ o = server[f].opened /\ v # None =>
       v <= server[f].version /\ (v = server[f].version => t = server[f].content)
PushInv ==
  ~history.crossed =>
    \A f \in Files : /\ server[f] # None => server[f].opened <= clock[f]
                     /\ \A v, t, o : Found(f, v, t, o) => PushOK(f, v, t, o)

\* What a check may find under its version is of a content its file had since.
Since(f, from, version) ==
  /\ from \in 1 .. Len(past[f])
  /\ \A v, t, o : Found(f, v, t, o) /\ server[f] # None /\ o = server[f].opened /\ v # None /\ v >= version =>
       \E i \in from .. Len(past[f]) : past[f][i] = t
Checking == {"poll", "close"} \cup Closing
CheckInv ==
  ~history.crossed => \A c \in Callers : pc[c] \in Checking => Since(File(c), call[c].from, call[c].version)

LEMMA PushesInit == Init => PushInv /\ CheckInv
<1> SUFFICES ASSUME Init PROVE PushInv /\ CheckInv
  OBVIOUS
<1>1. \A x : ~Contains(<<>>, x)
  BY DEF Contains
<1>2. \A f \in Files : \A v, t, o : ~Found(f, v, t, o)
  BY <1>1 DEF Init, Found
<1> QED
  BY <1>2 DEF Init, PushInv, CheckInv, Checking, Closing

LEMMA FoundTyped ==
  ASSUME Base, NEW f \in Files, NEW v, NEW t, NEW o, Found(f, v, t, o)
  PROVE  o \in Nat /\ v \in Nat \cup {None}
<1>1. diags[f] # None => diags[f] \in Caches
  BY Typed DEF Base
<1> QED
  BY <1>1 DEF Found, Pushes, Caches

\* What a step does to the document of f and to the pushes about it.
FoundKept(f) == \A v, t, o : Found(f, v, t, o)' => Found(f, v, t, o)
Steady(f) ==
  /\ clock'[f] = clock[f] /\ (server'[f] # None <=> server[f] # None)
  /\ server[f] # None => /\ server'[f].content = server[f].content /\ server'[f].version = server[f].version
                         /\ server'[f].opened = server[f].opened
  /\ \A v, t, o : Found(f, v, t, o)' =>
       \/ Found(f, v, t, o)
       \/ /\ server[f] # None /\ o = server[f].opened /\ t = server[f].content
          /\ v = None \/ v = server[f].version
Anew(f) == server'[f] # None /\ server'[f].opened = clock[f] + 1 /\ Ticked(f) /\ FoundKept(f)
Changed(f) ==
  /\ server'[f] # None <=> server[f] # None
  /\ server[f] # None => server'[f].version = overlay[f].version + 1 /\ server'[f].opened = server[f].opened
  /\ Ticked(f) /\ FoundKept(f)
  /\ history'.crossed \/ \A d \in Callers : ~Closed(d, f)
Shut(f) ==
  /\ server'[f] = None /\ (clock'[f] = clock[f] \/ Ticked(f))
  /\ \A v, t, o : Found(f, v, t, o)' => Found(f, v, t, o) \/ (server[f] # None /\ o = server[f].opened)
Served(f) == Steady(f) \/ Anew(f) \/ Changed(f) \/ Shut(f)

LEMMA ShutsFound ==
  ASSUME Base, NEW g \in Files, Shuts(g), NEW f \in Files
  PROVE  /\ f # g => server'[f] = server[f] /\ FoundKept(f)
         /\ f = g => /\ server'[f] = None
                     /\ \A v, t, o : Found(f, v, t, o)' => Found(f, v, t, o) \/ (server[f] # None /\ o = server[f].opened)
<1>1. wire \in Seq(Pushes)
  BY Typed DEF Base
<1>2. \A q : Contains(wire', q) => Contains(wire, q) \/ (q.file = g /\ server[g] # None /\ q.opened = server[g].opened)
  <2>1. CASE wire' = wire
    BY <2>1
  <2>2. ASSUME NEW p \in Pushes, p.file = g, p.opened = server[g].opened, server[g] # None, wire' = Append(wire, p)
        PROVE  \A q : Contains(wire', q) => Contains(wire, q) \/ (q.file = g /\ server[g] # None /\ q.opened = server[g].opened)
    <3>1. \A q : Contains(wire', q) <=> Contains(wire, q) \/ q = p
      BY <1>1, <2>2, AppendFacts
    <3> QED
      BY <2>2, <3>1
  <2> QED
    BY <2>1, <2>2 DEF Shuts
<1>3. ASSUME f # g PROVE server'[f] = server[f] /\ FoundKept(f)
  BY <1>2, <1>3 DEF Shuts, FoundKept, Found
<1>4. ASSUME f = g
      PROVE  /\ server'[f] = None
             /\ \A v, t, o : Found(f, v, t, o)' => Found(f, v, t, o) \/ (server[f] # None /\ o = server[f].opened)
  BY <1>2, <1>4 DEF Shuts, Found
<1> QED
  BY <1>3, <1>4

LEMMA Documents == Base /\ Kind => \A f \in Files : Served(f)
<1> SUFFICES ASSUME Base, Kind, NEW f \in Files PROVE Served(f)
  OBVIOUS
<1>0. DocsTypes /\ wire \in Seq(Pushes)
  BY DEF Base, DocsTypes
\* The pushes are as they were.
<1>1. ASSUME UNCHANGED <<wire, diags>> PROVE FoundKept(f)
  BY <1>1 DEF FoundKept, Found
<1>2. ASSUME server'[f] = server[f], clock'[f] = clock[f], FoundKept(f) PROVE Served(f)
  BY <1>2 DEF Served, Steady, FoundKept
<1>3. CASE UNCHANGED vars
  BY <1>1, <1>2, <1>3 DEF vars
<1>4. ASSUME NEW g \in Files, Analyzes(g) PROVE Served(f)
  <2>1. PICK p \in Pushes : /\ p.file = g /\ p.opened = server[g].opened /\ p.content = server[g].content
                            /\ p.version = None \/ p.version = server[g].version
                            /\ wire' = Append(wire, p)
    BY <1>4 DEF Analyzes
  <2>2. \A q : Contains(wire', q) <=> Contains(wire, q) \/ q = p
    BY <1>0, <2>1, AppendFacts
  <2>3. diags' = diags /\ clock' = clock /\ server[g] # None
    BY <1>4 DEF Analyzes
  <2>4. CASE f # g
    <3>1. FoundKept(f)
      BY <2>1, <2>2, <2>3, <2>4 DEF FoundKept, Found
    <3>2. server'[f] = server[f]
      BY <1>4, <2>4 DEF Analyzes
    <3> QED
      BY <1>2, <2>3, <3>1, <3>2
  <2>5. CASE f = g
    <3>1. \A v, t, o : Found(f, v, t, o)' =>
            \/ Found(f, v, t, o)
            \/ /\ server[f] # None /\ o = server[f].opened /\ t = server[f].content
               /\ v = None \/ v = server[f].version
      BY <2>1, <2>2, <2>3, <2>5 DEF Found
    <3>2. Steady(f)
      BY <1>4, <2>3, <2>5, <3>1 DEF Analyzes, Steady
    <3> QED
      BY <3>2 DEF Served
  <2> QED
    BY <2>4, <2>5
<1>5. ASSUME NEW g \in Files, Arrives(g) PROVE Served(f)
  <2>1. PICK p \in Pushes : /\ wire # <<>> /\ p = Head(wire) /\ p.file = g /\ wire' = Tail(wire) /\ diags'[g] # None
                            /\ diags'[g].version = p.version /\ diags'[g].content = p.content
                            /\ diags'[g].opened = p.opened
    BY <1>5 DEF Arrives
  <2>2. Contains(wire, p) /\ \A q : Contains(wire', q) => Contains(wire, q)
    BY <1>0, <2>1, TailFacts
  <2>3. FoundKept(f)
    BY <1>5, <2>1, <2>2 DEF Arrives, FoundKept, Found
  <2> QED
    BY <1>2, <1>5, <2>3 DEF Arrives
<1>6. ASSUME NEW g \in Files, Writes(g) PROVE Served(f)
  BY <1>1, <1>2, <1>6 DEF Writes
<1>7. ASSUME NEW c \in Callers, Calm(c) PROVE Served(f)
  BY <1>1, <1>2, <1>7 DEF Calm, StillAt, serverSide
<1>8. ASSUME NEW c \in Callers, NEW at, Inserts(c, at) PROVE Served(f)
  BY <1>1, <1>2, <1>8 DEF Inserts
<1>9. ASSUME NEW c \in Callers, NEW text, NEW stamp, NEW at, Opens(c, text, stamp, at) PROVE Served(f)
  <2>1. FoundKept(f)
    BY <1>1, <1>9 DEF Opens
  <2>2. CASE f = File(c)
    BY <1>9, <2>1, <2>2 DEF Opens, NewDoc, Anew, Served
  <2>3. CASE f # File(c)
    BY <1>2, <1>9, <2>1, <2>3 DEF Opens, StillAt
  <2> QED
    BY <2>2, <2>3
<1>10. ASSUME NEW c \in Callers, NEW text, NEW stamp, NEW at, Changes(c, text, stamp, at) PROVE Served(f)
  <2>1. FoundKept(f)
    BY <1>1, <1>10 DEF Changes
  <2>2. CASE f = File(c)
    <3>1. history'.crossed \/ \A d \in Callers : ~Closed(d, f)
      BY <1>10, <2>2 DEF Changes, Uncrossed, Reopening, Closed, Closing
    <3> QED
      BY <1>10, <2>1, <2>2, <3>1 DEF Changes, Changed, Served
  <2>3. CASE f # File(c)
    BY <1>2, <1>10, <2>1, <2>3 DEF Changes, StillAt
  <2> QED
    BY <2>2, <2>3
<1>11. ASSUME NEW c \in Callers, NEW g \in Files, Evicts(c, g) PROVE Served(f)
  <2>1. Shuts(g) /\ clock' = clock
    BY <1>11 DEF Evicts
  <2> QED
    BY <1>2, <2>1, ShutsFound DEF Shut, Served
<1>12. ASSUME NEW c \in Callers, Closes(c) PROVE Served(f)
  <2>1. /\ File(c) \in Files /\ Shuts(File(c)) /\ Ticked(File(c))
        /\ f # File(c) => clock'[f] = clock[f]
    BY <1>12 DEF Closes, Shuts, StillAt
  <2> QED
    BY <1>2, <2>1, ShutsFound DEF Shut, Served
<1>13. ASSUME NEW c \in Callers, Reopens(c) PROVE Served(f)
  <2>1. FoundKept(f)
    BY <1>1, <1>13 DEF Reopens
  <2>2. CASE f = File(c)
    BY <1>13, <2>1, <2>2 DEF Reopens, NewDoc, Anew, Served
  <2>3. CASE f # File(c)
    BY <1>2, <1>13, <2>1, <2>3 DEF Reopens, StillAt
  <2> QED
    BY <2>2, <2>3
<1> QED
  BY <1>3, <1>4, <1>5, <1>6, <1>7, <1>8, <1>9, <1>10, <1>11, <1>12, <1>13 DEF Kind

\* Unless a reopen crossed another call, an open document is its overlay's, of no
\* later version.
LEMMA OpenIsKnown ==
  ASSUME Base, AgreeInv, ~history.crossed, NEW f \in Files, server[f] # None
  PROVE  /\ overlay[f] # None /\ server[f].content = overlay[f].content
         /\ server[f].version \in Nat /\ overlay[f].version \in Nat /\ server[f].version <= overlay[f].version
         /\ server[f].opened \in Nat
<1>1. Agrees(f) /\ server[f] \in Docs
  BY Typed DEF AgreeInv, Base
<1>2. server[f].version \in Nat /\ server[f].opened \in Nat
  BY <1>1 DEF Docs
<1>3. overlay[f] # None => overlay[f].version \in Nat /\ overlay[f].version > 0
  <2>1. overlay[f] # None => overlay[f] \in Entries
    BY LastRecorded
  <2> QED
    BY <2>1 DEF Base, KnownInv, Entries
<1>4. Contains(openFiles, f) => overlay[f] # None
  BY DEF Base, KnownInv
<1>5. CASE \A c \in Callers : ~Closed(c, f)
  BY <1>1, <1>2, <1>3, <1>4, <1>5 DEF Agrees, Mirrors
<1>6. ASSUME NEW c \in Callers, Closed(c, f) PROVE overlay[f] # None /\ server[f].content = overlay[f].content /\ server[f].version = 1
  <2>1. HalfOpen(c, f) /\ pc[c] \in Closing
    BY <1>1, <1>6 DEF Agrees, Closed
  <2> QED
    BY <1>4, <2>1 DEF HalfOpen, Closing
<1> QED
  BY <1>2, <1>3, <1>5, <1>6

LEMMA PushNext == Base /\ Kind /\ AgreeInv /\ PushInv => PushInv'
<1> SUFFICES ASSUME Base, Kind, AgreeInv, PushInv, ~history'.crossed, NEW f \in Files
             PROVE  /\ server'[f] # None => server'[f].opened <= clock'[f]
                    /\ \A v, t, o : Found(f, v, t, o)' => PushOK(f, v, t, o)'
  BY DEF PushInv
<1>1. ~history.crossed
  BY Overlays DEF Grown
<1>2. /\ server[f] # None => server[f].opened <= clock[f] /\ server[f].opened \in Nat /\ server[f].version \in Nat
      /\ clock[f] \in Nat
      /\ \A v, t, o : Found(f, v, t, o) => PushOK(f, v, t, o) /\ o \in Nat /\ v \in Nat \cup {None}
  BY <1>1, Typed, OpenIsKnown, FoundTyped DEF PushInv, Base
<1>3. CASE Steady(f)
  <2>1. /\ clock'[f] = clock[f] /\ (server'[f] # None <=> server[f] # None)
        /\ server[f] # None => /\ server'[f].content = server[f].content /\ server'[f].version = server[f].version
                               /\ server'[f].opened = server[f].opened
    BY <1>3 DEF Steady
  <2>2. ASSUME NEW v, NEW t, NEW o, Found(f, v, t, o)' PROVE PushOK(f, v, t, o)'
    <3>1. CASE Found(f, v, t, o)
      BY <1>2, <2>1, <3>1 DEF PushOK
    <3>2. CASE /\ server[f] # None /\ o = server[f].opened /\ t = server[f].content
               /\ v = None \/ v = server[f].version
      BY <1>2, <2>1, <3>2 DEF PushOK
    <3> QED
      BY <1>3, <2>2, <3>1, <3>2 DEF Steady
  <2> QED
    BY <1>2, <2>1, <2>2
<1>4. CASE Anew(f)
  <2>1. server'[f] # None /\ server'[f].opened = clock[f] + 1 /\ clock'[f] = clock[f] + 1
    BY <1>4 DEF Anew, Ticked
  <2>2. ASSUME NEW v, NEW t, NEW o, Found(f, v, t, o)' PROVE PushOK(f, v, t, o)'
    <3>1. PushOK(f, v, t, o) /\ o \in Nat
      BY <1>2, <1>4, <2>2 DEF Anew, FoundKept
    <3> QED
      BY <1>2, <2>1, <3>1 DEF PushOK
  <2> QED
    BY <1>2, <2>1, <2>2
<1>5. CASE Changed(f)
  <2>1. /\ server'[f] # None <=> server[f] # None
        /\ server[f] # None => server'[f].version = overlay[f].version + 1 /\ server'[f].opened = server[f].opened
        /\ clock'[f] = clock[f] + 1 /\ \A d \in Callers : ~Closed(d, f)
    BY <1>5 DEF Changed, Ticked
  <2>2. server[f] # None => server'[f].version = server[f].version + 1
    BY <1>1, <2>1 DEF AgreeInv, Agrees, Mirrors
  <2>3. ASSUME NEW v, NEW t, NEW o, Found(f, v, t, o)' PROVE PushOK(f, v, t, o)'
    <3>1. PushOK(f, v, t, o) /\ o \in Nat /\ v \in Nat \cup {None}
      BY <1>2, <1>5, <2>3 DEF Changed, FoundKept
    <3> QED
      BY <1>2, <2>1, <2>2, <3>1 DEF PushOK
  <2> QED
    BY <1>2, <2>1, <2>3
<1>6. CASE Shut(f)
  <2>1. server'[f] = None /\ (clock'[f] = clock[f] \/ clock'[f] = clock[f] + 1)
    BY <1>6 DEF Shut, Ticked
  <2>2. ASSUME NEW v, NEW t, NEW o, Found(f, v, t, o)' PROVE PushOK(f, v, t, o)'
    <3>1. o \in Nat /\ o <= clock[f]
      BY <1>2, <1>6, <2>2 DEF Shut, PushOK
    <3> QED
      BY <1>2, <2>1, <3>1 DEF PushOK
  <2> QED
    BY <2>1, <2>2
<1> QED
  BY <1>3, <1>4, <1>5, <1>6, Documents DEF Served

\* The contents of an overlay so far are never taken back.
LEMMA Longer ==
  ASSUME Base, Kind, NEW f \in Files
  PROVE  /\ Len(past[f]) \in Nat /\ Len(past'[f]) \in Nat /\ Len(past[f]) <= Len(past'[f])
         /\ \A i \in 1 .. Len(past[f]) : past'[f][i] = past[f][i]
<1>1. past[f] \in Seq(Nat) /\ Len(past[f]) \in Nat
  BY Typed, LenProperties DEF Base
<1>2. CASE Kept(f)
  BY <1>1, <1>2 DEF Kept
<1>3. ASSUME NEW text, NEW stamp, Sent(f, text, stamp)
      PROVE  /\ Len(past'[f]) \in Nat /\ Len(past[f]) <= Len(past'[f])
             /\ \A i \in 1 .. Len(past[f]) : past'[f][i] = past[f][i]
  <2>1. PICK v \in Nat, at \in Nat : RecordedAs(f, text, v, stamp, at)
    BY <1>3 DEF Sent
  <2>2. past'[f] \in Seq(Nat)
    BY <2>1 DEF RecordedAs
  <2> QED
    BY <2>1, <2>2, LenProperties DEF RecordedAs
<1> QED
  BY <1>1, <1>2, <1>3, Overlays DEF Overlaid

\* A checking call was checking the same before, or begins to.
Checks(c) ==
  pc'[c] \in Checking =>
    \/ pc[c] \in Checking /\ SameCall(c)
    \/ /\ pc[c] = "version" /\ call'[c].file = File(c) /\ call'[c].version = overlay[File(c)].version
       /\ call'[c].from = Len(past[File(c)])
       /\ \A f \in Files : StillAt(f) /\ FoundKept(f)
    \/ /\ pc[c] = "insert" /\ call'[c].file = File(c) /\ call'[c].version = 1 /\ call'[c].from = call[c].from
       /\ server' = server /\ overlay'[File(c)].content = call[c].entry.content /\ history' = history
       /\ past[File(c)] # <<>> /\ Last(past[File(c)]) = call[c].entry.content => past'[File(c)] = past[File(c)]
       /\ \A f \in Files : FoundKept(f)
LEMMA Checkers == Kind => \A c \in Callers : Checks(c)
<1> SUFFICES ASSUME Kind, NEW c \in Callers PROVE Checks(c)
  OBVIOUS
<1>1. ASSUME UNCHANGED <<pc, call>> PROVE Checks(c)
  BY <1>1 DEF Checks, SameCall
<1>2. ASSUME NEW d \in Callers, Others(d), d = c => Checks(c) PROVE Checks(c)
  BY <1>2 DEF Others, Checks, SameCall
<1>3. ASSUME UNCHANGED <<wire, diags>> PROVE \A f \in Files : FoundKept(f)
  BY <1>3 DEF FoundKept, Found
<1>4. ASSUME NEW d \in Callers, Calm(d) PROVE Checks(c)
  <2>1. \A f \in Files : StillAt(f) /\ FoundKept(f)
    BY <1>3, <1>4 DEF Calm, serverSide
  <2>2. d = c => Checks(c)
    BY <1>4, <2>1 DEF Calm, Goes, Checks, Checking, Closing
  <2> QED
    BY <1>2, <1>4, <2>2 DEF Calm
<1>5. ASSUME NEW d \in Callers, Closes(d) PROVE Checks(c)
  <2>1. d = c => Checks(c)
    BY <1>5 DEF Closes, Checks, Checking, Closing
  <2> QED
    BY <1>2, <1>5, <2>1 DEF Closes
<1>6. ASSUME NEW d \in Callers, Reopens(d) PROVE Checks(c)
  <2>1. d = c => Checks(c)
    BY <1>6 DEF Reopens, Checks, Checking, Closing, SameCall
  <2> QED
    BY <1>2, <1>6, <2>1 DEF Reopens
<1>7. ASSUME NEW d \in Callers, NEW text, NEW stamp, NEW at, Opens(d, text, stamp, at) \/ Changes(d, text, stamp, at)
      PROVE  Checks(c)
  <2>1. pc'[d] \notin Checking /\ Others(d)
    BY <1>7 DEF Opens, Changes, Checking, Closing
  <2> QED
    BY <1>2, <2>1 DEF Checks
<1>8. ASSUME NEW d \in Callers, NEW at, Inserts(d, at) PROVE Checks(c)
  <2>1. \A f \in Files : FoundKept(f)
    BY <1>3, <1>8 DEF Inserts
  <2>2. d = c => Checks(c)
    BY <1>8, <2>1 DEF Inserts, RecordedAs, Checks
  <2> QED
    BY <1>2, <1>8, <2>2 DEF Inserts
<1> QED
  BY <1>1, <1>4, <1>5, <1>6, <1>7, <1>8 DEF Kind, vars, Analyzes, Arrives, Writes, Evicts

LEMMA CheckNext == Base /\ Kind /\ AgreeInv /\ PushInv /\ CheckInv => CheckInv'
<1> SUFFICES ASSUME Base, Kind, AgreeInv, PushInv, CheckInv, ~history'.crossed, NEW c \in Callers, pc'[c] \in Checking,
                    NEW f, NEW from, NEW version,
                    f = call'[c].file, from = call'[c].from, version = call'[c].version
             PROVE  Since(f, from, version)'
  BY DEF CheckInv, File, Since, Found
<1>0. ~history.crossed /\ Ready(c) /\ Checks(c) /\ call[c] \in Calls
  BY Overlays, Checkers, Typed DEF Grown, Base, ReadyInv
<1>1. pc[c] \in Checking \cup {"version"} /\ f = File(c) /\ f \in Files /\ overlay[f] # None
  BY <1>0 DEF Checks, Ready, Checking, Closing, SameCall, File
<1>2. /\ Len(past[f]) \in Nat /\ Len(past'[f]) \in Nat /\ Len(past[f]) <= Len(past'[f])
      /\ \A i \in 1 .. Len(past[f]) : past'[f][i] = past[f][i]
  BY <1>1, Longer
<1>3. /\ Len(past[f]) \in Nat \ {0} /\ past[f][Len(past[f])] = overlay[f].content
      /\ past[f] # <<>> /\ Last(past[f]) = overlay[f].content
  BY <1>1, LastRecorded
<1>4. server[f] # None => /\ server[f].content = overlay[f].content
                          /\ server[f].version \in Nat /\ overlay[f].version \in Nat
                          /\ server[f].version <= overlay[f].version /\ server[f].opened \in Nat
  BY <1>0, <1>1, OpenIsKnown
<1>5. \A v, t, o : Found(f, v, t, o) => PushOK(f, v, t, o) /\ o \in Nat /\ v \in Nat \cup {None}
  BY <1>0, <1>1, FoundTyped DEF PushInv
<1>6. ASSUME pc[c] \in Checking, SameCall(c) PROVE Since(f, from, version)'
  <2>1. Since(f, from, version)
    <3>1. from = call[c].from /\ version = call[c].version
      BY <1>6 DEF SameCall
    <3> QED
      BY <1>0, <1>1, <1>6, <3>1 DEF CheckInv
  <2>2. from \in 1 .. Len(past'[f])
    BY <1>2, <2>1 DEF Since
  <2>3. ASSUME NEW v, NEW t, NEW o, Found(f, v, t, o)', server'[f] # None, o = server'[f].opened, v # None, v >= version
        PROVE  \E i \in from .. Len(past'[f]) : past'[f][i] = t
    <3>1. ASSUME Found(f, v, t, o), server[f] # None, o = server[f].opened
          PROVE  \E i \in from .. Len(past'[f]) : past'[f][i] = t
      <4>1. PICK i \in from .. Len(past[f]) : past[f][i] = t
        BY <2>1, <2>3, <3>1 DEF Since
      <4>2. i \in 1 .. Len(past[f]) /\ i \in from .. Len(past'[f])
        BY <1>2, <2>1, <4>1 DEF Since
      <4> QED
        BY <1>2, <4>1, <4>2
    <3>2. ASSUME t = overlay[f].content PROVE \E i \in from .. Len(past'[f]) : past'[f][i] = t
      <4>1. Len(past[f]) \in from .. Len(past'[f]) /\ Len(past[f]) \in 1 .. Len(past[f])
        BY <1>2, <1>3, <2>1 DEF Since
      <4> QED
        BY <1>2, <1>3, <3>2, <4>1
    <3>3. CASE Steady(f)
      <4>1. server[f] # None /\ o = server[f].opened
        BY <2>3, <3>3 DEF Steady
      <4>2. Found(f, v, t, o) \/ t = server[f].content
        BY <2>3, <3>3 DEF Steady
      <4> QED
        BY <1>4, <3>1, <3>2, <4>1, <4>2
    <3>4. CASE Anew(f)
      <4>1. Found(f, v, t, o) /\ o = clock[f] + 1
        BY <2>3, <3>4 DEF Anew, FoundKept
      <4>2. clock[f] \in Nat
        BY <1>1, Typed DEF Base
      <4> QED
        BY <1>5, <4>1, <4>2 DEF PushOK
    <3>5. CASE Changed(f)
      BY <2>3, <3>1, <3>5 DEF Changed, FoundKept
    <3>6. CASE Shut(f)
      BY <2>3, <3>6 DEF Shut
    <3>7. Served(f)
      BY <1>1, Documents
    <3> QED
      BY <3>3, <3>4, <3>5, <3>6, <3>7 DEF Served
  <2> QED
    BY <2>2, <2>3 DEF Since
\* A check reads the version: what was pushed under it is of the last content.
<1>7. ASSUME version \in Nat, from \in 1 .. Len(past[f]),
             server'[f] = server[f], past'[f] = past[f], FoundKept(f),
             server[f] # None => server[f].version <= version
      PROVE  Since(f, from, version)'
  <2>1. ASSUME NEW v, NEW t, NEW o, Found(f, v, t, o)', server'[f] # None, o = server'[f].opened, v # None, v >= version
        PROVE  \E i \in from .. Len(past'[f]) : past'[f][i] = t
    <3>1. server[f] # None /\ o = server[f].opened /\ PushOK(f, v, t, o) /\ v \in Nat
      BY <1>5, <1>7, <2>1 DEF FoundKept
    <3>2. v <= server[f].version /\ server[f].version \in Nat /\ server[f].version <= version
      BY <1>4, <1>7, <2>1, <3>1 DEF PushOK
    <3>3. v = server[f].version
      BY <1>7, <2>1, <3>1, <3>2
    <3>4. t = overlay[f].content
      BY <1>4, <2>1, <3>1, <3>3 DEF PushOK
    <3>5. Len(past[f]) \in from .. Len(past'[f])
      BY <1>2, <1>3, <1>7
    <3> QED
      BY <1>3, <1>7, <3>4, <3>5
  <2>2. from \in 1 .. Len(past'[f])
    BY <1>7
  <2> QED
    BY <2>1, <2>2 DEF Since
<1>8. CASE /\ pc[c] = "version" /\ version = overlay[f].version /\ from = Len(past[f])
           /\ \A g \in Files : StillAt(g) /\ FoundKept(g)
  <2>1. overlay[f] \in Entries
    BY <1>1, LastRecorded
  <2>2. version \in Nat
    BY <1>8, <2>1 DEF Entries
  <2>3. from \in 1 .. Len(past[f]) /\ server'[f] = server[f] /\ past'[f] = past[f] /\ FoundKept(f)
    BY <1>1, <1>3, <1>8 DEF StillAt
  <2> QED
    BY <1>4, <1>7, <1>8, <2>2, <2>3
<1>9. CASE /\ pc[c] = "insert" /\ version = 1 /\ from = call[c].from /\ server' = server
           /\ past[f] # <<>> /\ Last(past[f]) = call[c].entry.content => past'[f] = past[f]
           /\ \A g \in Files : FoundKept(g)
  <2>1. HalfOpen(c, f)
    BY <1>0, <1>1, <1>9 DEF AgreeInv, Agrees, Closed, Closing
  <2>2. call[c].entry.content = overlay[f].content /\ server[f] # None /\ server[f].version = 1
    BY <1>9, <2>1 DEF HalfOpen
  <2>3. past'[f] = past[f]
    BY <1>3, <1>9, <2>2
  <2>4. from \in 1 .. Len(past[f])
    BY <1>0, <1>1, <1>9 DEF CheckInv, Checking, Closing, Since
  <2> QED
    BY <1>1, <1>7, <1>9, <2>2, <2>3, <2>4
<1> QED
  BY <1>0, <1>1, <1>6, <1>8, <1>9 DEF Checks

---------------------------------------------------------------------------

Ind == Base /\ MadeInv /\ StampInv /\ AgreeInv /\ SurviveInv /\ PushInv /\ CheckInv

LEMMA Invariant == Spec => []Ind
<1>1. Init => Ind
  <2>1. Init => StampInv
    BY DEF Init, StampInv
  <2> QED
    BY <2>1, BaseInit, MadeInit, AgreeInit, SurviveInit, PushesInit DEF Ind
<1>2. Ind /\ [Next]_vars => Ind'
  <2> SUFFICES ASSUME Ind, [Next]_vars PROVE Ind'
    OBVIOUS
  <2>1. Base /\ MadeInv /\ StampInv /\ AgreeInv /\ SurviveInv /\ PushInv /\ CheckInv
    BY DEF Ind
  <2>2. Kind
    BY <2>1, Kinds
  <2>3. Base' /\ MadeInv' /\ StampInv'
    BY <2>1, <2>2, BaseNext, MadeNext, StampNext
  <2>4. AgreeInv' /\ SurviveInv'
    BY <2>1, <2>2, AgreeNext, SurviveNext
  <2>5. PushInv' /\ CheckInv'
    BY <2>1, <2>2, PushNext, CheckNext
  <2> QED
    BY <2>3, <2>4, <2>5 DEF Ind
<1> QED
  BY <1>1, <1>2, PTL DEF Spec

\* The bridge and the server agree: every variable is of its type, no file is open twice,
\* and a file nobody reopens is open on the server exactly when it is in open_files, with
\* the content and the version of its overlay, unless force_reopen crossed another call.
THEOREM BridgeMirrors == Spec => []DocsInv
<1>1. Ind => DocsInv
  <2> SUFFICES ASSUME Ind PROVE DocsInv
    OBVIOUS
  <2>1. LspTypeOK
    BY DEF Ind, Base, DocsTypes
  <2>2. MirrorsServer
    BY DEF Ind, AgreeInv, Agrees, Closed, Mirrors, MirrorsServer
  <2> QED
    BY <2>1, <2>2 DEF DocsInv
<1> QED
  BY <1>1, Invariant, PTL

\* The stamp of an overlay is of a content that was sent: sync_open skips a file only if
\* the server was told what is on disk, unless a write fell between a stamp and its read.
THEOREM StampsVouch == Spec => []StampVouches
<1>1. Ind => StampVouches
  BY DEF Ind, StampInv, StampVouches
<1> QED
  BY <1>1, Invariant, PTL

\* No content that an edit or a disk write replaced comes back, whatever is evicted and
\* opened again, unless a reopening crossed another call or a disk write a read.
THEOREM EditsStand == Spec => []EditsSurvive
<1>1. Ind => EditsSurvive
  BY DEF Ind, SurviveInv, EditsSurvive, NeverRolledBack
<1> QED
  BY <1>1, Invariant, PTL

\* What check_file reports as converged was found of a content the file had during the
\* check, but for a late push of an earlier opening and a reopening that crossed a call.
THEOREM ChecksAreRecent == Spec => CheckedIsRecent
<1>1. Ind /\ [Next]_vars =>
        [\A c \in Callers : DiagVersions /\ ~history.crossed /\ Converge(c) =>
           LET f == File(c) IN
           server[f] # None /\ diags[f].opened = server[f].opened =>
               \E i \in call[c].from..Len(past[f]) : past[f][i] = diags[f].content]_vars
  <2> SUFFICES ASSUME Ind, NEW c \in Callers, DiagVersions, ~history.crossed, Converge(c),
                      server[File(c)] # None, diags[File(c)].opened = server[File(c)].opened
               PROVE  \E i \in call[c].from..Len(past[File(c)]) : past[File(c)][i] = diags[File(c)].content
    OBVIOUS
  <2> DEFINE f == File(c)
             q == diags[f]
  <2>1. pc[c] = "poll" /\ q # None /\ q.version # None /\ q.version >= call[c].version
    BY DEF Converge, Fresh, VersionOK
  <2>2. Since(f, call[c].from, call[c].version)
    BY <2>1 DEF Ind, CheckInv, Checking
  <2>3. Found(f, q.version, q.content, q.opened)
    BY <2>1 DEF Found
  <2> QED
    BY <2>1, <2>2, <2>3 DEF Since
<1> QED
  BY <1>1, Invariant, PTL DEF Spec, CheckedIsRecent
==============================================================================
