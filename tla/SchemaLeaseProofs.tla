-------------------------- MODULE SchemaLeaseProofs --------------------------
(***************************************************************************)
(* Proofs about the schema lease, for any number of transactions, tables   *)
(* and changes, any length of the lease and any capacity of the queue.     *)
(***************************************************************************)
EXTENDS SchemaLease, WellFoundedInduction, TLAPS

-----------------------------------------------------------------------------
(* Induction and the list of changes that a Reload collects. *)

\* Induction over the natural numbers, for sets.
LEMMA SetInduction ==
    ASSUME NEW S, S \subseteq Nat, 0 \in S, \A n \in S : n + 1 \in S
    PROVE  S = Nat
<1> SUFFICES ASSUME Nat \ S # {} PROVE FALSE
  OBVIOUS
<1> DEFINE R == OpToRel(<, Nat)
           T == Nat \ S
<1>1. IsWellFoundedOn(R, Nat)
  BY NatLessThanWellFounded
<1>2. \A x, y \in Nat : y < x => <<y, x>> \in R
  BY DEF OpToRel
<1> HIDE DEF R
<1>3. PICK x \in T : \A y \in T : ~(<<y, x>> \in R)
  BY <1>1, WFMin
<1>4. x \in Nat \ {0} /\ x - 1 \in Nat /\ x - 1 < x
  BY <1>3
<1>5. x - 1 \in S
  BY <1>2, <1>3, <1>4
<1>6. (x - 1) + 1 \in S
  BY <1>5
<1> QED  BY <1>3, <1>4, <1>6

\* The elements of two lists, one after the other.
LEMMA ElementsConcat ==
    ASSUME NEW X, NEW a \in Seq(X), NEW b \in Seq(X)
    PROVE  /\ a \o b \in Seq(X)
           /\ Elements(a) \subseteq Elements(a \o b) /\ Elements(b) \subseteq Elements(a \o b)
<1>1. a \o b \in Seq(X) /\ Len(a \o b) = Len(a) + Len(b)
  OBVIOUS
<1>2. \A i \in 1 .. Len(a) : i \in 1 .. Len(a) + Len(b) /\ (a \o b)[i] = a[i]
  OBVIOUS
<1>3. \A i \in 1 .. Len(b) : Len(a) + i \in 1 .. Len(a) + Len(b) /\ (a \o b)[Len(a) + i] = b[i]
  OBVIOUS
<1>4. DOMAIN a = 1 .. Len(a) /\ DOMAIN b = 1 .. Len(b) /\ DOMAIN (a \o b) = 1 .. Len(a) + Len(b)
  BY <1>1
<1> HIDE DEF Elements
<1>5. Elements(a) \subseteq Elements(a \o b)
  BY <1>2, <1>4 DEF Elements
<1>6. Elements(b) \subseteq Elements(a \o b)
  BY <1>3, <1>4 DEF Elements
<1> QED  BY <1>1, <1>5, <1>6

\* The versions a Reload skips.
LEMMA SubSeqPart ==
    ASSUME NEW X, NEW d \in Seq(X), NEW a \in Nat, NEW b \in Nat, a < b, b <= Len(d)
    PROVE  LET s == SubSeq(d, a + 1, b)
           IN  /\ s \in Seq(X) /\ s # <<>> /\ Len(s) = b - a
               /\ \A i \in 1 .. Len(s) : s[i] = d[a + i]
<1> DEFINE s == SubSeq(d, a + 1, b)
<1>1. Len(s) = b - a /\ b - a \in Nat \ {0}
  OBVIOUS
<1>2. \A i \in 1 .. b - a : s[i] = d[a + i] /\ d[a + i] \in X
  OBVIOUS
<1>3. s = [i \in 1 .. b - a |-> d[a + i]]
  OBVIOUS
<1>4. s \in Seq(X)
  BY <1>1, <1>2, <1>3
<1> QED  BY <1>1, <1>2, <1>4

\* The lists that FlattenSeq builds step by step exist ...
LEMMA FlattenExists ==
    ASSUME NEW s
    PROVE  \A n \in Nat : n # 0 =>
              \E F : F = [i \in 1 .. n |-> IF i = 1 THEN s[i] ELSE F[i - 1] \o s[i]]
<1> DEFINE Steps(F, n) == F = [i \in 1 .. n |-> IF i = 1 THEN s[i] ELSE F[i - 1] \o s[i]]
           S == {n \in Nat : n # 0 => \E F : Steps(F, n)}
<1>1. 0 \in S
  OBVIOUS
<1>2. ASSUME NEW n \in S
      PROVE  n + 1 \in S
  <2>1. CASE n = 0
    <3> DEFINE F == [i \in 1 .. 1 |-> s[i]]
    <3>1. Steps(F, 1)
      OBVIOUS
    <3> HIDE DEF F, Steps
    <3>2. 1 \in S
      BY <3>1
    <3> QED  BY <2>1, <3>2
  <2>2. CASE n # 0
    <3>1. PICK F : Steps(F, n)
      BY <1>2, <2>2
    <3> DEFINE G == [i \in 1 .. n + 1 |-> IF i <= n THEN F[i] ELSE F[n] \o s[n + 1]]
    <3>2. n \in Nat /\ n >= 1
      BY <2>2
    <3>3. /\ \A i \in 1 .. n : F[i] = IF i = 1 THEN s[i] ELSE F[i - 1] \o s[i]
          /\ \A i \in 1 .. n : G[i] = F[i]
          /\ G[n + 1] = F[n] \o s[n + 1]
      <4>1. \A i \in 1 .. n : F[i] = IF i = 1 THEN s[i] ELSE F[i - 1] \o s[i]
        BY <3>1, Zenon
      <4>2. \A i \in 1 .. n : i \in 1 .. n + 1 /\ i <= n
        BY <3>2
      <4>3. n + 1 \in 1 .. n + 1 /\ ~(n + 1 <= n)
        BY <3>2
      <4> QED  BY <4>1, <4>2, <4>3, Zenon
    <3> HIDE DEF G
    <3>4. \A i \in 1 .. n + 1 : G[i] = IF i = 1 THEN s[i] ELSE G[i - 1] \o s[i]
      <4> SUFFICES ASSUME NEW i \in 1 .. n + 1
                   PROVE  G[i] = IF i = 1 THEN s[i] ELSE G[i - 1] \o s[i]
        OBVIOUS
      <4>1. CASE i = n + 1
        <5>1. n \in 1 .. n /\ i # 1 /\ i - 1 = n
          BY <3>2, <4>1
        <5> QED  BY <3>3, <4>1, <5>1
      <4>2. CASE i = 1
        BY <3>2, <3>3, <4>2
      <4>3. CASE i # 1 /\ i # n + 1
        <5>1. i \in 1 .. n /\ i - 1 \in 1 .. n
          BY <3>2, <4>3
        <5> QED  BY <3>3, <4>3, <5>1
      <4> QED  BY <4>1, <4>2, <4>3
    <3>5. Steps(G, n + 1)
      <4>1. G = [i \in 1 .. n + 1 |-> G[i]]
        BY DEF G
      <4> QED  BY <3>4, <4>1
    <3> HIDE DEF Steps
    <3> QED  BY <3>2, <3>5
  <2> QED  BY <2>1, <2>2
<1> HIDE DEF S
<1>3. S = Nat
  BY <1>1, <1>2, SetInduction DEF S
<1> QED  BY <1>3 DEF S

\* ... and the last one is a list of changes with every change of every list.
LEMMA FlattenElements ==
    ASSUME NEW X, NEW s \in Seq(Seq(X)), s # <<>>
    PROVE  /\ FlattenSeq(s) \in Seq(X)
           /\ \A j \in 1 .. Len(s) : Elements(s[j]) \subseteq Elements(FlattenSeq(s))
<1> DEFINE fl[i \in 1 .. Len(s)] == IF i = 1 THEN s[i] ELSE fl[i - 1] \o s[i]
           n == Len(s)
<1>0. n \in Nat /\ n # 0
  OBVIOUS
<1>1. FlattenSeq(s) = fl[n]
  BY <1>0 DEF FlattenSeq
<1>2. fl = CHOOSE f : f = [i \in 1 .. n |-> IF i = 1 THEN s[i] ELSE f[i - 1] \o s[i]]
  BY DEF fl
<1> HIDE DEF fl, n
<1>3. \E F : F = [i \in 1 .. n |-> IF i = 1 THEN s[i] ELSE F[i - 1] \o s[i]]
  BY <1>0, FlattenExists
<1>4. fl = [i \in 1 .. n |-> IF i = 1 THEN s[i] ELSE fl[i - 1] \o s[i]]
  BY <1>2, <1>3, Zenon
<1>5. \A i \in 1 .. n : fl[i] = IF i = 1 THEN s[i] ELSE fl[i - 1] \o s[i]
  BY <1>4, Zenon
<1> DEFINE P(i) == fl[i] \in Seq(X) /\ \A j \in 1 .. i : Elements(s[j]) \subseteq Elements(fl[i])
           S == {i \in Nat : i + 1 \in 1 .. n => P(i + 1)}
<1>6. 0 \in S
  <2> SUFFICES ASSUME 1 \in 1 .. n PROVE P(1)
    OBVIOUS
  <2>1. fl[1] = s[1] /\ s[1] \in Seq(X)
    BY <1>5 DEF n
  <2>2. \A j \in 1 .. 1 : j = 1
    OBVIOUS
  <2> QED  BY <2>1, <2>2
<1>7. ASSUME NEW i \in S
      PROVE  i + 1 \in S
  <2> SUFFICES ASSUME (i + 1) + 1 \in 1 .. n
               PROVE  P((i + 1) + 1)
    OBVIOUS
  <2> DEFINE k == i + 1
  <2>1. k \in Nat /\ k \in 1 .. n /\ k + 1 \in 1 .. n /\ k + 1 # 1 /\ (k + 1) - 1 = k
    BY <1>0, <1>7
  <2>2. P(k)
    BY <1>7, <2>1
  <2> HIDE DEF k
  <2>3. fl[k + 1] = fl[k] \o s[k + 1]
    BY <1>5, <2>1
  <2>4. fl[k] \in Seq(X) /\ s[k + 1] \in Seq(X)
    BY <2>1, <2>2 DEF n
  <2>5. /\ fl[k + 1] \in Seq(X)
        /\ Elements(fl[k]) \subseteq Elements(fl[k + 1])
        /\ Elements(s[k + 1]) \subseteq Elements(fl[k + 1])
    BY <2>3, <2>4, ElementsConcat
  <2>6. \A j \in 1 .. k + 1 : j \in 1 .. k \/ j = k + 1
    BY <2>1
  <2>7. P(k + 1)
    BY <2>2, <2>5, <2>6
  <2> QED  BY <2>7 DEF k
<1>8. S = Nat
  <2> HIDE DEF P
  <2> QED  BY <1>6, <1>7, SetInduction
<1>9. P(n)
  <2>1. n - 1 \in Nat /\ (n - 1) + 1 = n /\ n \in 1 .. n
    BY <1>0
  <2> HIDE DEF P
  <2>2. n - 1 \in S
    BY <1>8, <2>1
  <2> QED  BY <2>1, <2>2
<1> QED  BY <1>1, <1>9 DEF n

-----------------------------------------------------------------------------
(* The inductive invariant. *)

Delta == [ver : Nat, ids : Change]

TxnRec == [st : {"idle", "running", "checking", "ok", "changed", "expired"},
           ver : Nat, tables : SUBSET Table, ts : Nat, seen : Nat, tries : Nat]

ReloadRec == [pc : {"idle", "load", "sync", "reset", "update"},
              by : {"none", "loop", "callback"}, ts : Nat, old : Nat, needed : Nat,
              full : BOOLEAN, change : Change]

LeaseTyped ==
    /\ isStarted \in BOOLEAN /\ latestSchemaVer \in Nat /\ latestSchemaExpire \in Int
    /\ deltaSchemaInfos \in Seq(Delta)
    /\ diff \in Seq(Change) /\ Version \in Nat \ {0}
    /\ now \in Nat /\ published \in Nat /\ published <= now
    /\ infoVer \in 0 .. Version /\ known \in Nat
    /\ selfVer \in Nat /\ historyRead \in Nat /\ registered \in BOOLEAN
    /\ reload \in [pc : {"idle", "load", "sync", "reset", "update"},
                   by : {"none", "loop", "callback"}, ts : Nat, old : Nat, needed : Nat,
                   full : BOOLEAN, change : Change]
    /\ txn \in [Txn -> TxnRec]

\* What the Reload under way has established: Loaded is past loadSchemaReplicant's
\* load, and its change names every table that the versions it skipped changed.
Loaded == reload.pc \in {"sync", "reset", "update"}
ReloadOK ==
    /\ reload.pc = "idle" => reload = NoReload
    /\ reload.pc = "load" => /\ reload.old = infoVer /\ reload.old < reload.needed
                             /\ reload.needed <= Version
                             /\ reload.full = FALSE /\ reload.change = <<>>
    /\ Loaded => /\ reload.needed = infoVer /\ reload.old <= infoVer
                 /\ reload.full = FALSE =>
                      \A v \in reload.old + 1 .. infoVer :
                          TouchedTables(diff[v]) \subseteq TouchedTables(reload.change)
    /\ reload.pc = "reset" => reload.full = TRUE
    /\ reload.pc = "update" /\ reload.full = TRUE => deltaSchemaInfos = <<>>

\* No event but reads of the history, and no full load after the first.
Quiet == Events \subseteq {"historyRead"} /\ MaxVer <= MaxDiffsToLoad + 1

\* The transactions whose check must catch every change that is known.
Watched == {t \in Running : Quiet \/ t \notin exposed}

\* The version up to which completed Reloads, or failed ones, have gone.
Base == IF Loaded THEN reload.old ELSE infoVer

\* Where a Reload failed after its load, no watched transaction is older.
NoGap ==
    /\ known <= Base
    /\ known = Base \/ \A t \in Watched : Base <= txn[t].ver
    /\ \A t \in Running : txn[t].ver <= infoVer

\* findNewerDeltas, and: the queue tells of every change after version v, or
\* tells that it cannot.
Newer(q, v) == {i \in DOMAIN q : \A j \in i .. Len(q) : q[j].ver > v}
Covers(q, d, v, last) ==
    \/ Newer(q, v) = DOMAIN q
    \/ \A w \in v + 1 .. last : \A tb \in TouchedTables(d[w]) :
          \E i \in Newer(q, v) : tb \in TouchedTables(q[i].ids)

\* A check finds every known change that a watched transaction has not seen.
WatchedCovered ==
    isStarted = TRUE => \A t \in Watched :
        \/ known <= txn[t].ver
        \/ latestSchemaVer = known /\ Covers(deltaSchemaInfos, diff, txn[t].ver, known)

QuietOK ==
    /\ MaxDeltaSchemaCount <= 0 => deltaSchemaInfos = <<>>
    /\ Quiet => /\ registered = TRUE /\ isStarted = TRUE /\ loop = "run" /\ sessionLost = FALSE
                /\ missing = {} /\ Version <= MaxDiffsToLoad + 1
                /\ latestSchemaVer = known /\ known = Base
                /\ known = 0 => deltaSchemaInfos = <<>>
                /\ Loaded /\ reload.full = TRUE => reload.old = 0

LeaseInv == LeaseTyped /\ ReloadOK /\ NoGap /\ WatchedCovered /\ QuietOK

\* A version is reported after it is loaded, unless a read of the history reports.
ReportsLoaded == "historyRead" \notin Events => historyRead = 0 /\ selfVer <= infoVer

\* How the lease keeps a slow server close: the last grant, and the one that the
\* Reload under way will give, are too old for whoever sees two versions more.
GrantTimes ==
    /\ latestSchemaExpire <= now + Lease - 1
    /\ infoVer < Version => latestSchemaExpire <= published + Lease - 1
    /\ infoVer < Version - 1 => latestSchemaExpire < published
    /\ \A t \in Txn : txn[t].st = "checking" /\ infoVer < txn[t].seen - 1
                        => latestSchemaExpire < txn[t].ts
ReloadTimes ==
    reload.pc # "idle" =>
        /\ reload.ts <= now
        /\ reload.needed < Version => reload.ts <= published
        /\ reload.needed < Version - 1 => reload.ts + Lease - 1 < published
        /\ \A t \in Txn : txn[t].st = "checking" /\ reload.needed < txn[t].seen - 1
                            => reload.ts + Lease - 1 < txn[t].ts
LeaseTimes == GrantTimes /\ ReloadTimes /\ \A t \in Txn : txn[t].seen <= Version

-----------------------------------------------------------------------------
(* The queue of changes. *)

\* A suffix is newer from its first element on.
LEMMA NewerSuffix ==
    ASSUME NEW q \in Seq(Delta), NEW v \in Nat, q # <<>>
    PROVE  /\ 1 \in Newer(q, v) <=> Newer(q, v) = DOMAIN q
           /\ \A i \in Newer(q, v) : i \in 1 .. Len(q)
           /\ q[Len(q)].ver > v => Len(q) \in Newer(q, v)
<1>1. DOMAIN q = 1 .. Len(q) /\ Len(q) \in Nat \ {0}
  OBVIOUS
<1>2. 1 \in Newer(q, v) => Newer(q, v) = DOMAIN q
  BY <1>1 DEF Newer
<1>3. q[Len(q)].ver > v => Len(q) \in Newer(q, v)
  BY <1>1 DEF Newer
<1> QED  BY <1>1, <1>2, <1>3 DEF Newer

\* m is q with d at its end, beside the last delta or in its place.
EndsWith(m, q, d) ==
    /\ \/ Len(m) = Len(q) + 1
       \/ Len(m) = Len(q) /\ Elements(q[Len(q)].ids) \subseteq Elements(d.ids)
    /\ m[Len(m)] = d
    /\ \A i \in 1 .. Len(m) - 1 : m[i] = q[i]

\* The suffix of newer deltas only grows at the end.
LEMMA EndsWithNewer ==
    ASSUME NEW q \in Seq(Delta), NEW m \in Seq(Delta), NEW d \in Delta, NEW v \in Nat,
           q # <<>>, m # <<>>, d.ver > v, EndsWith(m, q, d)
    PROVE  /\ Len(m) \in Newer(m, v)
           /\ \A i \in Newer(q, v) :
                 /\ i \in Newer(m, v)
                 /\ m[i] = q[i] \/ (i = Len(q) /\ Elements(q[i].ids) \subseteq Elements(d.ids))
           /\ Newer(q, v) = DOMAIN q => Newer(m, v) = DOMAIN m
<1>1. PICK n \in Nat \ {0}, k \in Nat \ {0} :
          /\ n = Len(q) /\ k = Len(m)
          /\ DOMAIN q = 1 .. n /\ DOMAIN m = 1 .. k
  OBVIOUS
<1>2. k = n + 1 \/ k = n
  BY <1>1 DEF EndsWith
<1>3. m[k] = d /\ (\A i \in 1 .. k - 1 : m[i] = q[i])
      /\ (k = n => Elements(q[n].ids) \subseteq Elements(d.ids))
  <2>1. k = n => k # n + 1
    OBVIOUS
  <2> QED  BY <1>1, <2>1 DEF EndsWith
<1>4. /\ Newer(q, v) = {i \in 1 .. n : \A j \in i .. n : q[j].ver > v}
      /\ Newer(m, v) = {i \in 1 .. k : \A j \in i .. k : m[j].ver > v}
  BY <1>1 DEF Newer
<1>5. k \in Newer(m, v)
  <2>1. \A j \in k .. k : j = k
    OBVIOUS
  <2> QED  BY <1>3, <1>4, <2>1
<1>6. ASSUME NEW i \in Newer(q, v)
      PROVE  /\ i \in Newer(m, v)
             /\ m[i] = q[i] \/ (i = n /\ Elements(q[i].ids) \subseteq Elements(d.ids))
  <2>1. i \in 1 .. n /\ \A j \in i .. n : q[j].ver > v
    BY <1>4, <1>6
  <2>2. i \in 1 .. k
    BY <1>2, <2>1
  <2>3. ASSUME NEW j \in i .. k
        PROVE  m[j].ver > v
    <3>1. CASE j = k
      BY <1>3, <3>1
    <3>2. CASE j # k
      <4>1. j \in 1 .. k - 1 /\ j \in i .. n
        BY <1>2, <2>1, <2>2, <3>2
      <4> QED  BY <1>3, <2>1, <4>1
    <3> QED  BY <3>1, <3>2
  <2>4. i \in 1 .. k - 1 \/ (i = n /\ k = n)
    BY <1>2, <2>1
  <2> QED  BY <1>3, <1>4, <2>2, <2>3, <2>4
<1>7. ASSUME Newer(q, v) = DOMAIN q
      PROVE  Newer(m, v) = DOMAIN m
  <2>1. 1 \in DOMAIN q
    BY <1>1
  <2>2. 1 \in Newer(m, v)
    BY <1>6, <1>7, <2>1
  <2> QED  BY <2>2, NewerSuffix
<1> QED  BY <1>1, <1>5, <1>6, <1>7

\* A newer delta at the end, beside the last one or in its place, adds its own
\* changes and loses none.
LEMMA MergedCovers ==
    ASSUME NEW q \in Seq(Delta), NEW m \in Seq(Delta), NEW d \in Delta, NEW ds,
           NEW v \in Nat, NEW last \in Nat, NEW next \in Nat,
           q # <<>>, m # <<>>, d.ver > v, Covers(q, ds, v, last), EndsWith(m, q, d),
           \A w \in last + 1 .. next : TouchedTables(ds[w]) \subseteq TouchedTables(d.ids)
    PROVE  Covers(m, ds, v, next)
<1>1. /\ Len(m) \in Newer(m, v) /\ m[Len(m)] = d
      /\ \A i \in Newer(q, v) :
            /\ i \in Newer(m, v)
            /\ m[i] = q[i] \/ (i = Len(q) /\ Elements(q[i].ids) \subseteq Elements(d.ids))
      /\ Newer(q, v) = DOMAIN q => Newer(m, v) = DOMAIN m
  BY EndsWithNewer DEF EndsWith
<1>2. CASE Newer(q, v) = DOMAIN q
  BY <1>1, <1>2 DEF Covers
<1>3. CASE \A w \in v + 1 .. last : \A tb \in TouchedTables(ds[w]) :
              \E i \in Newer(q, v) : tb \in TouchedTables(q[i].ids)
  <2> SUFFICES ASSUME NEW w \in v + 1 .. next, NEW tb \in TouchedTables(ds[w])
               PROVE  \E i \in Newer(m, v) : tb \in TouchedTables(m[i].ids)
    BY DEF Covers
  <2>1. CASE w \in last + 1 .. next
    BY <1>1, <2>1
  <2>2. CASE w \in v + 1 .. last
    <3>1. PICK i \in Newer(q, v) : tb \in TouchedTables(q[i].ids)
      BY <1>3, <2>2
    <3>2. CASE m[i] = q[i]
      BY <1>1, <3>1, <3>2
    <3>3. CASE Elements(q[i].ids) \subseteq Elements(d.ids)
      <4>1. tb \in TouchedTables(d.ids)
        BY <3>1, <3>3 DEF TouchedTables
      <4> QED  BY <1>1, <4>1
    <3> QED  BY <1>1, <3>2, <3>3
  <2> QED  BY <2>1, <2>2
<1> QED  BY <1>2, <1>3 DEF Covers

\* The head that leaves a full queue is not needed: if it was newer, the queue
\* still counts every older transaction as changed.
LEMMA TailCovers ==
    ASSUME NEW m \in Seq(Delta), m # <<>>, NEW ds, NEW v \in Nat, NEW last \in Nat,
           Covers(m, ds, v, last)
    PROVE  Tail(m) \in Seq(Delta) /\ Covers(Tail(m), ds, v, last)
<1> DEFINE r == Tail(m)
<1>1. /\ r \in Seq(Delta) /\ Len(r) = Len(m) - 1 /\ Len(m) \in Nat \ {0}
      /\ DOMAIN m = 1 .. Len(m) /\ DOMAIN r = 1 .. Len(m) - 1
      /\ \A i \in 1 .. Len(m) - 1 : r[i] = m[i + 1]
  OBVIOUS
<1> HIDE DEF r
<1>2. ASSUME NEW i \in Newer(m, v), i # 1
      PROVE  i - 1 \in Newer(r, v) /\ r[i - 1] = m[i]
  <2>1. i \in 1 .. Len(m) /\ \A j \in i .. Len(m) : m[j].ver > v
    BY <1>1, <1>2 DEF Newer
  <2>2. i - 1 \in 1 .. Len(m) - 1 /\ r[i - 1] = m[i]
    BY <1>1, <1>2, <2>1
  <2>3. ASSUME NEW j \in i - 1 .. Len(r)
        PROVE  r[j].ver > v
    <3>1. j \in 1 .. Len(m) - 1 /\ j + 1 \in i .. Len(m)
      BY <1>1, <2>1, <2>2
    <3> QED  BY <1>1, <2>1, <3>1
  <2> QED  BY <1>1, <2>2, <2>3 DEF Newer
<1>3. CASE 1 \in Newer(m, v)
  <2>1. \A j \in 1 .. Len(m) : m[j].ver > v
    BY <1>1, <1>3 DEF Newer
  <2>2. \A j \in 1 .. Len(r) : j + 1 \in 1 .. Len(m) /\ r[j] = m[j + 1]
    BY <1>1
  <2>3. Newer(r, v) = DOMAIN r
    <3>1. \A i \in DOMAIN r : \A j \in i .. Len(r) : j \in 1 .. Len(r)
      BY <1>1
    <3> QED  BY <2>1, <2>2, <3>1 DEF Newer
  <2> QED  BY <1>1, <2>3 DEF Covers, r
<1>4. CASE 1 \notin Newer(m, v)
  <2>1. \A w \in v + 1 .. last : \A tb \in TouchedTables(ds[w]) :
            \E i \in Newer(m, v) : tb \in TouchedTables(m[i].ids)
    <3>1. 1 \in DOMAIN m
      BY <1>1
    <3> QED  BY <1>4, <3>1 DEF Covers
  <2>2. \A w \in v + 1 .. last : \A tb \in TouchedTables(ds[w]) :
            \E i \in Newer(r, v) : tb \in TouchedTables(r[i].ids)
    <3> SUFFICES ASSUME NEW w \in v + 1 .. last, NEW tb \in TouchedTables(ds[w])
                 PROVE  \E i \in Newer(r, v) : tb \in TouchedTables(r[i].ids)
      OBVIOUS
    <3>1. PICK i \in Newer(m, v) : tb \in TouchedTables(m[i].ids)
      BY <2>1
    <3>2. i - 1 \in Newer(r, v) /\ r[i - 1] = m[i]
      BY <1>2, <1>4
    <3> QED  BY <3>1, <3>2
  <2> QED  BY <1>1, <2>2 DEF Covers, r
<1> QED  BY <1>3, <1>4

\* enqueue keeps what the queue tells of older versions and adds the new change.
LEMMA EnqueueCovers ==
    ASSUME NEW q \in Seq(Delta), NEW d \in Delta, NEW ds,
           NEW v \in Nat, NEW last \in Nat, NEW next \in Nat,
           d.ver > v, Covers(q, ds, v, last), MaxDeltaSchemaCount <= 0 => q = <<>>,
           \A w \in last + 1 .. next : TouchedTables(ds[w]) \subseteq TouchedTables(d.ids)
    PROVE  Covers(Enqueue(q, d), ds, v, next)
<1>1. CASE q = <<>>
  <2>1. Enqueue(q, d) = <<>> \/ Enqueue(q, d) = <<d>>
    BY <1>1 DEF Enqueue
  <2>2. Covers(<<>>, ds, v, next)
    BY DEF Covers, Newer
  <2>3. Covers(<<d>>, ds, v, next)
    <3>1. <<d>> \in Seq(Delta) /\ Len(<<d>>) = 1 /\ <<d>>[1] = d /\ <<d>> # <<>>
      OBVIOUS
    <3>2. 1 \in Newer(<<d>>, v)
      BY <3>1, NewerSuffix
    <3> QED  BY <3>1, <3>2, NewerSuffix DEF Covers
  <2> QED  BY <2>1, <2>2, <2>3
<1>2. CASE q # <<>>
  <2> DEFINE n == Len(q)
             m == IF n > 1 /\ ContainIn(q[n].ids, d.ids)
                  THEN [q EXCEPT ![n] = d] ELSE Append(q, d)
  <2>0. n \in Nat \ {0} /\ DOMAIN q = 1 .. n
    BY <1>2
  <2>1. Covers(m, ds, v, next) /\ m \in Seq(Delta) /\ m # <<>>
    <3>1. m \in Seq(Delta) /\ m # <<>> /\ EndsWith(m, q, d)
      <4>1. CASE n > 1 /\ ContainIn(q[n].ids, d.ids)
        <5>1. m = [q EXCEPT ![n] = d]
          BY <4>1
        <5>2. Elements(q[n].ids) \subseteq Elements(d.ids)
          BY <4>1 DEF ContainIn
        <5> HIDE DEF m
        <5>3. m \in Seq(Delta) /\ Len(m) = n /\ m[n] = d /\ \A i \in 1 .. n - 1 : m[i] = q[i]
          BY <2>0, <5>1
        <5> QED  BY <2>0, <5>2, <5>3 DEF EndsWith
      <4>2. CASE ~(n > 1 /\ ContainIn(q[n].ids, d.ids))
        <5>1. m = Append(q, d)
          BY <4>2
        <5> HIDE DEF m
        <5>2. m \in Seq(Delta) /\ Len(m) = n + 1 /\ m[n + 1] = d /\ \A i \in 1 .. n : m[i] = q[i]
          BY <2>0, <5>1
        <5>3. (n + 1) - 1 = n
          BY <2>0
        <5> QED  BY <2>0, <5>2, <5>3 DEF EndsWith
      <4> QED  BY <4>1, <4>2
    <3> HIDE DEF m
    <3> QED  BY <1>2, <3>1, MergedCovers
  <2>2. Enqueue(q, d) = m \/ Enqueue(q, d) = Tail(m)
    BY <1>2, <2>0 DEF Enqueue
  <2> HIDE DEF m
  <2> QED  BY <2>1, <2>2, TailCovers
<1> QED  BY <1>1, <1>2

-----------------------------------------------------------------------------
(* The steps. *)

\* Steps of the clock, of the report to the owner and of the session.
LEMMA FrameKeeps ==
    ASSUME LeaseInv,
           UNCHANGED <<validatorVars, diff, missing, infoVer, reload, txn, exposed, known>>,
           now' \in Nat, published' \in Nat, published' <= now', selfVer' \in Nat,
           historyRead' \in Nat, registered' \in BOOLEAN,
           Quiet => UNCHANGED <<registered, loop, sessionLost>>
    PROVE  LeaseInv'
<1>1. LeaseTyped'
  BY DEF LeaseInv, LeaseTyped, validatorVars, Version
<1>2. ReloadOK'
  BY DEF LeaseInv, ReloadOK, validatorVars, Version, Loaded
<1>3. NoGap' /\ Watched' = Watched
  BY DEF LeaseInv, NoGap, Base, Loaded, Watched, Running
<1>4. WatchedCovered'
  BY <1>3 DEF LeaseInv, WatchedCovered, validatorVars
<1>5. QuietOK'
  BY DEF LeaseInv, QuietOK, validatorVars, Version, Base, Loaded
<1> QED  BY <1>1, <1>2, <1>3, <1>4, <1>5 DEF LeaseInv

\* Ticks, reads of the history and the loss and return of the etcd session leave the
\* validator and the versions of transactions alone.
LEMMA OthersKeep ==
    ASSUME LeaseInv,
           \/ Tick \/ HistoryReport \/ SessionLost \/ KeyRemoved \/ RestartSyncer
           \/ \E v \in 1 .. Version : HistoryRead(v)
           \/ UNCHANGED vars
    PROVE  LeaseInv'
<1>0. LeaseTyped /\ QuietOK
  BY DEF LeaseInv
<1>1. CASE UNCHANGED vars \/ \E v \in 1 .. Version : HistoryRead(v)
  BY <1>0, <1>1, FrameKeeps DEF vars, HistoryRead, envVars, syncVars, loopVars, txnVars, LeaseTyped
<1>2. CASE Tick
  BY <1>0, <1>2, FrameKeeps DEF Tick, syncVars, loopVars, txnVars, LeaseTyped
<1>3. CASE SessionLost
  BY <1>0, <1>3, FrameKeeps DEF SessionLost, envVars, syncVars, txnVars, LeaseTyped, Quiet
<1>4. CASE KeyRemoved
  BY <1>0, <1>4, FrameKeeps DEF KeyRemoved, envVars, loopVars, txnVars, LeaseTyped, QuietOK
<1>5. CASE RestartSyncer
  BY <1>0, <1>5, FrameKeeps DEF RestartSyncer, envVars, txnVars, LeaseTyped, QuietOK
<1>6. CASE HistoryReport
  BY <1>0, <1>6, FrameKeeps DEF HistoryReport, envVars, loopVars, txnVars, LeaseTyped
<1> QED  BY <1>1, <1>2, <1>3, <1>4, <1>5, <1>6

\* The owner publishes a version: what the older ones changed stays.
LEMMA PublishKeeps ==
    ASSUME LeaseInv, NEW d \in Diffs, NEW lost \in BOOLEAN, PublishVersion(d, lost)
    PROVE  LeaseInv'
<1>0. LeaseTyped /\ ReloadOK /\ NoGap /\ WatchedCovered /\ QuietOK
  BY DEF LeaseInv
<1>1. /\ diff \in Seq(Change) /\ d \in Change /\ diff' = Append(diff, d)
      /\ UNCHANGED <<validatorVars, now, syncVars, infoVer, reload, loopVars, txnVars, known>>
      /\ published' = now
  BY <1>0, LeaseAssumption DEF LeaseTyped, PublishVersion
<1>2. /\ diff' \in Seq(Change) /\ Version' = Version + 1 /\ Version \in Nat
      /\ \A w \in 1 .. Version : diff'[w] = diff[w]
  BY <1>1 DEF Version
<1>3. LeaseTyped'
  BY <1>0, <1>1, <1>2 DEF LeaseTyped, validatorVars, syncVars, txnVars
<1>4. Loaded' = Loaded /\ Base' = Base /\ Watched' = Watched /\ Running' = Running
  BY <1>1 DEF Loaded, Base, Watched, Running, txnVars
<1>5. ReloadOK'
  <2>1. ASSUME Loaded, reload.full = FALSE, NEW v \in reload.old + 1 .. infoVer
        PROVE  TouchedTables(diff'[v]) \subseteq TouchedTables(reload.change)
    <3>1. v \in 1 .. Version
      BY <1>0 DEF LeaseTyped
    <3> QED  BY <1>0, <1>2, <2>1, <3>1 DEF ReloadOK
  <2>2. reload.needed \in Nat /\ deltaSchemaInfos' = deltaSchemaInfos
    BY <1>0, <1>1 DEF LeaseTyped, validatorVars
  <2>3. reload.needed <= Version => reload.needed <= Version'
    BY <1>2, <2>2
  <2> QED  BY <1>0, <1>1, <1>4, <2>1, <2>2, <2>3 DEF ReloadOK
<1>6. NoGap'
  BY <1>0, <1>1, <1>4 DEF NoGap, txnVars
<1>7. WatchedCovered'
  <2> SUFFICES ASSUME isStarted = TRUE, NEW t \in Watched, ~(known <= txn[t].ver)
               PROVE  /\ latestSchemaVer = known
                      /\ Covers(deltaSchemaInfos, diff', txn[t].ver, known)
    BY <1>1, <1>4 DEF WatchedCovered, validatorVars, txnVars
  <2>1. latestSchemaVer = known /\ Covers(deltaSchemaInfos, diff, txn[t].ver, known)
    BY <1>0 DEF WatchedCovered
  <2>2. t \in Txn /\ txn[t].ver \in Nat
    BY <1>0 DEF Watched, Running, LeaseTyped, TxnRec
  <2>3. known <= Version
    BY <1>0 DEF NoGap, Base, LeaseTyped, ReloadOK
  <2>4. \A w \in txn[t].ver + 1 .. known : diff'[w] = diff[w]
    <3>1. known \in Nat
      BY <1>0 DEF LeaseTyped
    <3>2. \A u, n, m \in Nat : n <= m => \A w \in u + 1 .. n : w \in 1 .. m
      OBVIOUS
    <3>3. \A w \in txn[t].ver + 1 .. known : w \in 1 .. Version
      BY <1>2, <2>2, <2>3, <3>1, <3>2
    <3> QED  BY <1>2, <3>3
  <2> QED  BY <2>1, <2>4 DEF Covers
<1>8. QuietOK'
  <2>1. Quiet => missing' = missing /\ Version' <= MaxDiffsToLoad + 1
    BY <1>0, <1>2, LeaseAssumption DEF Quiet, PublishVersion
  <2> QED  BY <1>0, <1>1, <1>4, <2>1
           DEF QuietOK, validatorVars, syncVars, loopVars, LeaseTyped
<1> QED  BY <1>3, <1>5, <1>6, <1>7, <1>8 DEF LeaseInv

\* A transaction begins with the loaded version, takes the time and the current
\* version, and is checked with what it took.
LEMMA TxnStepShape ==
    ASSUME LeaseTyped, NEW t \in Txn,
           \/ \E R \in SUBSET Table : TxnBegin(t, R)
           \/ TxnTakeTS(t) \/ TxnCheck(t)
    PROVE  \E r \in TxnRec :
              /\ txn' = [txn EXCEPT ![t] = r]
              /\ \/ r.st = "running" /\ r.ver = infoVer /\ r.seen = txn[t].seen
                 \/ /\ t \in Running /\ r.ver = txn[t].ver
                    /\ \/ r.ts = now /\ r.seen = Version
                       \/ txn[t].st = "checking" /\ r.ts = txn[t].ts /\ r.seen = txn[t].seen
<1>0. /\ txn \in [Txn -> TxnRec] /\ txn[t] \in TxnRec
      /\ now \in Nat /\ Version \in Nat /\ infoVer \in Nat
  BY DEF LeaseTyped
<1>1. ASSUME NEW R \in SUBSET Table, TxnBegin(t, R)
      PROVE  \E r \in TxnRec : txn' = [txn EXCEPT ![t] = r]
                  /\ r.st = "running" /\ r.ver = infoVer /\ r.seen = txn[t].seen
  <2> DEFINE r == [txn[t] EXCEPT !.st = "running", !.ver = infoVer, !.tables = R]
  <2>1. r \in TxnRec
    BY <1>0 DEF TxnRec
  <2>2. txn' = [txn EXCEPT ![t] = r]
    BY <1>0, <1>1 DEF TxnBegin
  <2>3. r.st = "running" /\ r.ver = infoVer /\ r.seen = txn[t].seen
    BY <1>0 DEF TxnRec
  <2> QED  BY <2>1, <2>2, <2>3
<1>2. ASSUME TxnTakeTS(t)
      PROVE  \E r \in TxnRec : txn' = [txn EXCEPT ![t] = r] /\ t \in Running
                  /\ r.ver = txn[t].ver /\ r.ts = now /\ r.seen = Version
  <2> DEFINE r == [txn[t] EXCEPT !.st = "checking", !.ts = now, !.seen = Version]
  <2>1. r \in TxnRec
    BY <1>0 DEF TxnRec
  <2>2. txn' = [txn EXCEPT ![t] = r] /\ t \in Running
    BY <1>0, <1>2 DEF TxnTakeTS, Running
  <2>3. r.ver = txn[t].ver /\ r.ts = now /\ r.seen = Version
    BY <1>0 DEF TxnRec
  <2> QED  BY <2>1, <2>2, <2>3
<1>3. ASSUME TxnCheck(t)
      PROVE  \E r \in TxnRec : txn' = [txn EXCEPT ![t] = r] /\ t \in Running
                  /\ r.ver = txn[t].ver
                  /\ txn[t].st = "checking" /\ r.ts = txn[t].ts /\ r.seen = txn[t].seen
  <2> DEFINE result == Check(txn[t].ts, txn[t].ver, txn[t].tables)
             s == CASE result = "Succ" -> "ok"
                    [] result = "Fail" -> "changed"
                    [] txn[t].tries + 1 = RetryTimes -> "expired"
                    [] OTHER -> "checking"
             k == IF result = "Unknown" THEN txn[t].tries + 1 ELSE txn[t].tries
             r == [txn[t] EXCEPT !.st = s, !.tries = k]
  <2>1. s \in {"ok", "changed", "expired", "checking"} /\ k \in Nat
    <3> HIDE DEF result
    <3>1. txn[t].tries \in Nat
      BY <1>0 DEF TxnRec
    <3> QED  BY <3>1
  <2>2. txn' = [txn EXCEPT ![t] = r] /\ t \in Running /\ txn[t].st = "checking"
    <3>1. txn' = [txn EXCEPT ![t].st = s, ![t].tries = IF result = "Unknown" THEN @ + 1 ELSE @]
          /\ txn[t].st = "checking"
      BY <1>3 DEF TxnCheck
    <3> HIDE DEF result, s
    <3> QED  BY <1>0, <3>1 DEF Running
  <2> HIDE DEF result, s, k
  <2>3. r \in TxnRec /\ r.ver = txn[t].ver /\ r.ts = txn[t].ts /\ r.seen = txn[t].seen
    BY <1>0, <2>1 DEF TxnRec
  <2> QED  BY <2>2, <2>3
<1> QED  BY <1>1, <1>2, <1>3

\* A new transaction begins with a schema that is not older than any completed
\* Reload; the others keep theirs.
LEMMA TxnKeeps ==
    ASSUME LeaseInv, NEW t \in Txn,
           \/ \E R \in SUBSET Table : TxnBegin(t, R)
           \/ TxnTakeTS(t) \/ TxnCheck(t)
    PROVE  LeaseInv'
<1>0. LeaseTyped /\ ReloadOK /\ NoGap /\ WatchedCovered /\ QuietOK
  BY DEF LeaseInv
<1>1. UNCHANGED <<validatorVars, envVars, syncVars, infoVer, reload, loopVars, known, exposed>>
  BY DEF TxnBegin, TxnTakeTS, TxnCheck
<1>2. PICK r \in TxnRec :
          /\ txn' = [txn EXCEPT ![t] = r]
          /\ \/ r.st = "running" /\ r.ver = infoVer
             \/ t \in Running /\ r.ver = txn[t].ver
  BY <1>0, TxnStepShape
<1>3. LeaseTyped'
  BY <1>0, <1>1, <1>2 DEF LeaseTyped, validatorVars, envVars, syncVars, Version
<1>4. Loaded' = Loaded /\ Base' = Base /\ Base <= infoVer
  BY <1>0, <1>1 DEF Loaded, Base, ReloadOK, LeaseTyped
<1>5. \A x \in Running' : \/ x \in Running /\ txn'[x].ver = txn[x].ver
                          \/ x = t /\ txn'[x].ver = infoVer
  BY <1>0, <1>2 DEF Running, LeaseTyped
<1>6. \A x \in Watched' : \/ x \in Watched /\ txn'[x].ver = txn[x].ver
                          \/ txn'[x].ver = infoVer
  BY <1>1, <1>5 DEF Watched
<1>7. ReloadOK'
  BY <1>0, <1>1 DEF ReloadOK, Loaded, validatorVars, envVars, Version
<1>8. NoGap'
  BY <1>0, <1>1, <1>4, <1>5, <1>6, SMTT(30) DEF NoGap, LeaseTyped
<1>9. WatchedCovered'
  <2>1. known <= infoVer
    BY <1>0, <1>4 DEF NoGap, LeaseTyped, Base
  <2> QED  BY <1>0, <1>1, <1>6, <2>1 DEF WatchedCovered, validatorVars, envVars
<1>10. QuietOK'
  BY <1>0, <1>1, <1>4 DEF QuietOK, validatorVars, envVars, syncVars, loopVars, Version
<1> QED  BY <1>3, <1>7, <1>8, <1>9, <1>10 DEF LeaseInv

\* Steps of a Reload that change neither the validator nor what is known, and
\* leave the base where it is.
LEMMA ReloadFrame ==
    ASSUME LeaseInv, UNCHANGED <<validatorVars, envVars, loopVars, known, txn>>,
           selfVer' \in Nat, UNCHANGED <<registered, historyRead>>,
           reload' \in ReloadRec, infoVer' \in 0 .. Version, infoVer <= infoVer',
           ReloadOK', Base' = Base, Watched' \subseteq Watched,
           Quiet => (Loaded' /\ reload'.full = TRUE => reload'.old = 0)
    PROVE  LeaseInv'
<1>0. LeaseTyped /\ ReloadOK /\ NoGap /\ WatchedCovered /\ QuietOK
  BY DEF LeaseInv
<1>1. LeaseTyped'
  BY <1>0 DEF LeaseTyped, ReloadRec, validatorVars, envVars, Version
<1>2. NoGap'
  <2>1. Running' = Running
    BY DEF Running
  <2>2. \A t \in Running : txn[t].ver <= infoVer'
    <3>1. \A t \in Running : txn[t].ver \in Nat
      BY <1>0 DEF LeaseTyped, TxnRec, Running
    <3> QED  BY <1>0, <3>1 DEF NoGap, LeaseTyped
  <2> QED  BY <1>0, <2>1, <2>2 DEF NoGap
<1>3. WatchedCovered'
  BY <1>0 DEF WatchedCovered, validatorVars, envVars
<1>4. QuietOK'
  BY <1>0 DEF QuietOK, validatorVars, envVars, loopVars, Version
<1> QED  BY <1>1, <1>2, <1>3, <1>4 DEF LeaseInv

\* Reload asks for the current version, and goes on to load it or only renews the
\* lease.
LEMMA BeginKeeps ==
    ASSUME LeaseInv, NEW by \in {"loop", "callback"}, ReloadBegin(by)
    PROVE  LeaseInv'
<1>0. LeaseTyped /\ ReloadOK
  BY DEF LeaseInv
<1>1. /\ reload.pc = "idle" /\ reload = NoReload /\ infoVer \in Nat /\ Version \in Nat \ {0}
      /\ infoVer <= Version /\ now \in Nat
  BY <1>0 DEF ReloadBegin, ReloadOK, LeaseTyped
<1>2. PICK pc \in {"load", "update"} :
          /\ reload' = [reload EXCEPT !.pc = pc, !.by = by, !.ts = now, !.old = infoVer,
                                      !.needed = Version]
          /\ pc = "update" => infoVer = Version
          /\ pc = "load" => infoVer < Version
  <2>1. CASE infoVer # 0 /\ infoVer = Version
    BY <2>1 DEF ReloadBegin
  <2>2. CASE ~(infoVer # 0 /\ infoVer = Version)
    <3>1. infoVer < Version
      BY <1>1, <2>2
    <3> QED  BY <2>2, <3>1 DEF ReloadBegin
  <2> QED  BY <2>1, <2>2
<1>3. reload' = [pc |-> pc, by |-> by, ts |-> now, old |-> infoVer, needed |-> Version,
                 full |-> FALSE, change |-> <<>>]
  BY <1>1, <1>2 DEF NoReload
<1>4. reload' \in ReloadRec
  <2>1. <<>> \in Change
    BY DEF Change
  <2> QED  BY <1>1, <1>3, <2>1 DEF ReloadRec
<1>5. UNCHANGED <<validatorVars, envVars, loopVars, known, txn, exposed, infoVer, syncVars>>
  BY DEF ReloadBegin, txnVars
<1>6. ReloadOK'
  <2>0. /\ reload'.pc = pc /\ reload'.old = infoVer /\ reload'.needed = Version
        /\ reload'.full = FALSE /\ reload'.change = <<>>
        /\ infoVer' = infoVer /\ Version' = Version
    BY <1>3, <1>5 DEF envVars, Version
  <2> HIDE <1>3
  <2>1. CASE pc = "load"
    BY <1>1, <1>2, <2>0, <2>1 DEF ReloadOK, Loaded
  <2>2. CASE pc = "update"
    <3>1. \A v \in infoVer + 1 .. infoVer : FALSE
      BY <1>1
    <3> QED  BY <1>1, <1>2, <2>0, <2>2, <3>1 DEF ReloadOK, Loaded
  <2> QED  BY <2>1, <2>2
<1>7. Base' = Base /\ Watched' = Watched
  BY <1>1, <1>3, <1>5 DEF Base, Loaded, Watched, Running
<1> QED  BY <1>0, <1>1, <1>3, <1>4, <1>5, <1>6, <1>7, ReloadFrame DEF LeaseTyped, syncVars

\* Nothing is loaded when the store cannot be read.
LEMMA FailKeeps ==
    ASSUME LeaseInv, ReloadFail
    PROVE  LeaseInv'
<1>0. LeaseTyped /\ ReloadOK
  BY DEF LeaseInv
<1>1. /\ reload.pc = "load" /\ reload' = NoReload
      /\ UNCHANGED <<validatorVars, envVars, loopVars, known, txn, exposed, infoVer, syncVars>>
  BY DEF ReloadFail, txnVars
<1>2. reload' \in ReloadRec /\ ReloadOK'
  <2>1. <<>> \in Change
    BY DEF Change
  <2> QED  BY <1>1, <2>1 DEF ReloadRec, NoReload, ReloadOK, Loaded
<1>3. Base' = Base /\ Watched' = Watched /\ ~Loaded'
  BY <1>1 DEF Base, Loaded, Watched, Running, NoReload
<1>4. selfVer' \in Nat /\ infoVer' \in 0 .. Version /\ infoVer <= infoVer'
      /\ UNCHANGED <<registered, historyRead>>
  BY <1>0, <1>1 DEF LeaseTyped, syncVars
<1> QED  BY <1>1, <1>2, <1>3, <1>4, ReloadFrame

\* The change of a Reload names the tables of every version it loads, unless it
\* loads the whole schema (tryLoadSchemaDiffs).
LEMMA LoadKeeps ==
    ASSUME LeaseInv, ReloadLoad
    PROVE  LeaseInv'
<1> DEFINE full == IsTooOldSchema \/ (infoVer + 1 .. reload.needed) \cap missing # {}
           change == IF full THEN <<>>
                     ELSE FlattenSeq(SubSeq(diff, infoVer + 1, reload.needed))
<1>0. LeaseTyped /\ ReloadOK /\ QuietOK
  BY DEF LeaseInv
<1>1. /\ reload \in ReloadRec /\ reload.pc = "load" /\ reload.old = infoVer
      /\ infoVer \in Nat /\ reload.needed \in Nat /\ Version \in Nat
      /\ infoVer < reload.needed /\ reload.needed <= Version /\ diff \in Seq(Change)
  BY <1>0 DEF ReloadLoad, LeaseTyped, ReloadOK, ReloadRec
<1>2. /\ reload' = [reload EXCEPT !.pc = "sync", !.full = full, !.change = change]
      /\ infoVer' = reload.needed
      /\ UNCHANGED <<validatorVars, envVars, loopVars, known, txn, exposed, syncVars>>
  BY DEF ReloadLoad, txnVars
<1>3. full \in BOOLEAN
  BY DEF IsTooOldSchema
<1>4. change \in Change /\ (full = FALSE => \A v \in infoVer + 1 .. reload.needed :
                               TouchedTables(diff[v]) \subseteq TouchedTables(change))
  <2>1. CASE full
    BY <2>1 DEF Change
  <2>2. CASE ~full
    <3> DEFINE s == SubSeq(diff, infoVer + 1, reload.needed)
    <3>1. /\ s \in Seq(Change) /\ s # <<>> /\ Len(s) = reload.needed - infoVer
          /\ \A i \in 1 .. Len(s) : s[i] = diff[infoVer + i]
      BY <1>1, SubSeqPart, ZenonT(40) DEF Version
    <3>2. change = FlattenSeq(s)
      BY <2>2
    <3> HIDE DEF s, change, full
    <3>3. /\ change \in Change
          /\ \A j \in 1 .. Len(s) : Elements(s[j]) \subseteq Elements(change)
      BY <3>1, <3>2, FlattenElements DEF Change
    <3>4. ASSUME NEW v \in infoVer + 1 .. reload.needed
          PROVE  Elements(diff[v]) \subseteq Elements(change)
      <4>1. v - infoVer \in 1 .. Len(s) /\ infoVer + (v - infoVer) = v
        BY <1>1, <3>1
      <4> QED  BY <3>1, <3>3, <4>1
    <3> QED  BY <3>3, <3>4 DEF TouchedTables
  <2> QED  BY <2>1, <2>2
<1> HIDE DEF change
<1>5. Quiet /\ full => infoVer = 0
  <2> SUFFICES ASSUME Quiet, full, infoVer # 0 PROVE FALSE
    OBVIOUS
  <2>1. Version <= MaxDiffsToLoad + 1 /\ missing = {} /\ MaxDiffsToLoad \in Nat
    BY <1>0, LeaseAssumption DEF QuietOK
  <2>2. reload.needed - infoVer > MaxDiffsToLoad
    BY <2>1 DEF IsTooOldSchema
  <2> QED  BY <1>1, <2>1, <2>2
<1> HIDE DEF full
<1>6. /\ reload'.pc = "sync" /\ reload'.full = full /\ reload'.change = change
      /\ reload'.old = infoVer /\ reload'.needed = reload.needed
      /\ reload' \in ReloadRec
  BY <1>1, <1>2, <1>3, <1>4 DEF ReloadRec
<1>7. Loaded' /\ ~Loaded /\ Base' = Base /\ Watched' = Watched
  BY <1>1, <1>2, <1>6 DEF Loaded, Base, Watched, Running
<1>8. ReloadOK'
  BY <1>1, <1>2, <1>4, <1>6, <1>7 DEF ReloadOK, envVars
<1>9. infoVer' \in 0 .. Version /\ infoVer <= infoVer'
  BY <1>1, <1>2
<1> QED  BY <1>0, <1>2, <1>5, <1>6, <1>7, <1>8, <1>9, ReloadFrame DEF LeaseTyped, syncVars

\* The report to the owner leaves the schema and the validator alone.
LEMMA SyncKeeps ==
    ASSUME LeaseInv, ReloadSync
    PROVE  LeaseInv'
<1>0. LeaseTyped /\ ReloadOK /\ QuietOK
  BY DEF LeaseInv
<1>1. /\ reload \in ReloadRec /\ reload.pc = "sync" /\ reload.full \in BOOLEAN
      /\ UNCHANGED <<validatorVars, envVars, loopVars, known, txn, exposed, infoVer, registered,
                     historyRead>>
      /\ selfVer' = reload.needed
  BY <1>0 DEF ReloadSync, LeaseTyped, ReloadRec, txnVars
<1>2. PICK pc \in {"reset", "update"} :
          /\ reload' = [reload EXCEPT !.pc = pc]
          /\ pc = "reset" => reload.full = TRUE
          /\ pc = "update" => reload.full = FALSE
  BY <1>1 DEF ReloadSync
<1>3. /\ reload' \in ReloadRec /\ reload'.pc = pc /\ reload'.old = reload.old
      /\ reload'.needed = reload.needed /\ reload'.full = reload.full
      /\ reload'.change = reload.change
  BY <1>1, <1>2 DEF ReloadRec
<1>4. Loaded' /\ Loaded /\ Base' = Base /\ Watched' = Watched
  BY <1>1, <1>3 DEF Loaded, Base, Watched, Running
<1>5. ReloadOK'
  BY <1>0, <1>1, <1>2, <1>3, <1>4 DEF ReloadOK, envVars
<1>6. selfVer' \in Nat /\ infoVer' \in 0 .. Version /\ infoVer <= infoVer'
  BY <1>0, <1>1 DEF LeaseTyped, ReloadRec
<1>7. Quiet => (Loaded' /\ reload'.full = TRUE => reload'.old = 0)
  BY <1>0, <1>3, <1>4 DEF QuietOK
<1> QED  BY <1>1, <1>3, <1>4, <1>5, <1>6, <1>7, ReloadFrame

\* Events that expose the running transactions leave nobody to watch.
LEMMA ExposedUnwatched ==
    ASSUME ~Quiet, exposed' = exposed \cup Running, txn' = txn
    PROVE  Watched' = {} /\ Running' = Running
BY DEF Watched, Running

\* A failed report ends the Reload although the schema is already in use.
LEMMA SyncFailKeeps ==
    ASSUME LeaseInv, ReloadSyncFail
    PROVE  LeaseInv'
<1>0. LeaseTyped /\ ReloadOK /\ NoGap /\ QuietOK
  BY DEF LeaseInv
<1>1. /\ reload.pc = "sync" /\ reload' = NoReload /\ exposed' = exposed \cup Running
      /\ UNCHANGED <<validatorVars, envVars, loopVars, known, txn, infoVer, syncVars>>
  BY DEF ReloadSyncFail
<1>2. ~Quiet
  BY <1>0 DEF QuietOK, Quiet, ReloadSyncFail
<1>3. Watched' = {} /\ Running' = Running
  BY <1>1, <1>2, ExposedUnwatched
<1>4. LeaseTyped'
  <2>1. <<>> \in Change
    BY DEF Change
  <2>2. NoReload \in ReloadRec
    BY <2>1 DEF NoReload, ReloadRec
  <2> QED  BY <1>0, <1>1, <2>2 DEF LeaseTyped, ReloadRec, validatorVars, envVars, syncVars, Version
<1>5. Loaded /\ ~Loaded' /\ Base' = infoVer /\ Base = reload.old
  BY <1>1 DEF Loaded, Base, NoReload
<1>6. NoGap'
  <2>1. known <= infoVer
    BY <1>0, <1>5 DEF NoGap, ReloadOK, LeaseTyped
  <2> QED  BY <1>0, <1>1, <1>3, <1>5, <2>1 DEF NoGap
<1>7. ReloadOK' /\ WatchedCovered' /\ QuietOK'
  <2>1. ReloadOK'
    BY <1>1, <1>5 DEF ReloadOK, NoReload
  <2>2. WatchedCovered'
    BY <1>3 DEF WatchedCovered
  <2>3. QuietOK'
    BY <1>0, <1>1, <1>2 DEF QuietOK, validatorVars
  <2> QED  BY <2>1, <2>2, <2>3
<1> QED  BY <1>4, <1>6, <1>7 DEF LeaseInv

\* The loop stops and restarts the validator (loadSchemaInLoop); the transactions
\* that run meanwhile are not watched.
LEMMA LoopKeeps ==
    ASSUME LeaseInv, LoopStop \/ LoopRestart
    PROVE  LeaseInv'
<1>0. LeaseTyped /\ ReloadOK /\ NoGap /\ QuietOK
  BY DEF LeaseInv
<1>1. /\ exposed' = exposed \cup Running
      /\ UNCHANGED <<envVars, syncVars, infoVer, reload, txn, known, latestSchemaExpire>>
      /\ isStarted' \in BOOLEAN /\ latestSchemaVer' \in {0, latestSchemaVer}
      /\ deltaSchemaInfos' \in {<<>>, deltaSchemaInfos}
  BY DEF LoopStop, LoopRestart, Stop, Restart
<1>2. ~Quiet
  BY <1>0 DEF QuietOK, LoopStop, LoopRestart
<1>3. Watched' = {} /\ Running' = Running
  BY <1>1, <1>2, ExposedUnwatched
<1>4. LeaseTyped'
  <2>1. deltaSchemaInfos' \in Seq(Delta) /\ latestSchemaVer' \in Nat
    <3>1. deltaSchemaInfos \in Seq(Delta) /\ <<>> \in Seq(Delta) /\ latestSchemaVer \in Nat
      BY <1>0 DEF LeaseTyped
    <3>2. deltaSchemaInfos' \in Seq(Delta)
      <4>1. CASE deltaSchemaInfos' = <<>>
        BY <4>1
      <4>2. CASE deltaSchemaInfos' = deltaSchemaInfos
        BY <3>1, <4>2
      <4> QED  BY <1>1, <4>1, <4>2
    <3>3. latestSchemaVer' \in Nat
      BY <1>1, <3>1
    <3> QED  BY <3>2, <3>3
  <2> QED  BY <1>0, <1>1, <2>1 DEF LeaseTyped, envVars, syncVars, Version
<1>5. Loaded' = Loaded /\ Base' = Base
  BY <1>1 DEF Loaded, Base
<1>6. ReloadOK'
  BY <1>0, <1>1, <1>5 DEF ReloadOK, envVars, Version
<1>7. NoGap' /\ WatchedCovered'
  BY <1>0, <1>1, <1>3, <1>5 DEF NoGap, WatchedCovered
<1>8. QuietOK'
  BY <1>0, <1>1, <1>2 DEF QuietOK
<1> QED  BY <1>4, <1>6, <1>7, <1>8 DEF LeaseInv

\* After a full load the validator forgets its queue; the first one had none.
LEMMA ResetKeeps ==
    ASSUME LeaseInv, ReloadReset
    PROVE  LeaseInv'
<1>0. LeaseTyped /\ ReloadOK /\ NoGap /\ QuietOK
  BY DEF LeaseInv
<1>1. /\ exposed' = exposed \cup Running /\ reload.pc = "reset"
      /\ reload' = [reload EXCEPT !.pc = "update"] /\ reload \in ReloadRec
      /\ UNCHANGED <<envVars, syncVars, loopVars, infoVer, txn, known, latestSchemaExpire>>
      /\ isStarted' = TRUE /\ latestSchemaVer' = 0 /\ deltaSchemaInfos' = <<>>
  BY <1>0 DEF ReloadReset, Reset, LeaseTyped, ReloadRec
<1>2. /\ reload' \in ReloadRec /\ reload'.pc = "update" /\ reload'.old = reload.old
      /\ reload'.needed = reload.needed /\ reload'.full = reload.full
      /\ reload'.change = reload.change
  BY <1>1 DEF ReloadRec
<1>3. Loaded' /\ Loaded /\ Base' = Base /\ Running' = Running /\ Watched' \subseteq Watched
  BY <1>1, <1>2 DEF Loaded, Base, Watched, Running
<1>4. LeaseTyped'
  <2>1. deltaSchemaInfos' \in Seq(Delta)
    BY <1>1
  <2> QED  BY <1>0, <1>1, <1>2, <2>1 DEF LeaseTyped, ReloadRec, envVars, syncVars, Version
<1>5. ReloadOK'
  BY <1>0, <1>1, <1>2, <1>3 DEF ReloadOK, envVars
<1>6. NoGap'
  BY <1>0, <1>1, <1>3 DEF NoGap
<1>7. Quiet => known = 0
  BY <1>0, <1>1, <1>3 DEF QuietOK, Base, ReloadOK
<1>8. WatchedCovered'
  <2>1. CASE Quiet
    <3>1. \A t \in Running : 0 <= txn[t].ver
      BY <1>0 DEF LeaseTyped, TxnRec, Running
    <3>2. Watched' \subseteq Running
      BY <1>3 DEF Watched
    <3> QED  BY <1>1, <1>7, <2>1, <3>1, <3>2 DEF WatchedCovered
  <2>2. CASE ~Quiet
    BY <1>1, <2>2, ExposedUnwatched DEF WatchedCovered
  <2> QED  BY <2>1, <2>2
<1>9. QuietOK'
  BY <1>0, <1>1, <1>2, <1>3, <1>7 DEF QuietOK, envVars, syncVars, loopVars, Version
<1> QED  BY <1>4, <1>5, <1>6, <1>8, <1>9 DEF LeaseInv

\* enqueue keeps the type of the queue, and nothing in a queue without room.
LEMMA EnqueueTyped ==
    ASSUME NEW q \in Seq(Delta), NEW d \in Delta
    PROVE  /\ Enqueue(q, d) \in Seq(Delta)
           /\ MaxDeltaSchemaCount <= 0 => Enqueue(q, d) = q
<1>1. CASE q = <<>>
  BY <1>1 DEF Enqueue
<1>2. CASE q # <<>>
  <2> DEFINE n == Len(q)
             m == IF n > 1 /\ ContainIn(q[n].ids, d.ids)
                  THEN [q EXCEPT ![n] = d] ELSE Append(q, d)
  <2>0. n \in Nat \ {0} /\ DOMAIN q = 1 .. n
    BY <1>2
  <2>1. m \in Seq(Delta) /\ m # <<>>
    <3>1. [q EXCEPT ![n] = d] \in Seq(Delta) /\ Len([q EXCEPT ![n] = d]) = n
      BY <2>0
    <3>2. Append(q, d) \in Seq(Delta)
      OBVIOUS
    <3>3. Len(Append(q, d)) = n + 1
      OBVIOUS
    <3>4. Len(m) \in Nat \ {0} /\ m \in Seq(Delta)
      BY <2>0, <3>1, <3>2, <3>3
    <3> HIDE DEF m
    <3> QED  BY <3>4
  <2>2. Tail(m) \in Seq(Delta)
    <3> HIDE DEF m
    <3> QED  BY <2>1
  <2> HIDE DEF m
  <2>3. Enqueue(q, d) \in {q, m, Tail(m)}
    BY <1>2, <2>0 DEF Enqueue, m
  <2> QED  BY <2>1, <2>2, <2>3 DEF Enqueue
<1> QED  BY <1>1, <1>2

\* What a started validator knows after a Reload: its version, and in its queue
\* every change that a watched transaction has not seen (UFIDelate).
LEMMA UpdateCovers ==
    ASSUME LeaseInv, ReloadUpdate, isStarted = TRUE, NEW t \in Watched,
           ~(infoVer <= txn[t].ver)
    PROVE  Covers(deltaSchemaInfos', diff, txn[t].ver, infoVer)
<1> DEFINE v == txn[t].ver
           d == [ver |-> reload.needed, ids |-> reload.change]
<1>0. LeaseTyped /\ ReloadOK /\ NoGap /\ WatchedCovered /\ QuietOK
  BY DEF LeaseInv
<1>1. /\ reload.pc = "update" /\ Loaded /\ reload.needed = infoVer /\ reload.old <= infoVer
      /\ reload.old \in Nat /\ infoVer \in Nat /\ reload.change \in Change
      /\ reload.full \in BOOLEAN /\ Base = reload.old /\ known \in Nat
      /\ deltaSchemaInfos \in Seq(Delta)
  BY <1>0 DEF ReloadUpdate, Loaded, ReloadOK, LeaseTyped, Base
<1>2. v \in Nat /\ v < infoVer
  <2>1. v \in Nat
    BY <1>0 DEF Watched, Running, LeaseTyped, TxnRec
  <2> QED  BY <1>1, <2>1
<1>3. deltaSchemaInfos' = IF reload.needed # reload.old THEN Enqueue(deltaSchemaInfos, d)
                          ELSE deltaSchemaInfos
  BY DEF ReloadUpdate, Update
<1>4. Covers(deltaSchemaInfos, diff, v, reload.old)
  <2>1. CASE reload.old <= v
    <3>1. \A w \in v + 1 .. reload.old : FALSE
      BY <1>1, <1>2, <2>1
    <3> QED  BY <3>1 DEF Covers
  <2>2. CASE ~(reload.old <= v)
    <3>1. known = reload.old
      BY <1>0, <1>1, <2>2 DEF NoGap
    <3> QED  BY <1>0, <1>1, <1>2, <2>2, <3>1 DEF WatchedCovered
  <2> QED  BY <2>1, <2>2
<1> HIDE DEF v
<1>5. CASE reload.needed = reload.old
  BY <1>1, <1>3, <1>4, <1>5 DEF v
<1>6. CASE reload.needed # reload.old
  <2>1. d \in Delta /\ d.ver > v /\ d.ids = reload.change
    BY <1>1, <1>2 DEF Delta
  <2> HIDE DEF d
  <2>2. MaxDeltaSchemaCount <= 0 => deltaSchemaInfos = <<>>
    BY <1>0 DEF QuietOK
  <2>3. CASE reload.full = FALSE
    <3>1. \A w \in reload.old + 1 .. infoVer :
              TouchedTables(diff[w]) \subseteq TouchedTables(d.ids)
      BY <1>0, <1>1, <2>1, <2>3 DEF ReloadOK
    <3>2. Covers(Enqueue(deltaSchemaInfos, d), diff, v, infoVer)
      BY <1>1, <1>2, <1>4, <2>1, <2>2, <3>1, EnqueueCovers
    <3> QED  BY <1>3, <1>6, <3>2 DEF v
  <2>4. CASE reload.full = TRUE
    <3>1. deltaSchemaInfos = <<>>
      BY <1>0, <1>1, <2>4 DEF ReloadOK
    <3>2. Covers(deltaSchemaInfos, diff, v, infoVer)
      BY <3>1 DEF Covers, Newer
    <3>3. \A w \in infoVer + 1 .. infoVer : FALSE
      BY <1>1
    <3>4. Covers(Enqueue(deltaSchemaInfos, d), diff, v, infoVer)
      BY <1>1, <1>2, <2>1, <2>2, <3>2, <3>3, EnqueueCovers
    <3> QED  BY <1>3, <1>6, <3>4 DEF v
  <2> QED  BY <1>1, <2>3, <2>4
<1> QED  BY <1>5, <1>6

\* The last step of a Reload.
LEMMA UpdateKeeps ==
    ASSUME LeaseInv, ReloadUpdate
    PROVE  LeaseInv'
<1>0. LeaseTyped /\ ReloadOK /\ NoGap /\ WatchedCovered /\ QuietOK
  BY DEF LeaseInv
<1>1. /\ reload.pc = "update" /\ Loaded /\ reload.needed = infoVer /\ reload.old <= infoVer
      /\ reload.old \in Nat /\ infoVer \in Nat /\ reload.change \in Change /\ reload.ts \in Nat
      /\ Base = reload.old /\ known \in Nat /\ isStarted \in BOOLEAN
      /\ deltaSchemaInfos \in Seq(Delta)
  BY <1>0 DEF ReloadUpdate, Loaded, ReloadOK, LeaseTyped, Base
<1>2. /\ reload' = NoReload /\ known' = infoVer
      /\ UNCHANGED <<envVars, syncVars, infoVer, sessionLost, txn, exposed>>
      /\ loop = "run" => loop' = loop
  BY <1>1 DEF ReloadUpdate, txnVars
<1>3. ~Loaded' /\ Base' = infoVer /\ Watched' = Watched /\ Running' = Running
  BY <1>2 DEF Loaded, Base, NoReload, Watched, Running
<1>4. ReloadOK'
  BY <1>2, <1>3 DEF ReloadOK, NoReload
<1>5. NoGap'
  BY <1>0, <1>1, <1>2, <1>3 DEF NoGap
<1>6. /\ isStarted' = isStarted /\ latestSchemaVer' \in Nat /\ latestSchemaExpire' \in Int
      /\ deltaSchemaInfos' \in Seq(Delta)
      /\ MaxDeltaSchemaCount <= 0 => deltaSchemaInfos' = deltaSchemaInfos
      /\ isStarted = TRUE => latestSchemaVer' = infoVer
      /\ reload.old = infoVer => deltaSchemaInfos' = deltaSchemaInfos
  <2>1. CASE isStarted = FALSE
    BY <1>0, <2>1 DEF ReloadUpdate, Update, validatorVars, LeaseTyped
  <2>2. CASE isStarted = TRUE
    <3> DEFINE d == [ver |-> reload.needed, ids |-> reload.change]
    <3>1. d \in Delta
      BY <1>1 DEF Delta
    <3>2. /\ latestSchemaVer' = reload.needed /\ latestSchemaExpire' = reload.ts + Lease - 1
          /\ deltaSchemaInfos' = IF reload.needed # reload.old
                                 THEN Enqueue(deltaSchemaInfos, d) ELSE deltaSchemaInfos
          /\ isStarted' = isStarted
      BY <2>2 DEF ReloadUpdate, Update
    <3> HIDE DEF d
    <3>3. latestSchemaExpire' \in Int
      BY <1>1, <3>2, ValidatorAssumption
    <3> QED  BY <1>1, <3>1, <3>2, <3>3, EnqueueTyped
  <2> QED  BY <1>1, <2>1, <2>2
<1>7. LeaseTyped'
  <2>1. <<>> \in Change
    BY DEF Change
  <2>2. NoReload \in ReloadRec
    BY <2>1 DEF NoReload, ReloadRec
  <2> QED  BY <1>0, <1>1, <1>2, <1>6, <2>2 DEF LeaseTyped, ReloadRec, envVars, syncVars, Version
<1>8. WatchedCovered'
  <2> SUFFICES ASSUME isStarted = TRUE, NEW t \in Watched, ~(infoVer <= txn[t].ver)
               PROVE  latestSchemaVer' = infoVer
                      /\ Covers(deltaSchemaInfos', diff, txn[t].ver, infoVer)
    BY <1>2, <1>3, <1>6 DEF WatchedCovered, envVars
  <2> QED  BY <1>6, UpdateCovers
<1>9. QuietOK'
  <2>1. Quiet /\ known' = 0 => deltaSchemaInfos' = <<>>
    <3> SUFFICES ASSUME Quiet, known' = 0 PROVE deltaSchemaInfos' = <<>>
      OBVIOUS
    <3>1. infoVer = 0 /\ reload.old = 0 /\ known = 0
      BY <1>0, <1>1, <1>2 DEF QuietOK
    <3> QED  BY <1>0, <1>6, <3>1 DEF QuietOK
  <2> QED  BY <1>0, <1>1, <1>2, <1>3, <1>6, <2>1
           DEF QuietOK, envVars, syncVars, Version
<1> QED  BY <1>4, <1>5, <1>7, <1>8, <1>9 DEF LeaseInv

-----------------------------------------------------------------------------
(* The invariant holds. *)

\* A server that has just started satisfies the invariant.
LEMMA LeaseInit ==
    ASSUME Init
    PROVE  LeaseInv
<1>1. <<>> \in Change /\ <<>> \in Seq(Delta)
  BY DEF Change
<1>2. diff \in Seq(Change) /\ Version = 1
  BY <1>1 DEF Init, Version
<1>3. NoReload \in ReloadRec
  BY <1>1 DEF NoReload, ReloadRec
<1>4. NoTxn \in TxnRec /\ NoTxn.st = "idle"
  BY DEF NoTxn, TxnRec
<1>5. txn \in [Txn -> TxnRec] /\ Running = {}
  BY <1>4 DEF Init, Running
<1>6. Watched = {}
  BY <1>5 DEF Watched
<1>7. ~Loaded /\ Base = 0
  BY DEF Init, Loaded, Base, NoReload
<1>8. LeaseTyped
  BY <1>1, <1>2, <1>3, <1>5 DEF Init, ValidatorInit, LeaseTyped, ReloadRec
<1>9. ReloadOK
  BY <1>7 DEF Init, ReloadOK, NoReload
<1>10. NoGap /\ WatchedCovered
  BY <1>5, <1>6, <1>7 DEF Init, NoGap, WatchedCovered
<1>11. QuietOK
  BY <1>2, <1>7, LeaseAssumption DEF Init, ValidatorInit, QuietOK, NoReload
<1> QED  BY <1>8, <1>9, <1>10, <1>11 DEF LeaseInv

\* Every step of the server, the owner or a transaction keeps it.
LEMMA LeaseStep ==
    ASSUME LeaseInv, [Next]_vars
    PROVE  LeaseInv'
<1>1. CASE \/ Tick \/ HistoryReport \/ SessionLost \/ KeyRemoved \/ RestartSyncer
           \/ \E v \in 1 .. Version : HistoryRead(v)
           \/ UNCHANGED vars
  BY <1>1, OthersKeep
<1>2. CASE \E d \in Diffs, lost \in BOOLEAN : PublishVersion(d, lost)
  BY <1>2, PublishKeeps
<1>3. CASE \E by \in {"loop", "callback"} : ReloadBegin(by)
  BY <1>3, BeginKeeps
<1>4. CASE ReloadFail \/ ReloadLoad \/ ReloadSync \/ ReloadSyncFail
  BY <1>4, FailKeeps, LoadKeeps, SyncKeeps, SyncFailKeeps
<1>5. CASE ReloadReset \/ ReloadUpdate \/ LoopStop \/ LoopRestart
  BY <1>5, ResetKeeps, UpdateKeeps, LoopKeeps
<1>6. CASE \E t \in Txn : \/ \E R \in SUBSET Table : TxnBegin(t, R)
                          \/ TxnTakeTS(t) \/ TxnCheck(t)
  BY <1>6, TxnKeeps
<1> QED  BY <1>1, <1>2, <1>3, <1>4, <1>5, <1>6 DEF Next

\* The inductive invariant of the lease holds for every server: what a Reload has
\* loaded, the versions it left to the validator, and that the queue of changes
\* tells every watched transaction of them or tells that it cannot.
THEOREM LeaseInvHolds == Spec => []LeaseInv
<1>1. Init => LeaseInv
  BY LeaseInit
<1>2. LeaseInv /\ [Next]_vars => LeaseInv'
  BY LeaseStep
<1> QED  BY <1>1, <1>2, PTL DEF Spec

-----------------------------------------------------------------------------
(* What a transaction that passes the check has not missed. *)

\* Only the check passes a transaction.
LEMMA PassesIsCheck ==
    ASSUME LeaseTyped, [Next]_vars, NEW t \in Txn, Passes(t)
    PROVE  TxnCheck(t) /\ Check(txn[t].ts, txn[t].ver, txn[t].tables) = "Succ"
<1>0. txn \in [Txn -> TxnRec] /\ txn[t].st = "checking" /\ txn'[t].st = "ok"
  BY DEF LeaseTyped, Passes
<1>1. txn' # txn
  BY <1>0
<1>2. PICK u \in Txn : \/ \E R \in SUBSET Table : TxnBegin(u, R)
                       \/ TxnTakeTS(u) \/ TxnCheck(u)
  BY <1>1 DEF Next, vars, txnVars, Tick, PublishVersion, ReloadBegin, ReloadFail, ReloadLoad,
              ReloadSync, ReloadSyncFail, ReloadReset, ReloadUpdate, HistoryRead,
              HistoryReport, SessionLost, LoopStop, KeyRemoved, RestartSyncer, LoopRestart
<1>3. u = t
  <2>1. PICK r : txn' = [txn EXCEPT ![u] = r]
    BY <1>2, TxnStepShape
  <2> QED  BY <1>0, <2>1
<1>4. TxnCheck(t)
  <2>1. CASE \E R \in SUBSET Table : TxnBegin(t, R)
    BY <1>0, <2>1 DEF TxnBegin
  <2>2. CASE TxnTakeTS(t)
    BY <1>0, <2>2 DEF TxnTakeTS
  <2> QED  BY <1>2, <1>3, <2>1, <2>2
<1>5. Check(txn[t].ts, txn[t].ver, txn[t].tables) = "Succ"
  <2> DEFINE result == Check(txn[t].ts, txn[t].ver, txn[t].tables)
             s == CASE result = "Succ" -> "ok"
                    [] result = "Fail" -> "changed"
                    [] txn[t].tries + 1 = RetryTimes -> "expired"
                    [] OTHER -> "checking"
             k == IF result = "Unknown" THEN txn[t].tries + 1 ELSE txn[t].tries
  <2>1. txn' = [txn EXCEPT ![t].st = s, ![t].tries = IF result = "Unknown" THEN @ + 1 ELSE @]
    BY <1>4 DEF TxnCheck
  <2> HIDE DEF result
  <2>2. txn[t] \in TxnRec
    BY <1>0
  <2>3. s = "ok"
    <3> HIDE DEF s
    <3> QED  BY <1>0, <2>1, <2>2 DEF TxnRec
  <2> QED  BY <2>3 DEF result
<1> QED  BY <1>4, <1>5

\* The check catches every known change of a watched transaction.
LEMMA CheckCatches ==
    ASSUME LeaseInv, Lease # 0, NEW t \in Watched,
           Check(txn[t].ts, txn[t].ver, txn[t].tables) = "Succ"
    PROVE  ~Affected(t, txn[t].ver + 1 .. known)
<1> DEFINE v == txn[t].ver
<1>0. /\ WatchedCovered /\ t \in Txn /\ txn[t] \in TxnRec /\ known \in Nat
      /\ latestSchemaVer \in Nat /\ isStarted \in BOOLEAN
  BY DEF LeaseInv, LeaseTyped, Watched, Running
<1>1. v \in Nat
  BY <1>0 DEF TxnRec
<1>2. isStarted = TRUE /\ (v < latestSchemaVer => ~IsRelatedTablesChanged(v, txn[t].tables))
  BY <1>0 DEF Check
<1>3. CASE known <= v
  <2>1. \A w \in v + 1 .. known : FALSE
    BY <1>0, <1>1, <1>3
  <2> QED  BY <2>1 DEF Affected
<1>4. CASE ~(known <= v)
  <2>1. latestSchemaVer = known /\ Covers(deltaSchemaInfos, diff, v, known)
    BY <1>0, <1>2, <1>4 DEF WatchedCovered
  <2>2. ~IsRelatedTablesChanged(v, txn[t].tables)
    BY <1>0, <1>1, <1>2, <1>4, <2>1
  <2>3. NewerDeltas(v) = Newer(deltaSchemaInfos, v)
    BY DEF NewerDeltas, Newer
  <2>4. /\ Newer(deltaSchemaInfos, v) # DOMAIN deltaSchemaInfos
        /\ \A i \in Newer(deltaSchemaInfos, v) :
              TouchedTables(deltaSchemaInfos[i].ids) \cap txn[t].tables = {}
    BY <2>2, <2>3 DEF IsRelatedTablesChanged
  <2> HIDE DEF v
  <2>5. \A w \in v + 1 .. known : TouchedTables(diff[w]) \cap txn[t].tables = {}
    BY <2>1, <2>4 DEF Covers
  <2> QED  BY <2>5 DEF Affected, v
<1> QED  BY <1>3, <1>4

\* Whatever fails, and however long the versions a Reload skips, a transaction
\* that no failed report, reset, stop or restart of the validator overlaps does
\* not pass Check with a table that a completed Reload knows to have changed.  A
\* server without a lease does not check at all.
THEOREM FaultsHarmOnlyOverlappingHolds ==
    ASSUME Lease # 0
    PROVE  Spec => FaultsHarmOnlyOverlapping
<1> DEFINE A == \A t \in Txn \ exposed : Passes(t) => ~Affected(t, txn[t].ver + 1 .. known)
<1>1. ASSUME LeaseInv, [Next]_vars
      PROVE  A
  <2> SUFFICES ASSUME NEW t \in Txn \ exposed, Passes(t)
               PROVE  ~Affected(t, txn[t].ver + 1 .. known)
    OBVIOUS
  <2>1. Check(txn[t].ts, txn[t].ver, txn[t].tables) = "Succ"
    BY <1>1, PassesIsCheck DEF LeaseInv
  <2>2. t \in Watched
    BY DEF Passes, Watched, Running
  <2> QED  BY <1>1, <2>1, <2>2, CheckCatches
<1>2. LeaseInv /\ [Next]_vars => [A]_vars
  BY <1>1
<1> QED  BY <1>2, LeaseInvHolds, PTL DEF Spec, FaultsHarmOnlyOverlapping

\* While reports succeed, the session lasts, every diff can be read and no Reload
\* skips more versions than it loads by their diffs, Check lets no transaction
\* pass that uses a table changed by a version a completed Reload has loaded.
THEOREM KnownChangesCaughtHolds ==
    ASSUME Lease # 0, Quiet
    PROVE  Spec => KnownChangesCaught
<1> DEFINE A == \A t \in Txn : Passes(t) => ~Affected(t, txn[t].ver + 1 .. known)
<1>1. ASSUME LeaseInv, [Next]_vars
      PROVE  A
  <2> SUFFICES ASSUME NEW t \in Txn, Passes(t)
               PROVE  ~Affected(t, txn[t].ver + 1 .. known)
    OBVIOUS
  <2>1. Check(txn[t].ts, txn[t].ver, txn[t].tables) = "Succ"
    BY <1>1, PassesIsCheck DEF LeaseInv
  <2>2. t \in Watched
    BY DEF Passes, Watched, Running
  <2> QED  BY <1>1, <2>1, <2>2, CheckCatches
<1>2. LeaseInv /\ [Next]_vars => [A]_vars
  BY <1>1
<1> QED  BY <1>2, LeaseInvHolds, PTL DEF Spec, KnownChangesCaught

-----------------------------------------------------------------------------
(* What the server reports, and what its lease bounds. *)

\* How each step moves the clock, the published version, the loaded one, the
\* lease and the Reload under way.
LEMMA StepShape ==
    ASSUME LeaseInv, [Next]_vars
    PROVE  \/ /\ UNCHANGED <<diff, published, infoVer, latestSchemaExpire, reload, txn>>
              /\ now' \in Nat /\ now <= now'
           \/ /\ UNCHANGED <<now, infoVer, latestSchemaExpire, reload, txn, registered, selfVer>>
              /\ published' = now /\ Version' = Version + 1
              /\ ~registered \/ selfVer = Version \/ now >= published + 2 * Lease
           \/ /\ UNCHANGED <<now, diff, published, infoVer, latestSchemaExpire, txn>>
              /\ reload'.ts = now /\ reload'.needed = Version
           \/ /\ UNCHANGED <<now, diff, published, latestSchemaExpire, txn>>
              /\ infoVer <= infoVer'
              /\ \/ reload' = NoReload
                 \/ reload.pc # "idle" /\ reload'.ts = reload.ts /\ reload'.needed = reload.needed
           \/ /\ UNCHANGED <<now, diff, published, infoVer, txn>>
              /\ reload' = NoReload /\ reload.pc # "idle" /\ reload.needed = infoVer
              /\ isStarted = TRUE => latestSchemaExpire' = reload.ts + Lease - 1
              /\ isStarted = FALSE => UNCHANGED latestSchemaExpire
           \/ /\ UNCHANGED <<now, diff, published, infoVer, latestSchemaExpire, reload>>
              /\ \E t \in Txn : \/ \E R \in SUBSET Table : TxnBegin(t, R)
                                \/ TxnTakeTS(t) \/ TxnCheck(t)
<1>0. LeaseTyped /\ ReloadOK /\ reload \in ReloadRec /\ now \in Nat /\ isStarted \in BOOLEAN
  BY DEF LeaseInv, LeaseTyped, ReloadRec
<1>1. CASE Tick
  BY <1>0, <1>1 DEF Tick, validatorVars, txnVars
<1>2. CASE \/ HistoryReport \/ SessionLost \/ KeyRemoved \/ RestartSyncer \/ LoopStop
           \/ LoopRestart \/ \E v \in 1 .. Version : HistoryRead(v)
  <2>1. UNCHANGED <<diff, published, infoVer, latestSchemaExpire, reload, txn, now>>
    BY <1>2 DEF HistoryReport, SessionLost, KeyRemoved, RestartSyncer, LoopStop, LoopRestart,
                HistoryRead, Stop, Restart, validatorVars, envVars, txnVars
  <2> QED  BY <1>0, <2>1
<1>3. CASE UNCHANGED vars
  <2>1. UNCHANGED <<diff, published, infoVer, latestSchemaExpire, reload, txn, now>>
    BY <1>3 DEF vars, validatorVars, envVars, txnVars
  <2> QED  BY <1>0, <2>1
<1>4. CASE \E d \in Diffs, lost \in BOOLEAN : PublishVersion(d, lost)
  <2>1. PICK d \in Diffs, lost \in BOOLEAN : PublishVersion(d, lost)
    BY <1>4
  <2>2. Version' = Version + 1
    BY <1>0, <2>1, LeaseAssumption DEF PublishVersion, Version, LeaseTyped
  <2> QED  BY <2>1, <2>2 DEF PublishVersion, validatorVars, syncVars, txnVars
<1>5. CASE \E by \in {"loop", "callback"} : ReloadBegin(by)
  BY <1>0, <1>5 DEF ReloadBegin, validatorVars, envVars, txnVars, ReloadRec
<1>6. CASE ReloadFail \/ ReloadSyncFail
  BY <1>0, <1>6 DEF ReloadFail, ReloadSyncFail, validatorVars, envVars, txnVars, LeaseTyped
<1>7. CASE ReloadLoad
  <2>1. infoVer' = reload.needed /\ infoVer < reload.needed
    BY <1>0, <1>7 DEF ReloadLoad, ReloadOK
  <2>2. infoVer <= infoVer'
    BY <1>0, <2>1 DEF LeaseTyped, ReloadRec
  <2>3. reload.pc # "idle" /\ reload'.ts = reload.ts /\ reload'.needed = reload.needed
    BY <1>0, <1>7 DEF ReloadLoad, ReloadRec
  <2>4. UNCHANGED <<now, diff, published, latestSchemaExpire, txn>>
    BY <1>7 DEF ReloadLoad, validatorVars, envVars, txnVars
  <2> QED  BY <2>2, <2>3, <2>4
<1>8. CASE ReloadSync \/ ReloadReset
  <2>1. reload.pc # "idle" /\ reload'.ts = reload.ts /\ reload'.needed = reload.needed
    BY <1>0, <1>8 DEF ReloadSync, ReloadReset, ReloadRec
  <2>2. UNCHANGED <<now, diff, published, latestSchemaExpire, txn, infoVer>>
    BY <1>8 DEF ReloadSync, ReloadReset, Reset, validatorVars, envVars, txnVars
  <2>3. infoVer <= infoVer'
    BY <1>0, <2>2 DEF LeaseTyped
  <2> QED  BY <2>1, <2>2, <2>3
<1>9. CASE ReloadUpdate
  <2>1. reload.pc # "idle" /\ reload.needed = infoVer
    BY <1>0, <1>9 DEF ReloadUpdate, ReloadOK, Loaded
  <2>2. UNCHANGED <<now, diff, published, txn, infoVer>> /\ reload' = NoReload
    BY <1>9 DEF ReloadUpdate, envVars, txnVars
  <2>3. /\ isStarted = TRUE => latestSchemaExpire' = reload.ts + Lease - 1
        /\ isStarted = FALSE => UNCHANGED latestSchemaExpire
    BY <1>9 DEF ReloadUpdate, Update, validatorVars
  <2> QED  BY <2>1, <2>2, <2>3
<1>10. CASE \E t \in Txn : \/ \E R \in SUBSET Table : TxnBegin(t, R)
                           \/ TxnTakeTS(t) \/ TxnCheck(t)
  <2>1. UNCHANGED <<now, diff, published, infoVer, latestSchemaExpire, reload>>
    BY <1>10 DEF TxnBegin, TxnTakeTS, TxnCheck, validatorVars, envVars
  <2> QED  BY <1>10, <2>1
<1> QED  BY <1>1, <1>2, <1>3, <1>4, <1>5, <1>6, <1>7, <1>8, <1>9, <1>10 DEF Next

\* A report is of the version in use, unless a read of the history makes it.
LEMMA ReportsStep ==
    ASSUME LeaseInv, ReportsLoaded, [Next]_vars
    PROVE  ReportsLoaded'
<1> SUFFICES ASSUME "historyRead" \notin Events
             PROVE  historyRead' = 0 /\ selfVer' <= infoVer'
  BY DEF ReportsLoaded
<1>0. /\ historyRead = 0 /\ selfVer <= infoVer /\ selfVer \in Nat /\ infoVer \in Nat
      /\ infoVer' \in Nat /\ ReloadOK /\ reload \in ReloadRec
  <2>1. LeaseInv'
    BY LeaseStep
  <2> QED  BY <2>1 DEF ReportsLoaded, LeaseInv, LeaseTyped, ReloadRec
<1>1. historyRead' = 0
  BY <1>0 DEF Next, vars, syncVars, Tick, PublishVersion, ReloadBegin, ReloadFail, ReloadLoad,
              ReloadSync, ReloadSyncFail, ReloadReset, ReloadUpdate, HistoryRead, HistoryReport,
              SessionLost, LoopStop, KeyRemoved, RestartSyncer, LoopRestart,
              TxnBegin, TxnTakeTS, TxnCheck
<1>2. infoVer' >= infoVer
  <2>1. CASE ReloadLoad
    BY <1>0, <2>1 DEF ReloadLoad, ReloadOK, ReloadRec
  <2>2. CASE ~ReloadLoad
    <3>1. infoVer' = infoVer
      BY <2>2 DEF Next, vars, syncVars, Tick, PublishVersion, ReloadBegin, ReloadFail,
              ReloadSync, ReloadSyncFail, ReloadReset, ReloadUpdate, HistoryRead, HistoryReport,
              SessionLost, LoopStop, KeyRemoved, RestartSyncer, LoopRestart,
              TxnBegin, TxnTakeTS, TxnCheck
    <3> QED  BY <1>0, <3>1
  <2> QED  BY <2>1, <2>2
<1>3. selfVer' = selfVer \/ selfVer' = 0 \/ (selfVer' = infoVer /\ infoVer' = infoVer)
  <2>1. CASE ReloadSync
    BY <1>0, <2>1 DEF ReloadSync, ReloadOK, Loaded
  <2>2. CASE RestartSyncer
    BY <2>2 DEF RestartSyncer
  <2>3. CASE ~ReloadSync /\ ~RestartSyncer
    BY <1>0, <2>3 DEF Next, vars, syncVars, Tick, PublishVersion, ReloadBegin, ReloadFail,
              ReloadLoad, ReloadSyncFail, ReloadReset, ReloadUpdate, HistoryRead, HistoryReport,
              SessionLost, LoopStop, KeyRemoved, LoopRestart, TxnBegin, TxnTakeTS, TxnCheck
  <2> QED  BY <2>1, <2>2, <2>3
<1> QED  BY <1>0, <1>1, <1>2, <1>3

\* If no read of the history goes on, the owner never sees this server report a
\* version that its sessions do not use yet: the deferred report of
\* loadSchemaReplicant comes after Build, and a lost session reports nothing.
THEOREM ReportedInUseHolds ==
    ASSUME "historyRead" \notin Events
    PROVE  Spec => []ReportedInUse
<1>1. Init => ReportsLoaded
  BY DEF Init, ReportsLoaded
<1>2. LeaseInv /\ ReportsLoaded /\ [Next]_vars => ReportsLoaded'
  BY ReportsStep
<1>3. ReportsLoaded => ReportedInUse
  BY DEF ReportsLoaded, ReportedInUse
<1> QED  BY <1>1, <1>2, <1>3, LeaseInvHolds, PTL DEF Spec

\* The lease keeps its times: the owner waits for the report or for two leases,
\* and a Reload grants from the time it asked for the version.
LEMMA TimesStep ==
    ASSUME LeaseInv, ReportsLoaded, LeaseTimes, [Next]_vars, Quiet, Events = {}, Lease # 0
    PROVE  LeaseTimes'
<1>0. /\ now \in Nat /\ published \in Nat /\ published <= now /\ Version \in Nat
      /\ infoVer \in Nat /\ infoVer <= Version /\ latestSchemaExpire \in Int
      /\ selfVer \in Nat /\ selfVer <= infoVer /\ Lease \in Nat \ {0}
      /\ registered = TRUE /\ isStarted = TRUE
      /\ reload.ts \in Nat /\ reload.needed \in Nat
      /\ reload.pc # "idle" => reload.needed >= infoVer
      /\ \A t \in Txn : txn[t].ts \in Nat /\ txn[t].seen \in Nat
  <2>1. /\ now \in Nat /\ published \in Nat /\ published <= now /\ Version \in Nat
        /\ infoVer \in Nat /\ infoVer <= Version /\ latestSchemaExpire \in Int
        /\ selfVer \in Nat /\ reload \in ReloadRec /\ txn \in [Txn -> TxnRec]
    BY DEF LeaseInv, LeaseTyped, ReloadRec
  <2>2. \A t \in Txn : txn[t].ts \in Nat /\ txn[t].seen \in Nat
    BY <2>1 DEF TxnRec
  <2>3. reload.ts \in Nat /\ reload.needed \in Nat
    BY <2>1 DEF ReloadRec
  <2>4. reload.pc # "idle" => reload.needed >= infoVer
    BY <2>1, <2>3 DEF LeaseInv, ReloadOK, Loaded, ReloadRec
  <2> QED  BY <2>1, <2>2, <2>3, <2>4, ValidatorAssumption
           DEF ReportsLoaded, LeaseInv, QuietOK
<1>1. CASE /\ UNCHANGED <<diff, published, infoVer, latestSchemaExpire, reload, txn>>
           /\ now' \in Nat /\ now <= now'
  <2>1. Version' = Version
    BY <1>1 DEF Version
  <2>2. GrantTimes'
    <3>1. latestSchemaExpire <= now' + Lease - 1
      <4>1. latestSchemaExpire <= now + Lease - 1
        BY DEF LeaseTimes, GrantTimes
      <4>2. now \in Nat /\ now' \in Nat /\ now <= now' /\ Lease \in Nat
            /\ latestSchemaExpire \in Int
        BY <1>0, <1>1
      <4>3. \A e \in Int, n, m, k \in Nat : e <= n + k - 1 /\ n <= m => e <= m + k - 1
        OBVIOUS
      <4> QED  BY <4>1, <4>2, <4>3
    <3> QED  BY <1>1, <2>1, <3>1 DEF LeaseTimes, GrantTimes
  <2>3. ReloadTimes'
    BY <1>0, <1>1, <2>1 DEF LeaseTimes, ReloadTimes
  <2> QED  BY <1>1, <2>1, <2>2, <2>3 DEF LeaseTimes
<1>2. CASE /\ UNCHANGED <<now, infoVer, latestSchemaExpire, reload, txn, registered, selfVer>>
           /\ published' = now /\ Version' = Version + 1
           /\ ~registered \/ selfVer = Version \/ now >= published + 2 * Lease
  <2>1. infoVer = Version \/ now >= published + 2 * Lease
    BY <1>0, <1>2
  <2> QED  BY <1>0, <1>2, <2>1 DEF LeaseTimes, GrantTimes, ReloadTimes
<1>3. CASE /\ UNCHANGED <<now, diff, published, infoVer, latestSchemaExpire, txn>>
           /\ reload'.ts = now /\ reload'.needed = Version
  <2>1. Version' = Version
    BY <1>3 DEF Version
  <2>2. GrantTimes' /\ \A t \in Txn : txn'[t].seen <= Version
    BY <1>0, <1>3, <2>1 DEF LeaseTimes, GrantTimes
  <2>3. ReloadTimes'
    BY <1>0, <1>3, <2>1, <2>2 DEF ReloadTimes
  <2> QED  BY <1>3, <2>1, <2>2, <2>3 DEF LeaseTimes
<1>4. CASE /\ UNCHANGED <<now, diff, published, latestSchemaExpire, txn>>
           /\ infoVer <= infoVer'
           /\ \/ reload' = NoReload
              \/ reload.pc # "idle" /\ reload'.ts = reload.ts /\ reload'.needed = reload.needed
  <2>1. infoVer' \in Nat
    BY LeaseStep DEF LeaseInv, LeaseTyped
  <2>2. reload'.pc # "idle" => /\ reload.pc # "idle" /\ reload'.ts = reload.ts
                               /\ reload'.needed = reload.needed
    BY <1>4 DEF NoReload
  <2>3. Version' = Version
    BY <1>4 DEF Version
  <2>4. GrantTimes'
    BY <1>0, <1>4, <2>1, <2>3 DEF LeaseTimes, GrantTimes
  <2>5. ReloadTimes'
    BY <1>4, <2>2, <2>3 DEF LeaseTimes, ReloadTimes
  <2> QED  BY <1>4, <2>3, <2>4, <2>5 DEF LeaseTimes
<1>5. CASE /\ UNCHANGED <<now, diff, published, infoVer, txn>>
           /\ reload' = NoReload /\ reload.pc # "idle" /\ reload.needed = infoVer
           /\ isStarted = TRUE => latestSchemaExpire' = reload.ts + Lease - 1
  <2>1. reload'.pc = "idle"
    BY <1>5 DEF NoReload
  <2>2. Version' = Version
    BY <1>5 DEF Version
  <2>3. latestSchemaExpire' = reload.ts + Lease - 1
    BY <1>0, <1>5
  <2>4. GrantTimes'
    BY <1>0, <1>5, <2>2, <2>3 DEF LeaseTimes, GrantTimes, ReloadTimes
  <2> QED  BY <1>5, <2>1, <2>2, <2>4 DEF LeaseTimes, ReloadTimes
<1>6. CASE /\ UNCHANGED <<now, diff, published, infoVer, latestSchemaExpire, reload>>
           /\ \E t \in Txn : \/ \E R \in SUBSET Table : TxnBegin(t, R)
                             \/ TxnTakeTS(t) \/ TxnCheck(t)
  <2>1. PICK u \in Txn, r \in TxnRec :
              /\ txn' = [txn EXCEPT ![u] = r]
              /\ \/ r.st = "running" /\ r.seen = txn[u].seen
                 \/ r.ts = now /\ r.seen = Version
                 \/ txn[u].st = "checking" /\ r.ts = txn[u].ts /\ r.seen = txn[u].seen
    BY <1>6, TxnStepShape DEF LeaseInv
  <2>2. txn \in [Txn -> TxnRec]
    BY DEF LeaseInv, LeaseTyped
  <2>3. \A t \in Txn : \/ txn'[t].st # "checking" /\ txn'[t].seen = txn[t].seen
                       \/ txn'[t].ts = now /\ txn'[t].seen = Version
                       \/ /\ txn[t].st = "checking" \/ txn'[t] = txn[t]
                          /\ txn'[t].ts = txn[t].ts /\ txn'[t].seen = txn[t].seen
    BY <2>1, <2>2
  <2>4. \A t \in Txn : txn'[t].seen <= Version
    BY <1>0, <2>3 DEF LeaseTimes
  <2>5. ASSUME NEW t \in Txn, txn'[t].st = "checking"
        PROVE  /\ infoVer < txn'[t].seen - 1 => latestSchemaExpire < txn'[t].ts
               /\ reload.pc # "idle" /\ reload.needed < txn'[t].seen - 1
                     => reload.ts + Lease - 1 < txn'[t].ts
    <3>1. CASE txn'[t].ts = now /\ txn'[t].seen = Version
      <4>1. infoVer < Version - 1 => latestSchemaExpire < now
        BY <1>0 DEF LeaseTimes, GrantTimes
      <4>2. reload.pc # "idle" /\ reload.needed < Version - 1 => reload.ts + Lease - 1 < now
        BY <1>0 DEF LeaseTimes, ReloadTimes
      <4> QED  BY <3>1, <4>1, <4>2
    <3>2. CASE txn[t].st = "checking" /\ txn'[t].ts = txn[t].ts /\ txn'[t].seen = txn[t].seen
      BY <3>2 DEF LeaseTimes, GrantTimes, ReloadTimes
    <3> QED  BY <2>3, <2>5, <3>1, <3>2
  <2>6. Version' = Version
    BY <1>6 DEF Version
  <2>7. GrantTimes' /\ ReloadTimes'
    BY <1>6, <2>5, <2>6 DEF LeaseTimes, GrantTimes, ReloadTimes
  <2> QED  BY <1>6, <2>4, <2>6, <2>7 DEF LeaseTimes
<1> QED  BY <1>1, <1>2, <1>3, <1>4, <1>5, <1>6, StepShape

\* While nothing fails and nobody reads the history, a transaction that passes
\* Check under a lease that covers its timestamp, with no Reload under way, uses
\* no table that was changed two or more versions before its timestamp: the two
\* leases that the owner waits for a slow server are enough.
THEOREM LeaseBoundsLagHolds ==
    ASSUME Lease # 0, Events = {}, MaxVer <= MaxDiffsToLoad + 1
    PROVE  Spec => LeaseBoundsLag
<1> DEFINE A == \A t \in Txn : Passes(t) /\ reload.pc = "idle" /\ txn[t].ts <= latestSchemaExpire
                                  => ~TwoVersionsApart(t)
           I == LeaseInv /\ ReportsLoaded /\ LeaseTimes
<1>0. Quiet
  BY DEF Quiet
<1>1. ASSUME Init PROVE I
  <2>1. LeaseInv
    BY <1>1, LeaseInit
  <2>2. ReportsLoaded
    BY <1>1 DEF Init, ReportsLoaded
  <2>3. Version = 1
    BY <1>1 DEF Init, Version
  <2>4. \A t \in Txn : txn[t].st = "idle" /\ txn[t].seen = 0
    BY <1>1 DEF Init, NoTxn
  <2>5. LeaseTimes
    BY <1>1, <2>3, <2>4, ValidatorAssumption DEF Init, ValidatorInit, NoReload,
                                                      LeaseTimes, GrantTimes, ReloadTimes
  <2> QED  BY <2>1, <2>2, <2>5
<1>2. I /\ [Next]_vars => I'
  BY <1>0, LeaseStep, ReportsStep, TimesStep
<1>3. ASSUME I, [Next]_vars
      PROVE  A
  <2> SUFFICES ASSUME NEW t \in Txn, Passes(t), reload.pc = "idle",
                      txn[t].ts <= latestSchemaExpire
               PROVE  ~TwoVersionsApart(t)
    OBVIOUS
  <2>1. Check(txn[t].ts, txn[t].ver, txn[t].tables) = "Succ"
    BY <1>3, PassesIsCheck DEF LeaseInv
  <2>2. t \in Watched
    BY <1>0 DEF Passes, Watched, Running
  <2>3. ~Affected(t, txn[t].ver + 1 .. known)
    BY <1>3, <2>1, <2>2, CheckCatches
  <2>4. /\ txn[t].ts \in Nat /\ txn[t].seen \in Nat /\ txn[t].ver \in Nat
        /\ latestSchemaExpire \in Int /\ infoVer \in Nat
    <3>1. txn[t] \in TxnRec
      BY <1>3 DEF LeaseInv, LeaseTyped
    <3> QED  BY <1>3, <3>1 DEF LeaseInv, LeaseTyped, TxnRec
  <2>5. known = infoVer
    BY <1>0, <1>3 DEF LeaseInv, QuietOK, Base, Loaded
  <2>6. txn[t].seen - 1 <= known
    BY <1>3, <2>4, <2>5 DEF LeaseTimes, GrantTimes, Passes
  <2>7. \A w \in txn[t].ver + 1 .. txn[t].seen - 1 : w \in txn[t].ver + 1 .. known
    BY <2>4, <2>5, <2>6
  <2> QED  BY <2>3, <2>7 DEF TwoVersionsApart, Affected
<1>4. I /\ [Next]_vars => [A]_vars
  BY <1>3
<1> QED  BY <1>1, <1>2, <1>4, PTL DEF Spec, LeaseBoundsLag

=============================================================================
